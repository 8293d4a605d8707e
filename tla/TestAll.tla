------------------------------ MODULE TestAll ------------------------------
(***************************************************************************)
(* test-all.sh, which starts the measurement scripts: the only part of the *)
(* repository in which several processes run at once.  For every script    *)
(* that exists the shell runs                                              *)
(*                                                                         *)
(*     (cd "$start_dir/$dir/$alg" && bash ./"$script" &)                   *)
(*                                                                         *)
(* a subshell in the foreground, which puts the whole list "cd && bash" in *)
(* the background and exits.  That process then has no parent among the    *)
(* shells, and the final wait of the script does not know it.              *)
(***************************************************************************)
EXTENDS Naturals, Sequences

CONSTANT Scripts   (* the values of script_path, in the order of the loops *)

Script == {Scripts[m] : m \in 1 .. Len(Scripts)}

ASSUME ScriptAssumption == /\ Scripts \in Seq(Script)
                           /\ \A m, k \in 1 .. Len(Scripts) :
                                Scripts[m] = Scripts[k] => m = k

VARIABLES
  present,   (* the scripts that are regular files                         *)
  pc,        (* where the shell is                                         *)
  m,         (* index of the script it is at                               *)
  reported,  (* scripts reported as missing                                *)
  job,       (* the background process of every script                     *)
  parent     (* the parent of that process                                 *)

vars == <<present, pc, m, reported, job, parent>>

Init ==
  /\ present \in SUBSET Script
  /\ pc = "loop"
  /\ m = 1
  /\ reported = {}
  /\ job    = [s \in Script |-> "none"]
  /\ parent = [s \in Script |-> "none"]

script_path == Scripts[m]

(* [[ -f "$script_path" ]] fails. *)
ReportMissing ==
  /\ pc = "loop"
  /\ m <= Len(Scripts)
  /\ script_path \notin present
  /\ reported' = reported \cup {script_path}
  /\ m' = m + 1
  /\ UNCHANGED <<present, pc, job, parent>>

ForkUnchecked ==
  /\ pc = "loop"
  /\ m <= Len(Scripts)
  /\ pc' = "subshell"
  /\ UNCHANGED <<present, m, reported, job, parent>>

(* The shell forks the subshell, and waits for it as for any command.      *)
ForkSubshell ==
  /\ pc = "loop"
  /\ m <= Len(Scripts)
  /\ script_path \in present
  /\ pc' = "subshell"
  /\ UNCHANGED <<present, m, reported, job, parent>>

(* The subshell, of which the process is then a child, starts its list in  *)
(* the background.                                                         *)
Background ==
  /\ pc = "subshell"
  /\ job[script_path] = "none"
  /\ job' = [job EXCEPT ![script_path] = "started"]
  /\ parent' = [parent EXCEPT ![script_path] = "subshell"]
  /\ UNCHANGED <<present, pc, m, reported>>

ExitWhenEnded == job[script_path] = "ended"

(* The subshell does not wait for what it started. *)
ExitAtOnce == job[script_path] # "none"

(* The children of a process that exits become children of init. *)
Adopted == [s \in Script |-> IF parent[s] = "subshell" THEN "init" ELSE parent[s]]

(* The subshell has nothing else to do, and the loop goes on.              *)
ExitSubshell ==
  /\ pc = "subshell"
  /\ ExitAtOnce
  /\ parent' = Adopted
  /\ m' = m + 1
  /\ pc' = "loop"
  /\ UNCHANGED <<present, reported, job>>

(* cd, then bash. *)
RunScript(s) ==
  /\ job[s] = "started"
  /\ job' = [job EXCEPT ![s] = "running"]
  /\ UNCHANGED <<present, pc, m, reported, parent>>

EndScript(s) ==
  /\ job[s] = "running"
  /\ job' = [job EXCEPT ![s] = "ended"]
  /\ UNCHANGED <<present, pc, m, reported, parent>>

EndLoop ==
  /\ pc = "loop"
  /\ m > Len(Scripts)
  /\ pc' = "wait"
  /\ UNCHANGED <<present, m, reported, job, parent>>

(* wait, which waits for the children of the shell; then the message.      *)
WaitAndReport ==
  /\ pc = "wait"
  /\ \A s \in Script : parent[s] = "shell" => job[s] = "ended"
  /\ pc' = "finished"
  /\ UNCHANGED <<present, m, reported, job, parent>>

ShellNext == \/ ReportMissing
             \/ ForkSubshell
             \/ Background
             \/ ExitSubshell
             \/ EndLoop
             \/ WaitAndReport

Next == \/ ShellNext
        \/ \E s \in Script : RunScript(s) \/ EndScript(s)

(* The operating system runs every process.  Nothing says that a script    *)
(* ends: it is a simulation of unknown length.                             *)
Spec == /\ Init /\ [][Next]_vars
        /\ WF_vars(ShellNext)
        /\ \A s \in Script : WF_vars(RunScript(s))

-----------------------------------------------------------------------------
(* Properties *)

(* Every script the loop has passed was either started or reported, and    *)
(* not both; of those to come none was, whatever the started ones do.      *)
StartedOrReported ==
  \A k \in 1 .. Len(Scripts) :
    LET started == job[Scripts[k]] # "none"
    IN  /\ k < m => (started <=> Scripts[k] \notin reported)
        /\ k > m => ~ started /\ Scripts[k] \notin reported
        /\ started => Scripts[k] \in present

(* A script that exists is eventually run, though the shell that started   *)
(* it may long have exited.                                                *)
PresentScriptsRun ==
  \A s \in Script : [](s \in present => <>(job[s] \in {"running", "ended"}))

(* No script that hangs keeps another from being started, or the shell     *)
(* from coming to its end.                                                 *)
ShellEnds == <>(pc = "finished")

-----------------------------------------------------------------------------
(* What the script says, and does not do *)

(* "All scripts have completed." *)
AllCompleted ==
  pc = "finished" => \A s \in present : job[s] = "ended"
=============================================================================
