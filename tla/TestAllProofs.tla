---------------------------- MODULE TestAllProofs ----------------------------
(***************************************************************************)
(* Proofs, for any list of scripts, that test-all.sh starts or reports     *)
(* each of them, whatever the processes it started do meanwhile.           *)
(*                                                                         *)
(* StartedOrReported says nothing of the script the loop is at, and so is  *)
(* not inductive: AtScript adds that nothing has happened to it while the  *)
(* shell is at the head of the loop, and that only a script which exists   *)
(* is given a subshell.                                                    *)
(***************************************************************************)
EXTENDS TestAll, TLAPS

Types ==
  /\ present \subseteq Script
  /\ pc \in {"loop", "subshell", "wait", "finished"}
  /\ m \in 1 .. Len(Scripts) + 1
  /\ reported \subseteq Script
  /\ job \in [Script -> {"none", "started", "running", "ended"}]

(* The script the loop is at. *)
AtScript ==
  /\ pc = "loop" /\ m <= Len(Scripts) =>
       job[script_path] = "none" /\ script_path \notin reported
  /\ pc = "subshell" => /\ m <= Len(Scripts)
                        /\ script_path \in present /\ script_path \notin reported
  /\ pc \in {"wait", "finished"} => m = Len(Scripts) + 1

Starting == Types /\ StartedOrReported /\ AtScript

(* Scripts is a list without repetitions: a script has one place in it.   *)
LEMMA ScriptAt ==
  /\ Len(Scripts) \in Nat
  /\ \A k \in 1 .. Len(Scripts) : Scripts[k] \in Script
  /\ \A k, l \in 1 .. Len(Scripts) : Scripts[k] = Scripts[l] => k = l
  BY ScriptAssumption DEF Script

LEMMA StartingInit == Init => Starting
<1> SUFFICES ASSUME Init PROVE Starting
  OBVIOUS
<1>1. Types
  BY ScriptAt DEF Init, Types
<1>2. StartedOrReported
  BY ScriptAt DEF Init, StartedOrReported
<1>3. AtScript
  BY ScriptAt DEF Init, AtScript, script_path
<1> QED BY <1>1, <1>2, <1>3 DEF Starting

(* A step of the shell: the loop passes a script, or takes one step of     *)
(* starting it.                                                            *)
LEMMA ShellStep == Starting /\ ShellNext => Starting'
<1> SUFFICES ASSUME Starting, ShellNext PROVE Starting'
  OBVIOUS
<1> USE ScriptAt DEF Starting
<1>0. m \in Nat \ {0} /\ m <= Len(Scripts) + 1
  BY DEF Types
<1>1. CASE ReportMissing
  <2>1. /\ pc = "loop" /\ m <= Len(Scripts) /\ script_path \notin present
        /\ reported' = reported \cup {script_path} /\ m' = m + 1
        /\ UNCHANGED <<present, pc, job, parent>>
    BY <1>1 DEF ReportMissing
  <2>2. script_path \in Script /\ job[script_path] = "none" /\ m \in 1 .. Len(Scripts)
    BY <1>0, <2>1 DEF AtScript, script_path
  <2>3. Types'
    BY <1>0, <2>1, <2>2 DEF Types
  <2>4. ASSUME NEW k \in 1 .. Len(Scripts)
        PROVE  /\ k < m + 1 => (job[Scripts[k]] # "none" <=> Scripts[k] \notin reported')
               /\ k > m + 1 => job[Scripts[k]] = "none" /\ Scripts[k] \notin reported'
               /\ job[Scripts[k]] # "none" => Scripts[k] \in present
    <3>1. k # m => Scripts[k] # script_path
      BY <2>2 DEF script_path
    <3> QED BY <1>0, <2>1, <2>2, <3>1 DEF StartedOrReported, script_path
  <2>5. StartedOrReported'
    BY <2>1, <2>4 DEF StartedOrReported
  <2>6. AtScript'
    <3> SUFFICES ASSUME m + 1 <= Len(Scripts)
                 PROVE  job[Scripts[m + 1]] = "none" /\ Scripts[m + 1] \notin reported'
      BY <2>1 DEF AtScript, script_path
    <3>1. m + 1 \in 1 .. Len(Scripts) /\ m + 1 > m /\ m + 1 # m
      BY <1>0
    <3>2. Scripts[m + 1] # script_path
      BY <2>2, <3>1 DEF script_path
    <3> QED BY <2>1, <3>1, <3>2 DEF StartedOrReported
  <2> QED BY <2>3, <2>5, <2>6
<1>2. CASE ForkSubshell
  <2>1. /\ pc = "loop" /\ m <= Len(Scripts) /\ script_path \in present /\ pc' = "subshell"
        /\ UNCHANGED <<present, m, reported, job, parent>>
    BY <1>2 DEF ForkSubshell
  <2>2. Types'
    BY <2>1 DEF Types
  <2>3. StartedOrReported'
    BY <2>1 DEF StartedOrReported
  <2>4. AtScript'
    BY <2>1 DEF AtScript, script_path
  <2> QED BY <2>2, <2>3, <2>4
<1>3. CASE Background
  <2>1. /\ pc = "subshell" /\ job[script_path] = "none"
        /\ job' = [job EXCEPT ![script_path] = "started"]
        /\ parent' = [parent EXCEPT ![script_path] = "subshell"]
        /\ UNCHANGED <<present, pc, m, reported>>
    BY <1>3 DEF Background
  <2>2. /\ m \in 1 .. Len(Scripts) /\ script_path \in present
        /\ script_path \notin reported /\ script_path \in Script
    BY <1>0, <2>1 DEF AtScript, script_path
  <2>3. Types'
    BY <2>1, <2>2 DEF Types, script_path
  <2>4. ASSUME NEW k \in 1 .. Len(Scripts)
        PROVE  /\ k < m => (job'[Scripts[k]] # "none" <=> Scripts[k] \notin reported)
               /\ k > m => job'[Scripts[k]] = "none" /\ Scripts[k] \notin reported
               /\ job'[Scripts[k]] # "none" => Scripts[k] \in present
    <3>1. k # m => Scripts[k] # script_path
      BY <2>2 DEF script_path
    <3>2. k # m => job'[Scripts[k]] = job[Scripts[k]]
      BY <2>1, <3>1 DEF Types
    <3>3. k = m => Scripts[k] \in present
      BY <2>2 DEF script_path
    <3> QED BY <1>0, <3>2, <3>3 DEF StartedOrReported
  <2>5. StartedOrReported'
    BY <2>1, <2>4 DEF StartedOrReported
  <2>6. AtScript'
    BY <2>1, <2>2 DEF AtScript, script_path
  <2> QED BY <2>3, <2>5, <2>6
<1>4. CASE ExitSubshell
  <2>1. /\ pc = "subshell" /\ job[script_path] # "none" /\ parent' = Adopted
        /\ m' = m + 1 /\ pc' = "loop" /\ UNCHANGED <<present, reported, job>>
    BY <1>4 DEF ExitSubshell, ExitAtOnce
  <2>2. m \in 1 .. Len(Scripts) /\ script_path \notin reported
    BY <1>0, <2>1 DEF AtScript
  <2>3. Types'
    BY <1>0, <2>1, <2>2 DEF Types, Adopted
  <2>4. ASSUME NEW k \in 1 .. Len(Scripts)
        PROVE  /\ k < m + 1 => (job[Scripts[k]] # "none" <=> Scripts[k] \notin reported)
               /\ k > m + 1 => job[Scripts[k]] = "none" /\ Scripts[k] \notin reported
               /\ job[Scripts[k]] # "none" => Scripts[k] \in present
    BY <1>0, <2>1, <2>2 DEF StartedOrReported, script_path
  <2>5. StartedOrReported'
    BY <2>1, <2>4 DEF StartedOrReported
  <2>6. AtScript'
    <3> SUFFICES ASSUME m + 1 <= Len(Scripts)
                 PROVE  job[Scripts[m + 1]] = "none" /\ Scripts[m + 1] \notin reported
      BY <2>1 DEF AtScript, script_path
    <3>1. m + 1 \in 1 .. Len(Scripts) /\ m + 1 > m
      BY <1>0
    <3> QED BY <3>1 DEF StartedOrReported
  <2> QED BY <2>3, <2>5, <2>6
<1>5. CASE EndLoop \/ WaitAndReport
  <2>1. /\ pc' \in {"wait", "finished"} /\ UNCHANGED <<present, m, reported, job, parent>>
        /\ m = Len(Scripts) + 1 /\ pc # "subshell"
    BY <1>0, <1>5 DEF EndLoop, WaitAndReport, AtScript
  <2>2. Types'
    BY <2>1 DEF Types
  <2>3. StartedOrReported'
    BY <2>1 DEF StartedOrReported
  <2>4. AtScript'
    BY <2>1 DEF AtScript
  <2> QED BY <2>2, <2>3, <2>4
<1> QED BY <1>1, <1>2, <1>3, <1>4, <1>5 DEF ShellNext

(* A step of a started script, at any point of the loop: no script becomes *)
(* started by it, and none stops having been.                              *)
LEMMA ScriptStep ==
  ASSUME Starting, NEW s \in Script, RunScript(s) \/ EndScript(s)
  PROVE  Starting'
<1>1. /\ job[s] \in {"started", "running"} /\ job' = [job EXCEPT ![s] = job'[s]]
      /\ job'[s] \in {"running", "ended"} /\ job \in [Script -> {"none", "started", "running", "ended"}]
      /\ UNCHANGED <<present, pc, m, reported, parent>>
  BY DEF RunScript, EndScript, Starting, Types
<1>2. \A t \in Script : job'[t] = "none" <=> job[t] = "none"
  BY <1>1
<1>3. Types'
  BY <1>1 DEF Starting, Types, script_path
<1>4. StartedOrReported'
  BY <1>1, <1>2, ScriptAt DEF Starting, StartedOrReported
<1>5. AtScript'
  <2>1. m <= Len(Scripts) => script_path \in Script
    BY ScriptAt DEF Starting, Types, script_path
  <2> QED BY <1>1, <1>2, <2>1 DEF Starting, AtScript, script_path
<1> QED BY <1>3, <1>4, <1>5 DEF Starting

LEMMA StartingStep == Starting /\ [Next]_vars => Starting'
<1>1. Starting /\ UNCHANGED vars => Starting'
  BY DEF vars, Starting, Types, StartedOrReported, AtScript, script_path
<1> QED BY <1>1, ShellStep, ScriptStep DEF Next

(* The shell keeps its inductive invariant. *)
THEOREM StartingAlways == Spec => []Starting
  BY StartingInit, StartingStep, PTL DEF Spec

(* For any list of scripts, each one the loop has passed was started or    *)
(* reported and not both, and none to come was, whatever the scripts do.   *)
THEOREM StartedOrReportedAlways == Spec => []StartedOrReported
  BY StartingAlways, PTL DEF Starting
=============================================================================
