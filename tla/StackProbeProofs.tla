--------------------------- MODULE StackProbeProofs ---------------------------
(***************************************************************************)
(* Proofs about the benchmark firmware, for any list of operations, any    *)
(* number of windows and any width of the cycle counter: what a printed    *)
(* line says is true of the operation it names.                            *)
(*                                                                         *)
(* A line is made in eight steps of the caller while probes run on the     *)
(* other core, so none of the three properties is inductive.  That no      *)
(* failure is printed follows from whose calls can have failed so far      *)
(* (FailuresKnown); that the stack is the operation's own, from which      *)
(* probes can still be under way (ProbesOver); that the figures are clean, *)
(* from what every sample of calls that succeeded must be (SamplesKnown)   *)
(* and what sorting does to such samples (SortedSamples).                  *)
(***************************************************************************)
EXTENDS StackProbe, FiniteSetTheorems, SequenceTheorems, TLAPS

TaskPc == {"none", "created", "running", "called", "wrote", "deleted"}

ProbeTyped ==
  /\ todo \in {Ops, KemOps}
  /\ k \in 1 .. Len(todo) + 1
  /\ pc \in {"setup", "over", "measure", "windows", "probe", "create", "wait", "report"}
  /\ pc = "setup" => k = 1
  /\ pc \in {"windows", "probe", "create", "wait", "report"} => k <= Len(todo)
  /\ s_op_failures \in BOOLEAN
  /\ notified \in Nat
  /\ task \in [Probe -> [pc : TaskPc, op : Op \cup {NoOp}]]
  /\ s_probe_op \in Op \cup {NoOp}
  /\ \E S : printed \in Seq(S)

-----------------------------------------------------------------------------
(***************************************************************************)
(* Types.                                                                  *)
(***************************************************************************)
\* The operations that are run are the first of all, each once.
LEMMA OpsFacts ==
  /\ Len(KemOps) \in Nat /\ Len(Ops) \in Nat /\ Len(KemOps) <= Len(Ops)
  /\ \A i \in 1 .. Len(Ops) : Ops[i] \in DOMAIN Cycles
  /\ \A i \in 1 .. Len(KemOps) : KemOps[i] = Ops[i]
<1>1. KemOps \in Seq(DOMAIN Cycles) /\ ClassicalOps \in Seq(DOMAIN Cycles)
  BY ProbeAssumption
<1>2. /\ Ops \in Seq(DOMAIN Cycles)
      /\ Len(Ops) = Len(KemOps) + Len(ClassicalOps)
      /\ \A i \in 1 .. Len(KemOps) + Len(ClassicalOps) :
           Ops[i] = IF i <= Len(KemOps) THEN KemOps[i]
                    ELSE ClassicalOps[i - Len(KemOps)]
  BY <1>1, ConcatProperties DEF Ops
<1>3. Len(KemOps) \in Nat /\ Len(ClassicalOps) \in Nat
  BY <1>1, LenProperties
<1>4. \A i \in 1 .. Len(Ops) : Ops[i] \in DOMAIN Cycles
  BY <1>2, ElementOfSeq
<1> QED
  BY <1>2, <1>3, <1>4

LEMMA TodoFacts ==
  ASSUME ProbeTyped
  PROVE  /\ Len(todo) \in Nat /\ Len(todo) <= Len(Ops)
         /\ \A i \in 1 .. Len(todo) : /\ i \in Probe /\ todo[i] = Ops[i]
                                     /\ todo[i] \in Op /\ todo[i] \in DOMAIN Cycles
         /\ \A i, j \in 1 .. Len(todo) : todo[i] = todo[j] => i = j
<1>1. Len(todo) \in Nat /\ Len(todo) <= Len(Ops)
  BY OpsFacts DEF ProbeTyped
<1>2. \A i \in 1 .. Len(todo) : i \in Probe /\ todo[i] = Ops[i]
  BY <1>1, OpsFacts DEF ProbeTyped, Probe
<1>3. \A i \in 1 .. Len(todo) : todo[i] \in Op /\ todo[i] \in DOMAIN Cycles
  BY <1>2, OpsFacts DEF Op, Probe
<1>4. \A i, j \in 1 .. Len(todo) : todo[i] = todo[j] => i = j
  BY <1>2, ProbeAssumption DEF Probe
<1> QED
  BY <1>1, <1>2, <1>3, <1>4

\* The caller is between the first timed call of an operation and its report.
Running == pc \in {"windows", "probe", "create", "wait", "report"}

LEMMA OpTyped ==
  ASSUME ProbeTyped, Running
  PROVE  k \in 1 .. Len(todo) /\ k \in Probe /\ op \in Op /\ op \in DOMAIN Cycles
<1>1. k \in 1 .. Len(todo)
  BY TodoFacts DEF ProbeTyped, Running
<1> QED
  BY <1>1, TodoFacts DEF op

LEMMA ProbeTypedInit == Init => ProbeTyped
<1> SUFFICES ASSUME Init PROVE ProbeTyped
  OBVIOUS
<1>1. printed \in Seq({})
  BY DEF Init
<1>2. k \in 1 .. Len(todo) + 1
  BY OpsFacts DEF Init
<1> QED
  BY <1>1, <1>2 DEF Init, ProbeTyped, TaskPc

LEMMA ProbeTypedNext == ProbeTyped /\ [Next]_vars => ProbeTyped'
<1> SUFFICES ASSUME ProbeTyped, [Next]_vars PROVE ProbeTyped'
  OBVIOUS
<1> USE DEF ProbeTyped, Step, callerVars, shared, TaskPc
<1>1. CASE Setup
  <2>1. k' \in 1 .. Len(todo') + 1
    BY <1>1, OpsFacts DEF Setup
  <2> QED
    BY <1>1, <2>1 DEF Setup
<1>2. CASE Measure
  BY <1>2 DEF Measure
<1>3. CASE MeasureWindow
  BY <1>3 DEF MeasureWindow, Call
<1>4. CASE MeasureEnds
  BY <1>4 DEF MeasureEnds
<1>5. CASE SetProbe
  <2>1. op \in Op
    BY <1>5, OpTyped DEF SetProbe, Running
  <2> QED
    BY <1>5, <2>1 DEF SetProbe
<1>6. CASE CreateTask
  BY <1>6, OpTyped DEF CreateTask, Running
<1>7. CASE CreateFails
  BY <1>7 DEF CreateFails
<1>8. CASE WaitReturns
  BY <1>8 DEF WaitReturns
<1>9. CASE WaitTimesOut
  BY <1>9 DEF WaitTimesOut
<1>10. CASE Report
  <2>1. k' \in 1 .. Len(todo') + 1
    BY <1>10, TodoFacts DEF Report
  <2>2. \E S : printed' \in Seq(S)
    <3> DEFINE line == [op |-> op, stack |-> stack, cycles |-> r, clean |-> clean,
                        failed |-> op \in failed]
    <3>1. PICK S : printed \in Seq(S)
      OBVIOUS
    <3>2. printed' \in {printed, Append(printed, line)}
      BY <1>10 DEF Report
    <3> HIDE DEF line
    <3>3. printed \in Seq(S \cup {line})
      BY <3>1
    <3>4. Append(printed, line) \in Seq(S \cup {line})
      BY <3>3, AppendProperties
    <3> QED
      BY <3>2, <3>3, <3>4
  <2> QED
    BY <1>10, <2>1, <2>2 DEF Report
<1>11. ASSUME NEW t \in Probe, TaskStarts(t) \/ TaskCalls(t) \/ TaskWrites(t)
                               \/ TaskNotifies(t)
       PROVE  ProbeTyped'
  <2>1. PICK p \in TaskPc, o \in Op \cup {NoOp} :
          task' = [task EXCEPT ![t] = [pc |-> p, op |-> o]]
    <3>1. task[t].op \in Op \cup {NoOp}
      BY <1>11
    <3> QED
      BY <1>11, <3>1 DEF TaskStarts, TaskCalls, TaskWrites, TaskNotifies, TaskStep
  <2>2. UNCHANGED <<todo, k, pc, printed, s_probe_op>>
    BY <1>11 DEF TaskStarts, TaskCalls, TaskWrites, TaskNotifies
  <2>3. s_op_failures' \in BOOLEAN
    BY <1>11 DEF TaskStarts, TaskCalls, TaskWrites, TaskNotifies, Call
  <2>4. notified' \in Nat
    BY <1>11 DEF TaskStarts, TaskCalls, TaskWrites, TaskNotifies
  <2> QED
    BY <1>11, <2>1, <2>2, <2>3, <2>4
<1>12. CASE UNCHANGED vars
  BY <1>12 DEF vars
<1> QED
  BY <1>1, <1>2, <1>3, <1>4, <1>5, <1>6, <1>7, <1>8, <1>9, <1>10, <1>11, <1>12 DEF Next

LEMMA InvariantProbeTyped == Spec => []ProbeTyped
  BY ProbeTypedInit, ProbeTypedNext, PTL DEF Spec

-----------------------------------------------------------------------------
(***************************************************************************)
(* No figure of a failure.                                                 *)
(***************************************************************************)
\* The stack of an operation is being probed, or has been.
Probed(o) ==
  \E i \in 1 .. Len(todo) :
    /\ o = todo[i]
    /\ i < k \/ (i = k /\ pc \in {"create", "wait", "report"})

FailuresKnown ==
  /\ pc = "setup" => failed = {} /\ \A t \in Probe : task[t].pc = "none"
  /\ pc \in {"create", "wait", "report"} => s_probe_op = op
  /\ \A t \in Probe :
       /\ task[t].pc = "created" => Probed(s_probe_op)
       /\ task[t].pc \in {"running", "called", "wrote"} => Probed(task[t].op)
  /\ \A o \in failed :
       \E i \in 1 .. Len(todo) : /\ o = todo[i]
                                 /\ i < k \/ (i = k /\ Running /\ s_op_failures)
  /\ NoFigureOfAFailure

\* A step that goes on with the same operation keeps what has been probed.
LEMMA ProbedKept ==
  ASSUME ProbeTyped, UNCHANGED todo, NEW o, Probed(o),
         \/ (k' = k /\ (pc' = pc \/ pc' \in {"create", "wait", "report"}))
         \/ k' = k /\ pc \notin {"create", "wait", "report"}
         \/ k' = k + 1
  PROVE  Probed(o)'
<1>1. PICK i \in 1 .. Len(todo) :
        /\ o = todo[i]
        /\ i < k \/ (i = k /\ pc \in {"create", "wait", "report"})
  BY DEF Probed
<1>2. i < k' \/ (i = k' /\ pc' \in {"create", "wait", "report"})
  BY <1>1, TodoFacts DEF ProbeTyped
<1> QED
  BY <1>1, <1>2 DEF Probed

LEMMA FailuresKnownInit == Init => FailuresKnown
  BY DEF Init, FailuresKnown, NoFigureOfAFailure

LEMMA FailuresKnownNext ==
  ASSUME ProbeTyped, ProbeTyped', FailuresKnown, [Next]_vars
  PROVE  FailuresKnown'
<1> USE DEF Step, callerVars, shared
<1>1. CASE Setup
  <2>1. /\ failed' = {} /\ UNCHANGED <<printed, task>> /\ \A t \in Probe : task[t].pc = "none"
        /\ pc' \in {"measure", "over"}
    BY <1>1 DEF Setup, FailuresKnown
  <2> QED
    BY <1>1, <2>1 DEF FailuresKnown, NoFigureOfAFailure
<1>2. CASE Measure
  <2>1. /\ pc = "measure" /\ pc' = "windows" /\ k \in 1 .. Len(todo)
        /\ UNCHANGED <<todo, k, printed, s_probe_op, task>>
    BY <1>2 DEF Measure, ProbeTyped
  <2>2. \A o : Probed(o) => Probed(o)'
    BY <2>1, ProbedKept
  <2>3. ASSUME NEW o \in failed'
        PROVE  \E i \in 1 .. Len(todo) : /\ o = todo[i]
                                         /\ i < k \/ (i = k /\ s_op_failures')
    <3>1. CASE o \in failed
      BY <2>1, <3>1 DEF FailuresKnown, Running
    <3>2. CASE o \notin failed
      <4>1. o = todo[k] /\ s_op_failures'
        BY <1>2, <2>3, <3>2 DEF Measure, op
      <4> QED
        BY <2>1, <4>1
    <3> QED
      BY <3>1, <3>2
  <2> QED
    BY <2>1, <2>2, <2>3 DEF FailuresKnown, NoFigureOfAFailure, Running
<1>3. CASE MeasureWindow
  <2>1. /\ pc = "windows" /\ k \in 1 .. Len(todo)
        /\ UNCHANGED <<todo, k, pc, printed, s_probe_op, task>>
        /\ \/ UNCHANGED <<s_op_failures, failed>>
           \/ s_op_failures' = TRUE /\ failed' = failed \cup {op}
    BY <1>3, OpTyped DEF MeasureWindow, Call, Running
  <2>2. \A o : Probed(o) => Probed(o)'
    BY <2>1, ProbedKept
  <2>3. ASSUME NEW o \in failed'
        PROVE  \E i \in 1 .. Len(todo) : /\ o = todo[i]
                                         /\ i < k \/ (i = k /\ s_op_failures')
    <3>1. CASE o \in failed
      BY <2>1, <3>1 DEF FailuresKnown
    <3>2. CASE o \notin failed
      <4>1. o = todo[k] /\ s_op_failures'
        BY <2>1, <2>3, <3>2 DEF op
      <4> QED
        BY <2>1, <4>1
    <3> QED
      BY <3>1, <3>2
  <2> QED
    BY <2>1, <2>2, <2>3 DEF FailuresKnown, NoFigureOfAFailure, Running
<1>4. CASE MeasureEnds \/ SetProbe \/ CreateFails \/ WaitReturns \/ WaitTimesOut
  <2>1. /\ Running /\ Running' /\ pc # "setup" /\ pc' # "setup"
        /\ UNCHANGED <<todo, k, printed, s_op_failures, failed, task>>
        /\ \/ pc \notin {"create", "wait", "report"}
           \/ pc' \in {"create", "wait", "report"}
    BY <1>4 DEF MeasureEnds, SetProbe, CreateFails, WaitReturns, WaitTimesOut, Running
  <2>2. \A o : Probed(o) => Probed(o)'
    BY <2>1, ProbedKept
  <2>3. k \in 1 .. Len(todo)
    BY <2>1, OpTyped
  <2>4. pc' \in {"create", "wait", "report"} => s_probe_op' = op'
    BY <1>4, <2>1 DEF MeasureEnds, SetProbe, CreateFails, WaitReturns, WaitTimesOut,
                      FailuresKnown, op
  <2>5. CASE s_probe_op' = s_probe_op
    BY <2>1, <2>2, <2>4, <2>5 DEF FailuresKnown, NoFigureOfAFailure
  <2>6. CASE s_probe_op' # s_probe_op
    <3>1. SetProbe
      BY <1>4, <2>6 DEF MeasureEnds, CreateFails, WaitReturns, WaitTimesOut
    <3>2. Probed(s_probe_op)'
      BY <2>1, <2>3, <3>1 DEF SetProbe, Probed, op
    <3> QED
      BY <2>1, <2>2, <2>4, <3>2 DEF FailuresKnown, NoFigureOfAFailure
  <2> QED
    BY <2>5, <2>6
<1>5. CASE CreateTask
  <2>1. /\ pc = "create" /\ pc' = "wait" /\ Running /\ Running'
        /\ UNCHANGED <<todo, k, printed, s_op_failures, failed, s_probe_op>>
        /\ task' = [task EXCEPT ![k].pc = "created"]
    BY <1>5 DEF CreateTask, Running
  <2>2. \A o : Probed(o) => Probed(o)'
    BY <2>1, ProbedKept
  <2>3. k \in 1 .. Len(todo) /\ s_probe_op = op
    BY <2>1, OpTyped DEF FailuresKnown
  <2>4. Probed(s_probe_op)'
    BY <2>1, <2>3 DEF Probed, op
  <2>5. \A t \in Probe : \/ task'[t] = task[t]
                         \/ task'[t].pc = "created"
    BY <2>1 DEF ProbeTyped
  <2>6. s_probe_op' = op'
    BY <2>1, <2>3 DEF op
  <2> QED
    BY <2>1, <2>2, <2>4, <2>5, <2>6 DEF FailuresKnown, NoFigureOfAFailure
<1>6. CASE Report
  <2>1. /\ pc = "report" /\ pc' = "measure" /\ k \in 1 .. Len(todo) /\ k' = k + 1
        /\ UNCHANGED <<todo, s_op_failures, failed, s_probe_op, task>>
    BY <1>6, OpTyped DEF Report, Running
  <2>2. \A o : Probed(o) => Probed(o)'
    BY <2>1, ProbedKept
  <2>3. \A o \in failed : \E i \in 1 .. Len(todo) : o = todo[i] /\ i < k'
    BY <2>1 DEF FailuresKnown
  <2>4. NoFigureOfAFailure'
    <3>1. CASE s_op_failures
      BY <1>6, <3>1 DEF Report, FailuresKnown, NoFigureOfAFailure
    <3>2. CASE ~s_op_failures
      <4> DEFINE line == [op |-> op, stack |-> stack, cycles |-> r, clean |-> clean,
                          failed |-> op \in failed]
      <4>1. op \notin failed
        <5> SUFFICES ASSUME op \in failed PROVE FALSE
          OBVIOUS
        <5>1. PICK i \in 1 .. Len(todo) : op = todo[i] /\ i < k
          BY <3>2 DEF FailuresKnown
        <5> QED
          BY <2>1, <5>1, TodoFacts DEF op
      <4>2. ~line.failed
        BY <4>1
      <4>3. printed' = Append(printed, line)
        BY <1>6, <3>2 DEF Report
      <4> HIDE DEF line
      <4>4. PICK S : printed \in Seq(S)
        BY DEF ProbeTyped
      <4>5. /\ Len(printed') = Len(printed) + 1 /\ Len(printed) \in Nat
            /\ \A i \in 1 .. Len(printed) : printed'[i] = printed[i]
            /\ printed'[Len(printed) + 1] = line
        <5>1. printed \in Seq(S \cup {line})
          BY <4>4
        <5> QED
          BY <4>3, <5>1, AppendProperties, LenProperties
      <4>6. \A i \in 1 .. Len(printed') : i \in 1 .. Len(printed) \/ i = Len(printed) + 1
        BY <4>5
      <4> QED
        BY <4>2, <4>5, <4>6 DEF FailuresKnown, NoFigureOfAFailure
    <3> QED
      BY <3>1, <3>2
  <2> QED
    BY <2>1, <2>2, <2>3, <2>4 DEF FailuresKnown
<1>7. ASSUME NEW t \in Probe, TaskStarts(t) \/ TaskCalls(t) \/ TaskWrites(t)
                              \/ TaskNotifies(t)
      PROVE  FailuresKnown'
  <2>1. UNCHANGED <<todo, k, pc, printed, s_probe_op>>
    BY <1>7 DEF TaskStarts, TaskCalls, TaskWrites, TaskNotifies
  <2>2. \A o : Probed(o) <=> Probed(o)'
    BY <2>1 DEF Probed
  <2>3. task[t].pc # "none" /\ pc # "setup"
    BY <1>7 DEF TaskStarts, TaskCalls, TaskWrites, TaskNotifies, TaskStep, FailuresKnown
  <2>4. /\ \A x \in Probe : x # t => task'[x] = task[x]
        /\ task'[t].pc \in {"running", "called", "wrote"} => Probed(task'[t].op)
        /\ task'[t].pc # "created"
    <3>1. PICK p, o : /\ task' = [task EXCEPT ![t] = [pc |-> p, op |-> o]]
                      /\ p # "created"
                      /\ p \in {"running", "called", "wrote"} => Probed(o)
      <4>1. CASE TaskStarts(t)
        BY <4>1 DEF TaskStarts, TaskStep, FailuresKnown
      <4>2. CASE TaskCalls(t)
        BY <4>2 DEF TaskCalls, TaskStep, FailuresKnown
      <4>3. CASE TaskWrites(t)
        BY <4>3 DEF TaskWrites, TaskStep, FailuresKnown
      <4>4. CASE TaskNotifies(t)
        BY <4>4 DEF TaskNotifies, TaskStep, FailuresKnown
      <4> QED
        BY <1>7, <4>1, <4>2, <4>3, <4>4
    <3>2. task'[t] = [pc |-> p, op |-> o] /\ \A x \in Probe : x # t => task'[x] = task[x]
      BY <3>1 DEF ProbeTyped
    <3> QED
      BY <3>1, <3>2
  <2>5. ASSUME NEW o \in failed'
        PROVE  \E i \in 1 .. Len(todo) : /\ o = todo[i]
                                         /\ i < k \/ (i = k /\ Running /\ s_op_failures')
    <3>1. \/ UNCHANGED <<s_op_failures, failed>>
          \/ s_op_failures' = TRUE /\ failed' = failed \cup {task[t].op}
             /\ Probed(task[t].op)
      BY <1>7 DEF TaskStarts, TaskCalls, TaskWrites, TaskNotifies, TaskStep, Call,
                  FailuresKnown
    <3>2. CASE o \in failed
      BY <3>1, <3>2 DEF FailuresKnown
    <3>3. CASE o \notin failed
      BY <2>5, <3>1, <3>3 DEF Probed, Running
    <3> QED
      BY <3>2, <3>3
  <2>6. pc' \in {"create", "wait", "report"} => s_probe_op' = op'
    BY <2>1 DEF FailuresKnown, op
  <2> QED
    BY <2>1, <2>2, <2>3, <2>4, <2>5, <2>6 DEF FailuresKnown, NoFigureOfAFailure, Running
<1>8. CASE UNCHANGED vars
  BY <1>8 DEF vars, FailuresKnown, NoFigureOfAFailure, Probed, Running, op
<1> QED
  BY <1>1, <1>2, <1>3, <1>4, <1>5, <1>6, <1>7, <1>8 DEF Next

(***************************************************************************)
(* NoFigureOfAFailure: run_one prints no line for an operation a call of   *)
(* which has returned an error, also when it was the probe's call on the   *)
(* other core, and a probe that comes late.                                *)
(***************************************************************************)
THEOREM FailuresAreNotReported == Spec => []NoFigureOfAFailure
<1>1. ProbeTyped /\ FailuresKnown /\ [Next]_vars => FailuresKnown'
  BY ProbeTypedNext, FailuresKnownNext
<1>2. FailuresKnown => NoFigureOfAFailure
  BY DEF FailuresKnown
<1> QED
  BY <1>1, <1>2, FailuresKnownInit, InvariantProbeTyped, PTL DEF Spec

-----------------------------------------------------------------------------
(***************************************************************************)
(* The stack is the operation's own.                                       *)
(***************************************************************************)
\* Only the last operation may outlast the wait.
OnlyLastIsSlow == \A i \in 1 .. Len(Ops) : Ops[i] \in Slow => i = Len(Ops)

Own(o) == {Unknown, Peak(o)}

\* The probes of former operations are over, and what is shared belongs to the
\* probe of this one.
ProbesOver ==
  /\ pc = "setup" => \A t \in Probe : task[t].pc = "none"
  /\ pc = "setup" => notified = 0
  /\ k <= Len(todo) =>
       /\ \A t \in Probe : /\ t < k => task[t].pc \in {"none", "deleted"}
                           /\ t > k => task[t].pc = "none"
       /\ task[k].pc # "none" => pc \in {"wait", "report"}
       /\ task[k].pc \in {"running", "called", "wrote"} => task[k].op = op
       /\ pc \in {"create", "wait", "report"} =>
            s_probe_op = op /\ s_probe_result \in Own(op)
       /\ notified > 0 => task[k].pc = "deleted"
       /\ pc = "report" => stack \in Own(op)
       /\ pc = "report" /\ op \notin Slow =>
            task[k].pc \in {"none", "deleted"} /\ notified = 0

FigureInv == ProbesOver /\ FigureIsOfItsOp

LEMMA FigureInit == Init => FigureInv
<1> SUFFICES ASSUME Init PROVE FigureInv
  OBVIOUS
<1>1. \A t \in Probe : task[t] = [pc |-> "none", op |-> NoOp]
  BY DEF Init
<1>2. Len(todo) \in Nat /\ (k <= Len(todo) => k \in Probe)
  BY OpsFacts DEF Init, Probe
<1>3. FigureIsOfItsOp
  BY DEF Init, FigureIsOfItsOp
<1> QED
  BY <1>1, <1>2, <1>3 DEF Init, FigureInv, ProbesOver

LEMMA FigureNext ==
  ASSUME OnlyLastIsSlow, ProbeTyped, ProbeTyped', FigureInv, [Next]_vars
  PROVE  FigureInv'
<1> USE DEF Step, callerVars, shared
<1>0. k \in Nat /\ Len(todo) \in Nat /\ notified \in Nat /\ (k <= Len(todo) => k \in Probe)
  BY TodoFacts DEF ProbeTyped
<1>1. CASE Setup
  <2>1. /\ k' = 1 /\ pc' \in {"measure", "over"}
        /\ UNCHANGED <<printed, stack, task, notified>> /\ notified = 0
        /\ \A t \in Probe : task[t].pc = "none"
    BY <1>1 DEF Setup, FigureInv, ProbesOver, ProbeTyped
  <2>2. k' <= Len(todo') => k' \in Probe'
    BY TodoFacts, <2>1, OpsFacts DEF ProbeTyped, Probe
  <2>3. FigureIsOfItsOp'
    BY <2>1 DEF FigureInv, FigureIsOfItsOp
  <2> QED
    BY <2>1, <2>2, <2>3 DEF FigureInv, ProbesOver, Probe
<1>2. CASE Measure \/ MeasureWindow \/ MeasureEnds
  <2>1. /\ pc \in {"measure", "windows"} /\ pc' \in {"windows", "probe"}
        /\ UNCHANGED <<todo, k, printed, stack, s_probe_op, s_probe_result, notified, task>>
    BY <1>2 DEF Measure, MeasureWindow, MeasureEnds
  <2> QED
    BY <2>1 DEF FigureInv, ProbesOver, FigureIsOfItsOp, op
<1>3. CASE SetProbe
  <2>1. /\ pc = "probe" /\ pc' = "create" /\ s_probe_op' = op
        /\ s_probe_result' = Unknown
        /\ UNCHANGED <<todo, k, printed, stack, notified, task>>
    BY <1>3 DEF SetProbe
  <2> QED
    BY <2>1 DEF FigureInv, ProbesOver, FigureIsOfItsOp, op, Own
<1>4. CASE CreateTask
  <2>1. /\ pc = "create" /\ pc' = "wait" /\ task' = [task EXCEPT ![k].pc = "created"]
        /\ UNCHANGED <<todo, k, printed, stack, s_probe_op, s_probe_result, notified>>
    BY <1>4 DEF CreateTask
  <2>2. k \in Probe /\ k <= Len(todo)
    BY <1>0, <2>1 DEF ProbeTyped
  <2>3. /\ task'[k].pc = "created"
        /\ \A t \in Probe : t # k => task'[t] = task[t]
    BY <2>1, <2>2 DEF ProbeTyped
  <2>4. notified = 0
    BY <1>0, <2>1, <2>2 DEF FigureInv, ProbesOver
  <2> QED
    BY <1>0, <2>1, <2>2, <2>3, <2>4
       DEF FigureInv, ProbesOver, FigureIsOfItsOp, op, Probe, Own
<1>5. CASE CreateFails \/ WaitReturns \/ WaitTimesOut
  <2>1. /\ pc \in {"create", "wait"} /\ pc' = "report"
        /\ stack' \in {Unknown, s_probe_result}
        /\ UNCHANGED <<todo, k, printed, s_probe_op, s_probe_result, task>>
        /\ notified' \in {0, notified}
    BY <1>5 DEF CreateFails, WaitReturns, WaitTimesOut
  <2>2. k \in Probe /\ k <= Len(todo)
    BY <1>0, <2>1 DEF ProbeTyped
  <2>3. op \notin Slow => task[k].pc \in {"none", "deleted"} /\ notified' = 0
    <3>1. CASE CreateFails
      BY <1>0, <2>2, <3>1 DEF CreateFails, FigureInv, ProbesOver
    <3>2. CASE WaitReturns
      BY <2>2, <3>2 DEF WaitReturns, Notified, FigureInv, ProbesOver
    <3>3. CASE WaitTimesOut
      BY <3>3 DEF WaitTimesOut
    <3> QED
      BY <1>5, <3>1, <3>2, <3>3
  <2>4. stack' \in Own(op)
    BY <2>1, <2>2 DEF FigureInv, ProbesOver, Own
  <2>5. notified' > 0 => notified > 0
    BY <2>1
  <2> QED
    BY <2>1, <2>2, <2>3, <2>4, <2>5
       DEF FigureInv, ProbesOver, FigureIsOfItsOp, op
<1>6. CASE Report
  <2>1. /\ pc = "report" /\ pc' = "measure" /\ k' = k + 1
        /\ UNCHANGED <<todo, stack, s_probe_op, s_probe_result, notified, task>>
    BY <1>6 DEF Report
  <2>2. k \in Probe /\ k <= Len(todo)
    BY <1>0, <2>1 DEF ProbeTyped
  <2>3. FigureIsOfItsOp'
    <3>1. CASE s_op_failures
      BY <1>6, <3>1 DEF Report, FigureInv, FigureIsOfItsOp
    <3>2. CASE ~s_op_failures
      <4> DEFINE line == [op |-> op, stack |-> stack, cycles |-> r, clean |-> clean,
                          failed |-> op \in failed]
      <4>1. line.stack \in Own(line.op)
        BY <2>1, <2>2 DEF FigureInv, ProbesOver
      <4>2. printed' = Append(printed, line)
        BY <1>6, <3>2 DEF Report
      <4> HIDE DEF line
      <4>3. PICK S : printed \in Seq(S)
        BY DEF ProbeTyped
      <4>4. /\ Len(printed') = Len(printed) + 1 /\ Len(printed) \in Nat
            /\ \A i \in 1 .. Len(printed) : printed'[i] = printed[i]
            /\ printed'[Len(printed) + 1] = line
        <5>1. printed \in Seq(S \cup {line})
          BY <4>3
        <5> QED
          BY <4>2, <5>1, AppendProperties, LenProperties
      <4>5. \A i \in 1 .. Len(printed') : i \in 1 .. Len(printed) \/ i = Len(printed) + 1
        BY <4>4
      <4> QED
        BY <4>1, <4>4, <4>5 DEF FigureInv, FigureIsOfItsOp, Own
    <3> QED
      BY <3>1, <3>2
  <2>4. k' <= Len(todo) => /\ task[k].pc \in {"none", "deleted"} /\ notified = 0
                           /\ \A t \in Probe : t > k => task[t].pc = "none"
    <3> SUFFICES ASSUME k' <= Len(todo)
                 PROVE  /\ task[k].pc \in {"none", "deleted"} /\ notified = 0
                        /\ \A t \in Probe : t > k => task[t].pc = "none"
      OBVIOUS
    <3>1. op \notin Slow
      <4>1. op = Ops[k] /\ k \in 1 .. Len(Ops) /\ k # Len(Ops)
        BY <1>0, <2>1, <2>2, TodoFacts, OpsFacts DEF op, Probe, ProbeTyped
      <4> QED
        BY <4>1 DEF OnlyLastIsSlow
    <3> QED
      BY <2>1, <2>2, <3>1 DEF FigureInv, ProbesOver
  <2>5. k' <= Len(todo) => k' \in Probe
    BY <1>0, <2>1, TodoFacts
  <2>6. ASSUME k' <= Len(todo), NEW t \in Probe
        PROVE  /\ t < k' => task[t].pc \in {"none", "deleted"}
               /\ t > k' => task[t].pc = "none"
    <3>1. t < k' => t < k \/ t = k
      BY <1>0, <2>1 DEF Probe
    <3>2. t > k' => t > k
      BY <1>0, <2>1 DEF Probe
    <3> QED
      BY <2>2, <2>4, <2>6, <3>1, <3>2 DEF FigureInv, ProbesOver
  <2>7. k' <= Len(todo) => task[k'].pc = "none"
    BY <1>0, <2>1, <2>4, <2>5 DEF Probe
  <2> QED
    BY <2>1, <2>3, <2>4, <2>5, <2>6, <2>7 DEF FigureInv, ProbesOver
<1>7. ASSUME NEW t \in Probe, TaskStarts(t) \/ TaskCalls(t) \/ TaskWrites(t)
                              \/ TaskNotifies(t)
      PROVE  FigureInv'
  <2>1. UNCHANGED <<todo, k, pc, printed, stack, s_probe_op>>
    BY <1>7 DEF TaskStarts, TaskCalls, TaskWrites, TaskNotifies
  <2>2. FigureIsOfItsOp'
    BY <2>1 DEF FigureInv, FigureIsOfItsOp
  <2>3. task[t].pc \notin {"none", "deleted"}
    BY <1>7 DEF TaskStarts, TaskCalls, TaskWrites, TaskNotifies, TaskStep
  <2>4. CASE k <= Len(todo)
    <3>1. t = k /\ pc \in {"wait", "report"}
      BY <1>0, <2>3, <2>4 DEF FigureInv, ProbesOver, Probe
    <3>2. pc = "report" => op \in Slow
      BY <2>3, <2>4, <3>1 DEF FigureInv, ProbesOver
    <3>3. /\ \A x \in Probe : x # k => task'[x] = task[x]
          /\ task'[k].pc \in {"running", "called", "wrote"} => task'[k].op = op
      <4>1. PICK p, o : /\ task' = [task EXCEPT ![k] = [pc |-> p, op |-> o]]
                        /\ p \in {"running", "called", "wrote"} => o = op
        BY <1>7, <2>4, <3>1 DEF TaskStarts, TaskCalls, TaskWrites, TaskNotifies, TaskStep,
                                FigureInv, ProbesOver
      <4> QED
        BY <3>1, <4>1 DEF ProbeTyped
    <3>4. s_probe_result' \in Own(op)
      BY <1>7, <2>4, <3>1 DEF TaskStarts, TaskCalls, TaskWrites, TaskNotifies, TaskStep,
                              FigureInv, ProbesOver, Own
    <3>5. notified' > 0 => task'[k].pc = "deleted"
      <4>1. CASE TaskNotifies(t)
        BY <3>1, <4>1 DEF TaskNotifies, TaskStep, ProbeTyped
      <4>2. CASE ~TaskNotifies(t)
        <5>1. notified' = notified
          BY <1>7, <4>2 DEF TaskStarts, TaskCalls, TaskWrites
        <5> QED
          BY <2>3, <2>4, <3>1, <5>1 DEF FigureInv, ProbesOver
      <4> QED
        BY <4>1, <4>2
    <3>6. op' = op
      BY <2>1 DEF op
    <3> QED
      BY <1>0, <2>1, <2>2, <2>4, <3>1, <3>2, <3>3, <3>4, <3>5, <3>6
         DEF FigureInv, ProbesOver, Probe
  <2>5. CASE ~(k <= Len(todo))
    <3>1. pc # "setup"
      BY <2>3, <1>7 DEF FigureInv, ProbesOver
    <3> QED
      BY <2>1, <2>2, <2>5, <3>1 DEF FigureInv, ProbesOver
  <2> QED
    BY <2>4, <2>5
<1>8. CASE UNCHANGED vars
  BY <1>8 DEF vars, FigureInv, ProbesOver, FigureIsOfItsOp, op
<1> QED
  BY <1>1, <1>2, <1>3, <1>4, <1>5, <1>6, <1>7, <1>8 DEF Next

(***************************************************************************)
(* FigureIsOfItsOp: the stack printed beside an operation is its own, as   *)
(* bench.h says, if only the last operation can outlast the wait of        *)
(* bench_stack_usage.                                                      *)
(***************************************************************************)
THEOREM StacksAreTheirOps ==
  ASSUME OnlyLastIsSlow
  PROVE  Spec => []FigureIsOfItsOp
<1>1. ProbeTyped /\ FigureInv /\ [Next]_vars => FigureInv'
  BY ProbeTypedNext, FigureNext
<1>2. FigureInv => FigureIsOfItsOp
  BY DEF FigureInv
<1> QED
  BY <1>1, <1>2, FigureInit, InvariantProbeTyped, PTL DEF Spec

-----------------------------------------------------------------------------
(***************************************************************************)
(* The figures are clean.                                                  *)
(***************************************************************************)
\* The difference of two readings of a counter that wraps is what passed.
LEMMA CounterDifference ==
  ASSUME NEW W \in Nat \ {0}, NEW c \in 0 .. W - 1, NEW x \in 0 .. W - 1
  PROVE  (((c + x) % W) - c) % W = x
<1>1. CASE c + x < W
  <2>1. (c + x) % W = c + x /\ c + x - c = x /\ x % W = x
    BY <1>1
  <2> QED
    BY <2>1
<1>2. CASE c + x >= W
  <2>1. (c + x) % W = c + x - W
    BY <1>2
  <2>2. c + x - W - c = x - W /\ (x - W) % W = x
    OBVIOUS
  <2> QED
    BY <2>1, <2>2
<1> QED
  BY <1>1, <1>2

Undisturbed(samples, c) == {j \in 1 .. Len(samples) : samples[j] = c}

\* Sorting samples of two values brings the lower ones to the front.
LEMMA SortedSamples ==
  ASSUME NEW s \in Seq(Nat), NEW c \in Nat, NEW t \in Nat,
         \A j \in 1 .. Len(s) : s[j] \in {c, c + t},
         NEW i \in 1 .. Len(s)
  PROVE  /\ sorted(s)[i] \in {c, c + t}
         /\ i <= Cardinality(Undisturbed(s, c)) => sorted(s)[i] = c
<1> DEFINE V == {s[j] : j \in 1 .. Len(s)}
           U == Undisturbed(s, c)
           At(v) == Cardinality(Below(s, v)) < i /\ i <= Cardinality(UpTo(s, v))
           w == CHOOSE v \in V : At(v)
<1>1. sorted(s)[i] = w
  BY DEF sorted
<1>2. Len(s) \in Nat /\ \A j \in 1 .. Len(s) : s[j] \in Nat
  BY LenProperties, ElementOfSeq
<1>3. IsFiniteSet(1 .. Len(s)) /\ Cardinality(1 .. Len(s)) = Len(s)
  <2>1. 1 \in Int /\ Len(s) \in Int /\ 1 <= Len(s)
    BY <1>2
  <2>2. /\ IsFiniteSet(1 .. Len(s))
        /\ Cardinality(1 .. Len(s)) = IF 1 > Len(s) THEN 0 ELSE Len(s) - 1 + 1
    BY <2>1, FS_Interval, Zenon
  <2> QED
    BY <2>1, <2>2
<1>4. /\ IsFiniteSet(U) /\ Cardinality(U) \in Nat /\ Cardinality(U) <= Len(s)
      /\ Cardinality(U) = Len(s) => U = 1 .. Len(s)
  <2>1. U \in SUBSET (1 .. Len(s))
    BY DEF Undisturbed
  <2> QED
    BY <1>3, <2>1, FS_Subset, FS_CardinalityType
<1>5. t > 0 => Below(s, c + t) = U
  BY <1>2 DEF Below, Undisturbed
<1>6. CASE i <= Cardinality(U)
  <2>1. U # {}
    BY <1>4, <1>6, FS_EmptySet
  <2>2. c \in V
    BY <2>1 DEF Undisturbed
  <2>3. Cardinality(Below(s, c)) = 0
    <3>1. Below(s, c) = {}
      BY <1>2 DEF Below
    <3> QED
      BY <3>1, FS_EmptySet
  <2>4. UpTo(s, c) = UpTo(s, c) /\ IsFiniteSet(UpTo(s, c)) /\ U \in SUBSET UpTo(s, c)
    <3>1. UpTo(s, c) \in SUBSET (1 .. Len(s))
      BY DEF UpTo
    <3>2. U \in SUBSET UpTo(s, c)
      BY <1>2 DEF UpTo, Undisturbed
    <3> QED
      BY <1>3, <3>1, <3>2, FS_Subset
  <2>5. Cardinality(UpTo(s, c)) \in Nat /\ Cardinality(U) <= Cardinality(UpTo(s, c))
    BY <2>4, FS_Subset, FS_CardinalityType
  <2>6. At(c)
    BY <1>4, <1>6, <2>3, <2>5
  <2>7. w \in V /\ At(w)
    BY <2>2, <2>6
  <2>8. w \in {c, c + t}
    BY <2>7
  <2>9. ~(t > 0 /\ w = c + t)
    <3> SUFFICES ASSUME t > 0, w = c + t PROVE FALSE
      OBVIOUS
    <3>1. Below(s, w) = U
      BY <1>5
    <3>2. Cardinality(U) < i
      BY <2>7, <3>1
    <3> HIDE DEF U
    <3> QED
      BY <1>4, <1>6, <3>2
  <2> QED
    BY <1>1, <2>8, <2>9
<1>7. CASE ~(i <= Cardinality(U))
  <2>1. PICK j \in 1 .. Len(s) : s[j] # c
    <3> SUFFICES ASSUME \A j \in 1 .. Len(s) : s[j] = c PROVE FALSE
      OBVIOUS
    <3>1. U = 1 .. Len(s)
      BY DEF Undisturbed
    <3>2. Cardinality(U) = Len(s)
      BY <1>3, <3>1
    <3> HIDE DEF U
    <3> QED
      BY <1>2, <1>7, <3>2
  <2>2. c + t \in V /\ t > 0
    BY <2>1
  <2>3. UpTo(s, c + t) = 1 .. Len(s)
    BY <1>2 DEF UpTo
  <2>4. At(c + t)
    BY <1>2, <1>3, <1>4, <1>5, <1>7, <2>2, <2>3
  <2>5. w \in V
    BY <2>2, <2>4
  <2> QED
    BY <1>1, <1>7, <2>5
<1> QED
  BY <1>6, <1>7

\* What a line with figures f, of which c windows were undisturbed, must say of o.
CleanFigures(o, f, c) ==
  /\ c > 0 => f.min = Cycles[o]
  /\ 2 * c > ITERATIONS => f.median = Cycles[o]
  /\ f.max \in {Cycles[o], Cycles[o] + TickCycles}

SamplesKnown ==
  /\ s_samples \in Seq(Nat)
  /\ clean \in Nat
  /\ pc = "windows" /\ ~s_op_failures =>
       /\ \A j \in 1 .. Len(s_samples) :
            s_samples[j] \in {Cycles[op], Cycles[op] + TickCycles}
       /\ clean <= Cardinality(Undisturbed(s_samples, Cycles[op]))
  /\ pc \in {"probe", "create", "wait", "report"} /\ ~s_op_failures =>
       CleanFigures(op, r, clean)
  /\ FiguresAreClean

LEMMA SamplesInit == Init => SamplesKnown
  BY DEF Init, MeasureInit, SamplesKnown, FiguresAreClean

\* One more sample.
LEMMA SampleAdded ==
  ASSUME NEW s \in Seq(Nat), NEW c \in Nat, NEW x \in Nat
  PROVE  LET e == Append(s, x) IN
         /\ e \in Seq(Nat)
         /\ \A j \in 1 .. Len(e) : e[j] \in {s[i] : i \in 1 .. Len(s)} \cup {x}
         /\ Cardinality(Undisturbed(s, c)) \in Nat
         /\ Cardinality(Undisturbed(e, c))
              = Cardinality(Undisturbed(s, c)) + (IF x = c THEN 1 ELSE 0)
<1> DEFINE e == Append(s, x)
<1>1. /\ e \in Seq(Nat) /\ Len(e) = Len(s) + 1 /\ Len(s) \in Nat
      /\ \A j \in 1 .. Len(s) : e[j] = s[j]
      /\ e[Len(s) + 1] = x
  BY AppendProperties, LenProperties
<1> HIDE DEF e
<1>2. \A j : j \in 1 .. Len(e) <=> j \in 1 .. Len(s) \/ j = Len(s) + 1
  BY <1>1
<1>3. Undisturbed(e, c) = IF x = c THEN Undisturbed(s, c) \cup {Len(s) + 1}
                                   ELSE Undisturbed(s, c)
  BY <1>1, <1>2 DEF Undisturbed
<1>4. Len(s) + 1 \notin Undisturbed(s, c)
  BY <1>1 DEF Undisturbed
<1>5. IsFiniteSet(Undisturbed(s, c)) /\ Cardinality(Undisturbed(s, c)) \in Nat
  <2>1. Undisturbed(s, c) \in SUBSET (1 .. Len(s)) /\ IsFiniteSet(1 .. Len(s))
    BY <1>1, FS_Interval DEF Undisturbed
  <2> QED
    BY <2>1, FS_Subset, FS_CardinalityType
<1>6. Cardinality(Undisturbed(e, c))
        = Cardinality(Undisturbed(s, c)) + (IF x = c THEN 1 ELSE 0)
  <2>1. CASE x = c
    <3>1. Undisturbed(e, c) = Undisturbed(s, c) \cup {Len(s) + 1}
      BY <1>3, <2>1
    <3>2. Cardinality(Undisturbed(s, c) \cup {Len(s) + 1})
            = Cardinality(Undisturbed(s, c)) + 1
      BY <1>4, <1>5, FS_AddElement
    <3> QED
      BY <2>1, <3>1, <3>2
  <2>2. CASE x # c
    <3>1. Undisturbed(e, c) = Undisturbed(s, c)
      BY <1>3, <2>2
    <3> QED
      BY <1>5, <2>2, <3>1
  <2> QED
    BY <2>1, <2>2
<1>7. \A j \in 1 .. Len(e) : e[j] \in {s[i] : i \in 1 .. Len(s)} \cup {x}
  BY <1>1, <1>2
<1> QED
  BY <1>1, <1>5, <1>6, <1>7 DEF e

\* A window of a call that succeeds measures the call, or the call and a tick.
LEMMA WindowMeasures ==
  ASSUME NEW o \in DOMAIN Cycles, NEW succeeds \in BOOLEAN, Window(o, succeeds)
  PROVE  \E x \in Nat :
           /\ s_samples' = Append(s_samples, x)
           /\ succeeds => x \in {Cycles[o], Cycles[o] + TickCycles}
           /\ clean' \in {clean, clean + 1}
           /\ clean' # clean => succeeds /\ x = Cycles[o]
<1> DEFINE cycles(tick) == (IF succeeds THEN Cycles[o] ELSE EarlyExit)
                           + (IF tick THEN TickCycles ELSE 0)
<1>1. PICK start \in Readings, tick \in BOOLEAN :
        /\ s_samples' = Append(s_samples, Sample(start, (start + cycles(tick)) % Wrap))
        /\ clean' = IF succeeds /\ ~tick THEN clean + 1 ELSE clean
  BY DEF Window
<1>2. /\ Wrap \in Nat /\ start \in 0 .. Wrap - 1 /\ EarlyExit \in Nat /\ TickCycles \in Nat
      /\ Cycles[o] \in Nat /\ EarlyExit < Cycles[o] /\ Cycles[o] + TickCycles < Wrap
  BY BenchAssumption
<1>3. Wrap \in Nat \ {0} /\ cycles(tick) \in 0 .. Wrap - 1
  BY <1>2
<1>4. Sample(start, (start + cycles(tick)) % Wrap) = cycles(tick)
  BY <1>2, <1>3, CounterDifference DEF Sample
<1>5. s_samples' = Append(s_samples, cycles(tick)) /\ cycles(tick) \in Nat
  BY <1>1, <1>3, <1>4
<1>6. succeeds => /\ tick => cycles(tick) = Cycles[o] + TickCycles
                  /\ ~tick => cycles(tick) = Cycles[o]
  BY <1>2
<1> HIDE DEF cycles
<1>7. /\ succeeds => cycles(tick) \in {Cycles[o], Cycles[o] + TickCycles}
      /\ clean' \in {clean, clean + 1}
      /\ clean' # clean => succeeds /\ cycles(tick) = Cycles[o]
  BY <1>1, <1>6
<1> QED
  BY <1>5, <1>7

LEMMA SamplesNext ==
  ASSUME ProbeTyped, ProbeTyped', SamplesKnown, [Next]_vars
  PROVE  SamplesKnown'
<1> USE DEF Step, callerVars, shared, measureVars
<1>1. CASE Setup
  BY <1>1 DEF Setup, SamplesKnown, FiguresAreClean
<1>2. CASE Measure
  <2>1. /\ pc' = "windows" /\ s_samples' = <<>> /\ clean' = 0 /\ UNCHANGED printed
    BY <1>2 DEF Measure, ClearSamples
  <2>2. Undisturbed(s_samples', Cycles[op]') = {} /\ Len(s_samples') = 0
    BY <2>1 DEF Undisturbed
  <2>3. Cardinality(Undisturbed(s_samples', Cycles[op]')) = 0
    BY <2>2, FS_EmptySet
  <2> QED
    BY <2>1, <2>2, <2>3 DEF SamplesKnown, FiguresAreClean
<1>3. CASE MeasureWindow
  <2>1. /\ pc = "windows" /\ UNCHANGED <<todo, k, pc, printed>>
        /\ op \in DOMAIN Cycles /\ op' = op
    BY <1>3, OpTyped DEF MeasureWindow, Running, op
  <2>2. PICK succeeds \in BOOLEAN : Call(op, succeeds) /\ Window(op, succeeds)
    BY <1>3 DEF MeasureWindow
  <2>3. PICK x \in Nat :
          /\ s_samples' = Append(s_samples, x)
          /\ succeeds => x \in {Cycles[op], Cycles[op] + TickCycles}
          /\ clean' \in {clean, clean + 1}
          /\ clean' # clean => succeeds /\ x = Cycles[op]
    BY <2>1, <2>2, WindowMeasures
  <2>4. ~s_op_failures' => succeeds /\ ~s_op_failures
    BY <2>2 DEF Call
  <2>5. s_samples \in Seq(Nat) /\ clean \in Nat /\ Cycles[op] \in Nat
    BY <2>1, BenchAssumption DEF SamplesKnown
  <2>6. /\ s_samples' \in Seq(Nat)
        /\ \A j \in 1 .. Len(s_samples') :
             s_samples'[j] \in {s_samples[i] : i \in 1 .. Len(s_samples)} \cup {x}
        /\ Cardinality(Undisturbed(s_samples, Cycles[op])) \in Nat
        /\ Cardinality(Undisturbed(s_samples', Cycles[op]))
             = Cardinality(Undisturbed(s_samples, Cycles[op]))
                 + (IF x = Cycles[op] THEN 1 ELSE 0)
    BY <2>3, <2>5, SampleAdded
  <2>7. ~s_op_failures' =>
          /\ \A j \in 1 .. Len(s_samples') :
               s_samples'[j] \in {Cycles[op], Cycles[op] + TickCycles}
          /\ clean' <= Cardinality(Undisturbed(s_samples', Cycles[op]))
    <3> SUFFICES ASSUME ~s_op_failures'
                 PROVE  /\ \A j \in 1 .. Len(s_samples') :
                             s_samples'[j] \in {Cycles[op], Cycles[op] + TickCycles}
                        /\ clean' <= Cardinality(Undisturbed(s_samples', Cycles[op]))
      OBVIOUS
    <3>1. /\ \A j \in 1 .. Len(s_samples) :
               s_samples[j] \in {Cycles[op], Cycles[op] + TickCycles}
          /\ clean <= Cardinality(Undisturbed(s_samples, Cycles[op]))
      BY <2>1, <2>4 DEF SamplesKnown
    <3>2. \A j \in 1 .. Len(s_samples') :
            s_samples'[j] \in {Cycles[op], Cycles[op] + TickCycles}
      BY <2>3, <2>4, <2>6, <3>1
    <3>3. clean' <= Cardinality(Undisturbed(s_samples', Cycles[op]))
      BY <2>3, <2>5, <2>6, <3>1
    <3> QED
      BY <3>2, <3>3
  <2>8. clean' \in Nat
    BY <2>3, <2>5
  <2> QED
    BY <2>1, <2>6, <2>7, <2>8 DEF SamplesKnown, FiguresAreClean
<1>4. CASE MeasureEnds
  <2>1. /\ pc = "windows" /\ pc' = "probe" /\ Len(s_samples) = ITERATIONS
        /\ UNCHANGED <<todo, k, printed, s_op_failures, s_samples, clean>>
        /\ op \in DOMAIN Cycles /\ op' = op
    BY <1>4, OpTyped DEF MeasureEnds, Statistics, Running, op
  <2>2. /\ r'.min = sorted(s_samples)[1]
        /\ r'.median = sorted(s_samples)[(ITERATIONS \div 2) + 1]
        /\ r'.max = sorted(s_samples)[ITERATIONS]
    BY <1>4 DEF MeasureEnds, Statistics
  <2>3. /\ ITERATIONS \in Nat /\ ITERATIONS >= 3 /\ TickCycles \in Nat /\ Cycles[op] \in Nat
    BY <2>1, BenchAssumption DEF MAX_ITERATIONS
  <2>4. ~s_op_failures => CleanFigures(op, r', clean)
    <3> SUFFICES ASSUME ~s_op_failures PROVE CleanFigures(op, r', clean)
      OBVIOUS
    <3> DEFINE u == Cardinality(Undisturbed(s_samples, Cycles[op]))
    <3>1. /\ s_samples \in Seq(Nat) /\ clean \in Nat /\ clean <= u
          /\ \A j \in 1 .. Len(s_samples) :
               s_samples[j] \in {Cycles[op], Cycles[op] + TickCycles}
      BY <2>1 DEF SamplesKnown
    <3>2. u \in Nat
      BY <2>3, <3>1, SampleAdded
    <3>3. \A i \in 1 .. ITERATIONS :
            /\ sorted(s_samples)[i] \in {Cycles[op], Cycles[op] + TickCycles}
            /\ i <= u => sorted(s_samples)[i] = Cycles[op]
      BY <2>1, <2>3, <3>1, SortedSamples
    <3> HIDE DEF u
    <3>4. 1 \in 1 .. ITERATIONS /\ (clean > 0 => 1 <= u)
      BY <2>3, <3>1, <3>2
    <3>5. /\ (ITERATIONS \div 2) + 1 \in 1 .. ITERATIONS
          /\ 2 * clean > ITERATIONS => (ITERATIONS \div 2) + 1 <= u
      BY <2>3, <3>1, <3>2
    <3>6. ITERATIONS \in 1 .. ITERATIONS
      BY <2>3
    <3> QED
      BY <2>2, <3>3, <3>4, <3>5, <3>6 DEF CleanFigures
  <2> QED
    BY <2>1, <2>4 DEF SamplesKnown, FiguresAreClean
<1>5. CASE SetProbe \/ CreateTask \/ CreateFails \/ WaitReturns \/ WaitTimesOut
  <2>1. /\ pc \in {"probe", "create", "wait", "report"}
        /\ pc' \in {"probe", "create", "wait", "report"}
        /\ UNCHANGED <<todo, k, printed, s_op_failures, s_samples, r, clean>>
    BY <1>5 DEF SetProbe, CreateTask, CreateFails, WaitReturns, WaitTimesOut
  <2> QED
    BY <2>1 DEF SamplesKnown, FiguresAreClean, op
<1>6. CASE Report
  <2>1. /\ pc = "report" /\ pc' = "measure" /\ UNCHANGED <<s_samples, clean>>
    BY <1>6 DEF Report
  <2>2. FiguresAreClean'
    <3>1. CASE s_op_failures
      BY <1>6, <3>1 DEF Report, SamplesKnown, FiguresAreClean
    <3>2. CASE ~s_op_failures
      <4> DEFINE line == [op |-> op, stack |-> stack, cycles |-> r, clean |-> clean,
                          failed |-> op \in failed]
      <4>1. CleanFigures(line.op, line.cycles, line.clean)
        BY <2>1, <3>2 DEF SamplesKnown
      <4>2. printed' = Append(printed, line)
        BY <1>6, <3>2 DEF Report
      <4> HIDE DEF line
      <4>3. PICK S : printed \in Seq(S)
        BY DEF ProbeTyped
      <4>4. /\ Len(printed') = Len(printed) + 1 /\ Len(printed) \in Nat
            /\ \A i \in 1 .. Len(printed) : printed'[i] = printed[i]
            /\ printed'[Len(printed) + 1] = line
        <5>1. printed \in Seq(S \cup {line})
          BY <4>3
        <5> QED
          BY <4>2, <5>1, AppendProperties, LenProperties
      <4>5. \A i \in 1 .. Len(printed') : i \in 1 .. Len(printed) \/ i = Len(printed) + 1
        BY <4>4
      <4>6. \A i \in 1 .. Len(printed) :
              CleanFigures(printed[i].op, printed[i].cycles, printed[i].clean)
        BY DEF SamplesKnown, FiguresAreClean, CleanFigures
      <4>7. \A i \in 1 .. Len(printed') :
              CleanFigures(printed'[i].op, printed'[i].cycles, printed'[i].clean)
        BY <4>1, <4>4, <4>5, <4>6
      <4> QED
        BY <4>7 DEF FiguresAreClean, CleanFigures
    <3> QED
      BY <3>1, <3>2
  <2> QED
    BY <2>1, <2>2 DEF SamplesKnown
<1>7. ASSUME NEW t \in Probe, TaskStarts(t) \/ TaskCalls(t) \/ TaskWrites(t)
                              \/ TaskNotifies(t)
      PROVE  SamplesKnown'
  <2>1. UNCHANGED <<todo, k, pc, printed, s_samples, r, clean>>
    BY <1>7 DEF TaskStarts, TaskCalls, TaskWrites, TaskNotifies
  <2>2. s_op_failures => s_op_failures'
    BY <1>7 DEF TaskStarts, TaskCalls, TaskWrites, TaskNotifies, Call
  <2> QED
    BY <2>1, <2>2 DEF SamplesKnown, FiguresAreClean, op
<1>8. CASE UNCHANGED vars
  BY <1>8 DEF vars, SamplesKnown, FiguresAreClean, op
<1> QED
  BY <1>1, <1>2, <1>3, <1>4, <1>5, <1>6, <1>7, <1>8 DEF Next

(***************************************************************************)
(* FiguresAreClean: one window without a tick makes min the cycles of a    *)
(* call, a majority makes the median so (bench_measure), wherever the      *)
(* counter wraps, and no early error shows in a figure (run_one).          *)
(***************************************************************************)
THEOREM FiguresMeasureTheCall == Spec => []FiguresAreClean
<1>1. ProbeTyped /\ SamplesKnown /\ [Next]_vars => SamplesKnown'
  BY ProbeTypedNext, SamplesNext
<1>2. SamplesKnown => FiguresAreClean
  BY DEF SamplesKnown
<1> QED
  BY <1>1, <1>2, SamplesInit, InvariantProbeTyped, PTL DEF Spec
=============================================================================
