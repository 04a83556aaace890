----------------------------- MODULE StackProbe -----------------------------
(***************************************************************************)
(* The benchmark firmware: app_main and run_one in main/main.c, which time *)
(* one operation after the other (BenchMeasure) and then measure its stack *)
(* with bench_stack_usage and stack_probe_task in main/bench.c.            *)
(*                                                                         *)
(* The caller and each probe are tasks on different cores.  They share the *)
(* static variables s_probe_op, s_probe_result and s_op_failures and the   *)
(* caller's task notification; the caller waits for it with a timeout and  *)
(* goes on whether it came or not.                                         *)
(***************************************************************************)
EXTENDS BenchMeasure

CONSTANTS
  KemOps,        \* the ML-KEM operations app_main measures, in order
  ClassicalOps,  \* the X25519 operations, which it measures after them
  Deep,    \* those that leave too little headroom to be trusted
  Slow     \* those a single call of which may outlast the 20 s of the wait

Ops == KemOps \o ClassicalOps
Op == {Ops[i] : i \in 1 .. Len(Ops)}
NoOp == "no-operation"
Unknown == "0"          \* the result 0: not measured

ASSUME ProbeAssumption ==
  /\ KemOps \in Seq(DOMAIN Cycles) /\ ClassicalOps \in Seq(DOMAIN Cycles)
  /\ \A i, j \in 1 .. Len(Ops) : Ops[i] = Ops[j] => i = j  \* none is measured twice
  /\ Deep \cup Slow \subseteq Op

VARIABLES
  todo,            \* the operations to measure
  k,               \* which operation run_one is at
  pc,              \* where the caller is
  s_probe_op, s_probe_result,
  notified,        \* the caller's notification value
  s_op_failures,   \* a call has returned an error since run_one began
  task,            \* per probe: where it is and which operation it runs
  stack,           \* r.stack_bytes
  failed,          \* history: operations a call of which has failed
  printed          \* history: each line's operation, figures and stack, and
                   \* what they are worth: windows without a tick, and
                   \* whether a call of the operation had failed

shared == <<s_probe_op, s_probe_result, notified, s_op_failures>>
callerVars == <<todo, k, pc, stack, printed, measureVars>>
vars == <<callerVars, shared, task, failed>>

op == todo[k]
Probe == 1 .. Len(Ops)

Init ==
  /\ k = 1 /\ pc = "setup" /\ todo = Ops
  /\ MeasureInit
  /\ s_probe_op = NoOp /\ s_probe_result = Unknown
  /\ notified = 0 /\ s_op_failures = FALSE
  /\ task = [t \in Probe |-> [pc |-> "none", op |-> NoOp]]
  /\ stack = Unknown
  /\ failed = {} /\ printed = <<>>

\* Fault: the result of the call is discarded.
CallDiscarded(o, succeeds) ==
  /\ UNCHANGED s_op_failures
  /\ failed' = IF succeeds THEN failed ELSE failed \cup {o}
\* One call of an operation, which may return an error.
Call(o, succeeds) ==
  \/ succeeds /\ UNCHANGED <<s_op_failures, failed>>
  \/ ~succeeds /\ s_op_failures' = TRUE /\ failed' = failed \cup {o}

(***************************************************************************)
(* The caller.                                                             *)
(***************************************************************************)
Step(from, to) == pc = from /\ pc' = to

\* The inputs are prepared, or no figure is reported; without X25519 only ML-KEM
\* is measured.
Setup ==
  /\ \/ Step("setup", "measure") /\ todo' = Ops
     \/ Step("setup", "measure") /\ todo' = KemOps
     \/ Step("setup", "over") /\ UNCHANGED todo
  /\ UNCHANGED <<k, stack, printed, measureVars, shared, task, failed>>

\* run_one clears the failures, and bench_measure makes two calls to warm up.
Measure ==
  /\ k <= Len(todo)
  /\ Step("measure", "windows")
  /\ \/ s_op_failures' = FALSE /\ UNCHANGED failed
     \/ s_op_failures' = TRUE /\ failed' = failed \cup {op}
  /\ ClearSamples
  /\ UNCHANGED <<todo, k, stack, printed, s_probe_op, s_probe_result, notified, task>>

\* The timed calls.
MeasureWindow ==
  /\ pc = "windows" /\ Len(s_samples) < ITERATIONS
  /\ \E succeeds \in BOOLEAN : Call(op, succeeds) /\ Window(op, succeeds)
  /\ UNCHANGED <<todo, k, pc, stack, printed, s_probe_op, s_probe_result, notified,
                 task>>

MeasureEnds ==
  /\ Len(s_samples) = ITERATIONS
  /\ Step("windows", "probe")
  /\ Statistics
  /\ UNCHANGED <<todo, k, stack, printed, shared, task, failed>>

SetProbe ==
  /\ Step("probe", "create")
  /\ s_probe_op' = op
  /\ s_probe_result' = Unknown
  /\ UNCHANGED <<todo, k, stack, printed, measureVars, notified, s_op_failures, task, failed>>

CreateTask ==
  /\ Step("create", "wait")
  /\ task' = [task EXCEPT ![k].pc = "created"]
  /\ UNCHANGED <<todo, k, stack, printed, measureVars, shared, failed>>

\* No memory for a stack of STACK_PROBE_BYTES.
CreateFails ==
  /\ Step("create", "report")
  /\ stack' = Unknown
  /\ UNCHANGED <<todo, k, printed, measureVars, shared, task, failed>>

\* Fault: the caller does not wait.
NotifiedOrNot == TRUE
Notified == notified > 0

\* ulTaskNotifyTake clears the notification.
WaitReturns ==
  /\ Step("wait", "report")
  /\ Notified
  /\ notified' = 0
  /\ stack' = s_probe_result
  /\ UNCHANGED <<todo, k, printed, measureVars, s_probe_op, s_probe_result, s_op_failures, task,
                 failed>>

WaitTimesOut ==
  /\ Step("wait", "report")
  /\ notified = 0
  /\ op \in Slow
  /\ stack' = s_probe_result
  /\ UNCHANGED <<todo, k, printed, measureVars, shared, task, failed>>

\* run_one prints a line unless a call has failed, and app_main goes on.
Report ==
  /\ Step("report", "measure")
  /\ k' = k + 1
  /\ printed' = IF s_op_failures THEN printed
                ELSE Append(printed, [op |-> op, stack |-> stack, cycles |-> r,
                                      clean |-> clean, failed |-> op \in failed])
  /\ UNCHANGED <<todo, stack, measureVars, shared, task, failed>>

(***************************************************************************)
(* stack_probe_task.                                                       *)
(***************************************************************************)
TaskStep(t, from, to, o) ==
  task[t].pc = from /\ task' = [task EXCEPT ![t] = [pc |-> to, op |-> o]]

TaskStarts(t) ==
  /\ TaskStep(t, "created", "running", s_probe_op)
  /\ UNCHANGED <<callerVars, shared, failed>>

TaskCalls(t) ==
  /\ TaskStep(t, "running", "called", task[t].op)
  /\ \E succeeds \in BOOLEAN : Call(task[t].op, succeeds)
  /\ UNCHANGED <<callerVars, s_probe_op, s_probe_result, notified>>

\* The high-water mark, unless it is too close to the edge.
Peak(o) == IF o \in Deep THEN Unknown ELSE o

TaskWrites(t) ==
  /\ TaskStep(t, "called", "wrote", task[t].op)
  /\ s_probe_result' = Peak(task[t].op)
  /\ UNCHANGED <<callerVars, s_probe_op, notified, s_op_failures, failed>>

TaskNotifies(t) ==
  /\ TaskStep(t, "wrote", "deleted", task[t].op)
  /\ notified' = notified + 1
  /\ UNCHANGED <<callerVars, s_probe_op, s_probe_result, s_op_failures, failed>>

Next ==
  \/ Setup \/ Measure \/ MeasureWindow \/ MeasureEnds \/ SetProbe \/ CreateTask \/ CreateFails
  \/ WaitReturns \/ WaitTimesOut \/ Report
  \/ \E t \in Probe : \/ TaskStarts(t) \/ TaskCalls(t)
                      \/ TaskWrites(t) \/ TaskNotifies(t)

Spec == Init /\ [][Next]_vars

-----------------------------------------------------------------------------
\* "Peak stack consumed by a single call, measured by running op in a dedicated
\* task ... Returns 0 on failure" (bench.h): a figure printed beside an
\* operation is that operation's own, as long as only the last one may outlast the
\* wait: a late probe answers the wait of whatever is measured next.
FigureIsOfItsOp ==
  \A i \in 1 .. Len(printed) :
    printed[i].stack \in {Unknown, Peak(printed[i].op)}

\* "min is therefore the cleanest estimate of pure computation" (bench.h): one
\* window without a tick makes it the cycles of a call, most windows make the
\* median so too, wherever the cycle counter wraps; an early error of any call,
\* which would be faster, never shows in a figure.
FiguresAreClean ==
  \A i \in 1 .. Len(printed) :
    LET line == printed[i] IN
    /\ line.clean > 0 => line.cycles.min = Cycles[line.op]
    /\ 2 * line.clean > ITERATIONS => line.cycles.median = Cycles[line.op]
    /\ line.cycles.max \in {Cycles[line.op], Cycles[line.op] + TickCycles}

\* No line is printed for an operation a call of which has returned an error by
\* then, the probe's call on the other core included (run_one).
NoFigureOfAFailure ==
  \A i \in 1 .. Len(printed) : ~printed[i].failed
=============================================================================
