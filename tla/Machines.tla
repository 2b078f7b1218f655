------------------------------ MODULE Machines ------------------------------
(***************************************************************************)
(* The operator's controller of the laboratory's virtual machines: it      *)
(* starts them, works on them and stops them, never those that run what it *)
(* does not know, and leaves a receipt of what it has cleaned up.  One     *)
(* operation at a time; the controller may die and forget everything.  The *)
(* worker of a phase on a node, and its cancellation, are module Attempts. *)
(***************************************************************************)
EXTENDS Integers, FiniteSets

CONSTANTS
    LastNode,       \* NODES are numbered; the last one has the data
    None,
    MaxFaults       \* bound: failures, deaths, unknown work that appears

MachinesAssumption == LastNode \in Nat \ {0}

Nodes == 1 .. LastNode
Data == LastNode

VARIABLES
    vm,         \* "off", "coming" (shown as off), "on" or "going" (shown as on)
    unknown,    \* nodes that run work nobody here has started
    busy,       \* nodes with a worker of the operation
    ctl,        \* the controller's operation: SmallRunner, and the command it is at
    receipt,    \* controller.json of the latest operation
    noticed,    \* history: nodes whose unknown work a command of an operation has been shown
    faults

vars == <<vm, unknown, busy, ctl, receipt, noticed, faults>>

Idle == [phase |-> "none", at |-> "over", node |-> Data, owned |-> {}, started |-> {}, ready |-> {},
         foreign |-> {}, uncertain |-> {}, inflight |-> {}, cancels |-> {}, accepted |-> {},
         stopping |-> FALSE, errors |-> FALSE, failed |-> FALSE]
Off == [status |-> None, complete |-> FALSE, scope |-> {}]

Init ==
    /\ vm \in {[n \in Nodes |-> "off"], [n \in Nodes |-> "on"]}
    /\ unknown = {} /\ busy = {} /\ ctl = Idle /\ receipt = Off /\ noticed = {} /\ faults = 0

Shown(n) == vm[n] \in {"on", "going"}

-----------------------------------------------------------------------------
(* What follows a command. *)

On(command, n) == ctl.at = command /\ ctl.node = n
To(c, command, n) == [c EXCEPT !.at = command, !.node = n]
Over(c) == To(c, "over", Data)

\* A start and its work begin with the node of the data, then take the others in order.
Following(n) == IF n = Data THEN 1 ELSE n + 1
Round(c, command, n, last) == IF Following(n) = Data THEN last ELSE To(c, command, Following(n))
Booted(c, n) == Round(c, "start", n, To(c, "work", Data))

\* Looking at the nodes goes forward, stopping them backward.
Forward(c, command, n, last) == IF n = Data THEN To(c, last, n) ELSE To(c, command, n + 1)
NextStop(c, n) == IF n = 1 THEN Over(c) ELSE To(c, "probe", n - 1)

Then(c, n) ==
    CASE c.at = "alloff" -> To(c, "start", n)
      [] c.at = "start" -> To(c, "wait", n)
      [] c.at = "wait" -> IF n = Data THEN To(c, "input", n) ELSE Booted(c, n)
      [] c.at = "look" -> Forward(c, "look", n, "adopt")
      [] c.at = "adopt" -> To(c, "input", n)
      [] c.at = "input" -> IF c.phase = "job" THEN To(c, "work", 1) ELSE Booted(c, n)
      [] c.at = "work" -> IF c.phase = "job" THEN Over(c) ELSE Round(c, "work", n, Over(c))
      [] c.at = "accept" -> Forward(c, "accept", n, "leave")
      [] c.at = "probe" -> To(c, "down", n)
      [] c.at = "down" -> To(c, "halt", n)
      [] c.at = "halt" -> To(c, "gone", n)
      [] c.at = "gone" -> NextStop(c, n)
      [] c.at = "soft" -> To(c, "softgone", n)
      [] c.at = "softgone" -> IF c.stopping THEN NextStop(c, n) ELSE To(c, "empty", n)

Begin(phase) ==
    /\ ctl = Idle
    /\ ctl' = [Idle EXCEPT !.phase = phase,
                   !.at = CASE phase = "start" -> "alloff" [] phase = "job" -> "look" [] phase = "stop" -> "accept",
                   !.node = IF phase = "start" THEN Data ELSE 1]
    /\ receipt' = Off
    /\ UNCHANGED <<vm, unknown, busy, noticed, faults>>

\* What is in flight is cancelled, in any order, then the nodes are stopped.
Stopping(c) == [To(c, IF c.inflight = {} THEN "probe" ELSE "cancel", Data)
                    EXCEPT !.cancels = c.inflight, !.stopping = TRUE, !.errors = FALSE]

\* An exception: the operation begins to stop what it owns.  While it stops,
\* a node that cannot be stopped is left; one that was started by this very
\* operation and was never reached gets a plain soft stop.
Fallback(c, n) == n \in c.started /\ n \notin c.ready /\ n \notin c.foreign

Raised(c, n) ==
    IF ~c.stopping THEN Stopping([c EXCEPT !.failed = TRUE])
    ELSE IF Fallback(c, n) /\ c.at \in {"probe", "down", "halt", "gone"} THEN To(c, "soft", n)
    ELSE NextStop([c EXCEPT !.errors = TRUE], n)

Fail(c, n) == faults < MaxFaults /\ faults' = faults + 1 /\ ctl' = Raised(c, n)
Refuse(c, n) == faults' = faults /\ ctl' = Raised(c, n)
Go(c, n) == faults' = faults /\ ctl' = Then(c, n)

-----------------------------------------------------------------------------
AllOff(n) ==
    /\ On("alloff", n)
    /\ IF \E m \in Nodes : Shown(m) THEN Refuse(ctl, n) ELSE Go(ctl, n)
    /\ UNCHANGED <<vm, unknown, busy, receipt, noticed>>

\* Ownership is recorded before a command whose result may stay unknown.
Intended(n) == [ctl EXCEPT !.owned = @ \cup {n}, !.started = @ \cup {n}]
AfterStart(n) == {vm[n]} \cup (IF Shown(n) THEN {} ELSE {"coming", "on"})

StartVM(n) ==
    /\ On("start", n)
    /\ \/ Go(Intended(n), n) /\ vm' = [vm EXCEPT ![n] = "on"]
       \/ /\ Fail([Intended(n) EXCEPT !.uncertain = @ \cup {n}], n)
          /\ \E state \in AfterStart(n) : vm' = [vm EXCEPT ![n] = state]
    /\ UNCHANGED <<unknown, busy, receipt, noticed>>

\* A probe that is answered shows all that runs on the node.
Seen(n) == noticed' = IF n \in unknown THEN noticed \cup {n} ELSE noticed
Silent(n) == Fail(ctl, n) /\ UNCHANGED noticed
Unmarked(n) == ctl   \* mutant: a node whose probe was refused is not remembered as somebody else's
Foreign(n) == [ctl EXCEPT !.foreign = @ \cup {n}]

Wait(n) ==
    /\ On("wait", n)
    /\ \/ Silent(n)
       \/ /\ vm[n] = "on" /\ Seen(n)
          /\ IF n \in unknown THEN Refuse(Foreign(n), n) ELSE Go([ctl EXCEPT !.ready = @ \cup {n}], n)
    /\ UNCHANGED <<vm, unknown, busy, receipt>>

\* Without input a start stops the node with the data again; then the operation is over.
Input(n) ==
    /\ On("input", n)
    /\ \/ Go(ctl, n)
       \/ faults' = faults /\ ctl' = To(ctl, IF ctl.phase = "start" THEN "soft" ELSE "empty", n)
       \/ Fail(ctl, n)
    /\ UNCHANGED <<vm, unknown, busy, receipt, noticed>>

\* adopt_running: every machine must be on and run nothing unknown; then all are owned.
Look(n) ==
    /\ On("look", n)
    /\ \/ Silent(n)
       \/ vm[n] = "on" /\ Seen(n) /\ (IF n \in unknown THEN Refuse(ctl, n) ELSE Go(ctl, n))
    /\ UNCHANGED <<vm, unknown, busy, receipt>>

Adopt(n) ==
    /\ On("adopt", n) /\ Go([ctl EXCEPT !.ready = Nodes, !.owned = Nodes], n)
    /\ UNCHANGED <<vm, unknown, busy, receipt, noticed>>

\* An explicit stop adopts what runs and is known, all or nothing.
Accept(n) ==
    /\ On("accept", n)
    /\ \/ ~Shown(n) /\ Go(ctl, n) /\ UNCHANGED noticed
       \/ Shown(n) /\ Silent(n)
       \/ /\ vm[n] = "on" /\ Seen(n)
          /\ IF n \in unknown THEN Refuse(ctl, n) ELSE Go([ctl EXCEPT !.accepted = @ \cup {n}], n)
    /\ UNCHANGED <<vm, unknown, busy, receipt>>

LeaveAll(n) ==
    /\ On("leave", n) /\ faults' = faults
    /\ ctl' = Stopping([ctl EXCEPT !.owned = ctl.accepted])
    /\ UNCHANGED <<vm, unknown, busy, receipt, noticed>>

\* remote: an attempt, and its cancellation in every case; it stays in flight until that has answered.
Remote(n) ==
    /\ On("work", n) \/ On("down", n)
    /\ \/ vm[n] = "on" /\ Go(ctl, n) /\ UNCHANGED busy
       \/ Fail(ctl, n) /\ UNCHANGED busy
       \/ Fail([ctl EXCEPT !.inflight = @ \cup {n}], n) /\ busy' = busy \cup (IF vm[n] = "on" THEN {n} ELSE {})
    /\ UNCHANGED <<vm, unknown, receipt, noticed>>

-----------------------------------------------------------------------------
(* SmallRunner.stop *)

Cancelled(c, n) ==
    [To(c, IF c.cancels = {n} THEN "probe" ELSE "cancel", Data) EXCEPT !.cancels = @ \ {n}]

Cancel(n) ==
    /\ ctl.at = "cancel" /\ n \in ctl.cancels
    /\ \/ /\ vm[n] = "on" /\ busy' = busy \ {n} /\ faults' = faults
          /\ ctl' = Cancelled([ctl EXCEPT !.inflight = @ \ {n}], n)
       \/ /\ faults < MaxFaults /\ faults' = faults + 1 /\ UNCHANGED busy
          /\ ctl' = Cancelled([ctl EXCEPT !.errors = TRUE], n)
    /\ UNCHANGED <<vm, unknown, receipt, noticed>>

Probe(n) ==
    /\ On("probe", n)
    /\ \/ n \notin ctl.owned /\ faults' = faults /\ ctl' = NextStop(ctl, n) /\ UNCHANGED noticed
       \/ n \in ctl.owned \cap ctl.foreign /\ Refuse(ctl, n) /\ UNCHANGED noticed
       \/ /\ n \in ctl.owned \ ctl.foreign
          /\ \/ vm[n] # "on" /\ Refuse(ctl, n) /\ UNCHANGED noticed
             \/ Silent(n)
             \/ vm[n] = "on" /\ Seen(n) /\ (IF n \in unknown THEN Refuse(Foreign(n), n) ELSE Go(ctl, n))
    /\ UNCHANGED <<vm, unknown, busy, receipt>>

Powered(n, state) ==
    /\ vm' = [vm EXCEPT ![n] = state]
    /\ IF state = "off" THEN unknown' = unknown \ {n} /\ busy' = busy \ {n} ELSE UNCHANGED <<unknown, busy>>

\* vmrun stop: soft, and possibly not over when the command is; it fails for a machine that is not on.
Halt(n) ==
    /\ On("halt", n) \/ On("soft", n)
    /\ \/ vm[n] = "on" /\ Go(ctl, n) /\ \E state \in {"off", "going"} : Powered(n, state)
       \/ vm[n] # "on" /\ Refuse(ctl, n) /\ UNCHANGED <<vm, unknown, busy>>
       \/ Fail(ctl, n) /\ UNCHANGED <<vm, unknown, busy>>
    /\ UNCHANGED <<receipt, noticed>>

\* wait_stopped
StoppedNow(n) == ~Shown(n)

Gone(n) ==
    /\ On("gone", n) \/ On("softgone", n)
    /\ IF StoppedNow(n) THEN Go([ctl EXCEPT !.ready = @ \ {n}], n) ELSE Fail(ctl, n)
    /\ UNCHANGED <<vm, unknown, busy, receipt, noticed>>

\* _perform, its last lines.  An explicit stop that leaves something raises, and stops once more.
Certain(c) == ~c.errors /\ c.uncertain = {}

Again ==
    /\ ctl.at = "over" /\ ctl.stopping /\ ~ctl.failed /\ ~Certain(ctl)
    /\ ctl' = Stopping([ctl EXCEPT !.failed = TRUE])
    /\ UNCHANGED <<vm, unknown, busy, receipt, noticed, faults>>

Outcome ==
    CASE ctl.at = "empty" -> [status |-> "no_input", complete |-> ctl.phase = "start"]
      [] ctl.failed -> [status |-> "failed", complete |-> Certain(ctl) /\ ctl.owned \cup ctl.inflight # {}]
      [] OTHER -> [status |-> IF ctl.stopping THEN "stopped" ELSE "done", complete |-> TRUE]

\* The scope is what the operation has owned, also where start() has given it up again.
End ==
    /\ ctl # Idle /\ ctl.at \in {"over", "empty"}
    /\ ctl.stopping /\ ~ctl.failed => Certain(ctl)
    /\ receipt' = [status |-> Outcome.status, complete |-> Outcome.complete, scope |-> ctl.owned]
    /\ ctl' = Idle
    /\ UNCHANGED <<vm, unknown, busy, noticed, faults>>

-----------------------------------------------------------------------------
(* What nobody asked for. *)

Die ==
    /\ ctl # Idle /\ faults < MaxFaults /\ faults' = faults + 1
    /\ ctl' = Idle
    /\ UNCHANGED <<vm, unknown, busy, receipt, noticed>>

Arrive(n) ==
    \/ vm[n] = "coming" /\ Powered(n, "on") /\ UNCHANGED <<ctl, receipt, noticed, faults>>
    \/ vm[n] = "going" /\ Powered(n, "off") /\ UNCHANGED <<ctl, receipt, noticed, faults>>

Intrude(n) ==
    /\ vm[n] = "on" /\ n \notin unknown /\ faults < MaxFaults
    /\ faults' = faults + 1 /\ unknown' = unknown \cup {n}
    /\ UNCHANGED <<vm, busy, ctl, receipt, noticed>>

\* A worker without its controller's heartbeat ends by itself.
WorkerEnds(n) ==
    /\ n \in busy /\ busy' = busy \ {n}
    /\ UNCHANGED <<vm, unknown, ctl, receipt, noticed, faults>>

Next ==
    \/ \E phase \in {"start", "job", "stop"} : Begin(phase)
    \/ \E n \in Nodes :
          AllOff(n) \/ StartVM(n) \/ Wait(n) \/ Input(n) \/ Look(n) \/ Adopt(n) \/ Accept(n) \/ LeaveAll(n) \/ Remote(n)
          \/ Cancel(n) \/ Probe(n) \/ Halt(n) \/ Gone(n) \/ Arrive(n) \/ Intrude(n) \/ WorkerEnds(n)
    \/ Again \/ End \/ Die

Spec == Init /\ [][Next]_vars

-----------------------------------------------------------------------------
\* A receipt of a complete cleanup stays true until the next operation: the
\* machines the operation owned are off, nothing works on them, and none is on
\* its way down only, or comes up by itself.
ReceiptHolds ==
    /\ vm \in [Nodes -> {"off", "coming", "on", "going"}] /\ noticed \cup unknown \cup busy \subseteq Nodes
    /\ receipt.complete /\ receipt.status # "done" /\ ctl = Idle =>
          \A n \in receipt.scope : vm[n] = "off" /\ n \notin busy

\* A machine is not stopped once a command of some operation, this one or one
\* that has died since, has been shown unknown work on it.
KeepStep == \A n \in noticed : n \in unknown => n \in unknown'
UnknownKept == [][KeepStep]_vars
=============================================================================
