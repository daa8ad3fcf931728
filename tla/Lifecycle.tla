------------------------------ MODULE Lifecycle ------------------------------
(***************************************************************************)
(* Start and stop of one instance of the program.  fx runs the OnStart     *)
(* hooks in the order they were appended and the OnStop hooks in reverse,  *)
(* each after the one before has returned, until the stop timeout passes.  *)
(* Workers are goroutines that look at their stop channel between two      *)
(* pieces of work; Stop closes the channel and waits for the goroutine's   *)
(* wait group.                                                             *)
(***************************************************************************)
EXTENDS Integers, Sequences

VARIABLES
  phase,      \* of fx: "starting", "running", "stopping", "exited"
  started,    \* hooks started and not yet stopped
  asked,      \* hooks whose OnStop has begun: stop channels closed, server and pool closing
  goroutine,  \* Workers -> where its goroutine is
  serving,    \* whether HTTP requests are being handled
  expired     \* whether the stop timeout has passed

vars == <<phase, started, asked, goroutine, serving, expired>>

Workers == {"sqs", "outbox", "pending"}

\* The pool's hook is appended by its constructor, before the invoked functions run.
Hooks == <<"pool", "http", "sqs", "outbox", "pending">>

Init == /\ phase = "starting" /\ started = 0 /\ asked = {}
        /\ goroutine = [w \in Workers |-> "none"]
        /\ serving = FALSE /\ expired = FALSE

-----------------------------------------------------------------------------
(* fx *)

\* OnStart of the next hook; the hooks of the workers only launch their goroutines.
StartHook ==
  LET h == Hooks[started + 1] IN
  /\ phase = "starting" /\ started < Len(Hooks)
  /\ started' = started + 1
  /\ goroutine' = IF h \in Workers THEN [goroutine EXCEPT ![h] = "launched"] ELSE goroutine
  /\ UNCHANGED <<phase, asked, serving, expired>>

\* The database does not answer or its migrations fail; nothing else has been started.
StartFails == /\ phase = "starting" /\ started = 0
              /\ phase' = "exited"
              /\ UNCHANGED <<started, asked, goroutine, serving, expired>>

Run == /\ phase = "starting" /\ started = Len(Hooks)
       /\ phase' = "running"
       /\ UNCHANGED <<started, asked, goroutine, serving, expired>>

\* A signal, or the HTTP server fails and asks for the shutdown.
Shutdown == /\ phase = "running"
            /\ phase' = "stopping"
            /\ UNCHANGED <<started, asked, goroutine, serving, expired>>

\* Mutants: Stop does not wait; a worker never looks at its channel.
DrainedAnyway(h) == TRUE
NoticesNever(w)  == FALSE

\* What a stop hook waits for: the wait group, the handlers, the connections in use.
Drained(h) == CASE h \in Workers -> goroutine[h] \notin {"waiting", "working"}
                [] h = "http"    -> ~serving
                [] h = "pool"    -> ~serving /\ \A w \in Workers : goroutine[w] # "working"

BeginStop == /\ phase = "stopping" /\ ~expired /\ started > 0
             /\ Hooks[started] \notin asked
             /\ asked' = asked \cup {Hooks[started]}
             /\ UNCHANGED <<phase, started, goroutine, serving, expired>>

EndStop == /\ phase = "stopping" /\ ~expired /\ started > 0
           /\ Hooks[started] \in asked /\ Drained(Hooks[started])
           /\ started' = started - 1
           /\ UNCHANGED <<phase, asked, goroutine, serving, expired>>

Expire == /\ phase = "stopping" /\ ~expired
          /\ expired' = TRUE
          /\ UNCHANGED <<phase, started, asked, goroutine, serving>>

\* All hooks have returned, or the timeout has passed: no further hook is run.
Exit == /\ phase = "stopping" /\ (started = 0 \/ expired)
        /\ phase' = "exited"
        /\ UNCHANGED <<started, asked, goroutine, serving, expired>>

-----------------------------------------------------------------------------
(* Goroutines *)

Alive == phase # "exited"

Goes(w, from, to) == /\ Alive /\ goroutine[w] = from
                     /\ goroutine' = [goroutine EXCEPT ![w] = to]
                     /\ UNCHANGED <<phase, started, asked, serving, expired>>

\* wg.Add runs in the goroutine itself, perhaps after Stop has found the count at zero.
\* If the channel is closed by then the first select, too early for a tick, returns.
Enter(w) == Goes(w, "launched", IF w \in asked THEN "gone" ELSE "waiting")

\* The SQS worker receives only while its channel is open; the select of the others
\* may choose a tick although the channel is closed.
BeginWork(w) == (w = "sqs" => w \notin asked) /\ Goes(w, "waiting", "working")
EndWork(w)   == Goes(w, "working", "waiting")

Notices(w) == w \in asked
Leave(w)   == Notices(w) /\ Goes(w, "waiting", "gone")

\* The HTTP server accepts requests until Shutdown and then finishes those it has.
Request == /\ Alive /\ started >= 2 /\ "http" \notin asked /\ ~serving
           /\ serving' = TRUE
           /\ UNCHANGED <<phase, started, asked, goroutine, expired>>

Respond == /\ Alive /\ serving
           /\ serving' = FALSE
           /\ UNCHANGED <<phase, started, asked, goroutine, expired>>

Hook == StartHook \/ Run \/ BeginStop \/ EndStop \/ Exit

Next == \/ Hook \/ StartFails \/ Shutdown \/ Expire \/ Request \/ Respond
        \/ \E w \in Workers : Enter(w) \/ BeginWork(w) \/ EndWork(w) \/ Leave(w)

Spec == Init /\ [][Next]_vars

\* fx goes on, goroutines are scheduled, pieces of work and requests end.  A select with
\* two ready cases picks each at random, so the closed channel is seen in the end.
FairSpec == /\ Spec /\ WF_vars(Hook) /\ WF_vars(Respond)
            /\ \A w \in Workers : WF_vars(Enter(w)) /\ WF_vars(EndWork(w)) /\ SF_vars(Leave(w))

-----------------------------------------------------------------------------
(* Properties *)

\* fx, its hooks and the goroutines are in one of their states.
TypeOK == /\ phase \in {"starting", "running", "stopping", "exited"}
          /\ started \in 0 .. Len(Hooks)
          /\ asked \subseteq {Hooks[i] : i \in 1 .. Len(Hooks)}
          /\ goroutine \in [Workers -> {"none", "launched", "waiting", "working", "gone"}]
          /\ serving \in BOOLEAN /\ expired \in BOOLEAN

NobodyWorks == ~serving /\ \A w \in Workers : goroutine[w] # "working"

\* The pool is closed only when no request and no worker is using it, although a
\* worker may not have entered its wait group when its Stop hook returned; and only the
\* timeout lets the process exit while one does.
PoolOutlivesWork == /\ TypeOK
                    /\ "pool" \in asked => NobodyWorks
                    /\ phase = "exited" /\ ~expired => NobodyWorks

\* A worker whose stop hook has returned in time does no more work.
StoppedStaysStopped ==
  [][\A i \in 1 .. Len(Hooks) :
       Hooks[i] \in Workers /\ Hooks[i] \in asked /\ i > started
         => goroutine'[Hooks[i]] # "working"]_vars

\* Without a timeout every shutdown ends: no worker misses its stop channel.
ShutdownEnds == phase = "stopping" ~> phase = "exited"
=============================================================================
