--------------------------- MODULE LifecycleProofs ---------------------------
(***************************************************************************)
(* The pool outlives the work, and a worker stopped in time stays stopped. *)
(*                                                                         *)
(* Hooks start from the first to the last and stop from the last to the    *)
(* first, so the invariant speaks of a hook by its place: those before     *)
(* started have not been asked to stop, and those after it are at rest.    *)
(***************************************************************************)
EXTENDS Lifecycle, TLAPS

Places == 1 .. Len(Hooks)

LEMMA HooksInOrder ==
  /\ Places = 1 .. 5 /\ Len(Hooks) = 5
  /\ Hooks[1] = "pool" /\ Hooks[2] = "http" /\ Hooks[3] = "sqs"
  /\ Hooks[4] = "outbox" /\ Hooks[5] = "pending"
BY DEF Hooks, Places

LEMMA OnePlaceEach ==
  /\ \A i, j \in Places : Hooks[i] = Hooks[j] => i = j
  /\ \A i \in Places : Hooks[i] \in Workers <=> i > 2
  /\ \A w \in Workers : \E i \in Places : Hooks[i] = w
<1>1. \A i \in Places : i = 1 \/ i = 2 \/ i = 3 \/ i = 4 \/ i = 5
  BY HooksInOrder
<1>2. QED
  BY <1>1, HooksInOrder DEF Workers

\* At rest for good: no request, and a goroutine that was never launched, has left, or will
\* find its channel closed at its first select.
AtRest(i) ==
  /\ Hooks[i] = "http" => ~serving
  /\ Hooks[i] \in Workers =>
       \/ goroutine[Hooks[i]] = "none"
       \/ Hooks[i] \in asked /\ goroutine[Hooks[i]] \in {"launched", "gone"}

StopsInOrder ==
  /\ phase = "starting" => asked = {}
  /\ phase = "exited" /\ ~expired => started = 0
  /\ \A i \in Places : i < started => Hooks[i] \notin asked
  /\ \A i \in Places : started < i => AtRest(i)

Stopping == TypeOK /\ StopsInOrder

LEMMA InitStopping == Init => Stopping
<1> SUFFICES ASSUME Init PROVE Stopping
  OBVIOUS
<1>1. /\ phase = "starting" /\ started = 0 /\ asked = {} /\ ~serving
      /\ \A w \in Workers : goroutine[w] = "none"
  BY DEF Init
<1>2. TypeOK
  <2>1. goroutine \in [Workers -> {"none", "launched", "waiting", "working", "gone"}]
    BY DEF Init
  <2>2. serving \in BOOLEAN /\ expired \in BOOLEAN
    BY DEF Init
  <2>3. started \in 0 .. Len(Hooks)
    BY <1>1, HooksInOrder
  <2>4. QED
    BY <1>1, <2>1, <2>2, <2>3 DEF TypeOK
<1>3. \A i \in Places : AtRest(i) /\ ~(i < started)
  BY <1>1, HooksInOrder DEF AtRest
<1>4. QED
  BY <1>1, <1>2, <1>3 DEF Stopping, StopsInOrder

\* fx starts, asks and stops one hook at a time.
LEMMA HookStops ==
  ASSUME Stopping, Hook \/ StartFails \/ Shutdown \/ Expire
  PROVE  Stopping'
<1>a. /\ started \in 0 .. 5 /\ Hooks' = Hooks /\ Places' = Places
      /\ \A h : h \in Workers => h \in DOMAIN goroutine
  BY HooksInOrder DEF Stopping, TypeOK, Hooks, Places
<1>1. CASE StartHook
  <2> DEFINE h == Hooks[started + 1]
  <2>1. started + 1 \in Places /\ asked = {} /\ phase = "starting" /\ started' = started + 1
        /\ UNCHANGED <<phase, asked, serving, expired>>
    BY <1>1, <1>a, HooksInOrder DEF StartHook, Stopping, StopsInOrder
  <2>2. \A w \in Workers : goroutine'[w] = IF w = h THEN "launched" ELSE goroutine[w]
    BY <1>1 DEF StartHook, Stopping, TypeOK
  <2>3. TypeOK'
    BY <1>1, <1>a, <2>1, HooksInOrder DEF StartHook, Stopping, TypeOK
  <2>4. ASSUME NEW i \in Places, started + 1 < i
        PROVE  AtRest(i)'
    <3>1. AtRest(i) /\ Hooks[i] # h
      BY <1>a, <2>1, <2>4, OnePlaceEach, HooksInOrder DEF Stopping, StopsInOrder
    <3>2. QED
      BY <1>a, <2>1, <2>2, <3>1 DEF AtRest
  <2>5. QED
    BY <1>a, <2>1, <2>3, <2>4 DEF Stopping, StopsInOrder
<1>2. CASE Run \/ StartFails \/ Shutdown \/ Expire \/ Exit
  <2>1. UNCHANGED <<started, asked, goroutine, serving>>
    BY <1>2 DEF Run, StartFails, Shutdown, Expire, Exit
  <2>2. TypeOK'
    BY <1>2, <2>1 DEF Run, StartFails, Shutdown, Expire, Exit, Stopping, TypeOK
  <2>3. /\ phase' = "starting" => phase = "starting"
        /\ phase' = "exited" /\ ~expired' => started = 0
    BY <1>2 DEF Run, StartFails, Shutdown, Expire, Exit, Stopping, TypeOK
  <2>4. QED
    BY <1>a, <2>1, <2>2, <2>3 DEF Stopping, StopsInOrder, AtRest
<1>3. CASE BeginStop
  <2>1. /\ started \in Places /\ phase = "stopping" /\ asked' = asked \cup {Hooks[started]}
        /\ UNCHANGED <<phase, started, goroutine, serving, expired>>
    BY <1>3, <1>a, HooksInOrder DEF BeginStop
  <2>2. TypeOK'
    BY <2>1, HooksInOrder DEF Stopping, TypeOK, Places
  <2>3. \A i \in Places : i < started => Hooks[i] \notin asked'
    BY <1>a, <2>1, OnePlaceEach, HooksInOrder DEF Stopping, StopsInOrder
  <2>4. \A i \in Places : started < i => AtRest(i)'
    BY <1>a, <2>1 DEF Stopping, StopsInOrder, AtRest
  <2>5. QED
    BY <1>a, <2>1, <2>2, <2>3, <2>4 DEF Stopping, StopsInOrder
<1>4. CASE EndStop
  <2>1. /\ started \in Places /\ phase = "stopping" /\ started' = started - 1
        /\ UNCHANGED <<phase, asked, goroutine, serving, expired>>
        /\ Hooks[started] \in asked /\ Drained(Hooks[started])
    BY <1>4, <1>a, HooksInOrder DEF EndStop
  <2>2. TypeOK'
    BY <1>a, <2>1, HooksInOrder DEF Stopping, TypeOK
  <2>3. AtRest(started)
    BY <2>1, HooksInOrder DEF AtRest, Drained, Stopping, TypeOK, Workers
  <2>4. \A i \in Places : started - 1 < i => AtRest(i)'
    <3>1. \A i \in Places : started - 1 < i => i = started \/ started < i
      BY <1>a, HooksInOrder
    <3>2. QED
      BY <1>a, <2>1, <2>3, <3>1 DEF Stopping, StopsInOrder, AtRest
  <2>5. QED
    BY <1>a, <2>1, <2>2, <2>4, HooksInOrder DEF Stopping, StopsInOrder
<1>5. QED
  BY <1>1, <1>2, <1>3, <1>4 DEF Hook

\* Requests and goroutines come and go; what is at rest stays there.
LEMMA WorkStops ==
  ASSUME Stopping, \/ Request \/ Respond
                   \/ \E w \in Workers : Enter(w) \/ BeginWork(w) \/ EndWork(w) \/ Leave(w)
  PROVE  Stopping'
<1>a. /\ started \in 0 .. 5 /\ Hooks' = Hooks /\ Places' = Places
  BY HooksInOrder DEF Stopping, TypeOK, Hooks, Places
<1>1. CASE Request \/ Respond
  <2>1. UNCHANGED <<phase, started, asked, goroutine, expired>> /\ serving' \in BOOLEAN
        /\ (serving' => started >= 2)
    BY <1>1 DEF Request, Respond
  <2>2. \A i \in Places : Hooks[i] = "http" => i = 2
    BY OnePlaceEach, HooksInOrder
  <2>3. \A i \in Places : started < i => AtRest(i)'
    BY <1>a, <2>1, <2>2, HooksInOrder DEF Stopping, StopsInOrder, AtRest
  <2>4. QED
    BY <1>a, <2>1, <2>3 DEF Stopping, StopsInOrder, TypeOK
<1>2. ASSUME NEW w \in Workers, Enter(w) \/ BeginWork(w) \/ EndWork(w) \/ Leave(w)
      PROVE  Stopping'
  <2>1. PICK to \in {"waiting", "working", "gone"} :
          /\ goroutine' = [goroutine EXCEPT ![w] = to]
          /\ goroutine[w] \in {"launched", "waiting", "working"}
          /\ goroutine[w] = "launched" /\ w \in asked => to = "gone"
    BY <1>2 DEF Enter, BeginWork, EndWork, Leave, Goes
  <2>2. UNCHANGED <<phase, started, asked, serving, expired>>
    BY <1>2 DEF Enter, BeginWork, EndWork, Leave, Goes
  <2>3. /\ TypeOK'
        /\ \A v \in Workers : goroutine'[v] = IF v = w THEN to ELSE goroutine[v]
    BY <2>1, <2>2 DEF Stopping, TypeOK
  <2>4. \A i \in Places : started < i => AtRest(i)'
    BY <1>a, <2>1, <2>2, <2>3 DEF Stopping, StopsInOrder, AtRest
  <2>5. QED
    BY <1>a, <2>2, <2>3, <2>4 DEF Stopping, StopsInOrder
<1>3. QED
  BY <1>1, <1>2

LEMMA StoppingHolds == Spec => []Stopping
<1>1. Stopping /\ [Next]_vars => Stopping'
  <2>1. Stopping /\ UNCHANGED vars => Stopping'
    BY DEF vars, Stopping, TypeOK, StopsInOrder, AtRest, Places, Hooks, Workers
  <2>2. QED
    BY <2>1, HookStops, WorkStops DEF Next
<1>2. QED
  BY <1>1, InitStopping, PTL DEF Spec

\* When the pool begins to close, every other hook is at rest, launched goroutines that
\* have not entered their wait group included; and so it is when the process exits in time.
THEOREM PoolIsLast == Spec => []PoolOutlivesWork
<1>1. Stopping => PoolOutlivesWork
  <2> SUFFICES ASSUME Stopping PROVE PoolOutlivesWork
    OBVIOUS
  <2>1. started \in 0 .. 5 /\ 1 \in Places /\ 2 \in Places
    BY HooksInOrder DEF Stopping, TypeOK
  <2>2. ASSUME started < 2
        PROVE  NobodyWorks
    <3>1. \A i \in Places : i >= 2 => AtRest(i)
      BY <2>1, <2>2, HooksInOrder DEF Stopping, StopsInOrder
    <3>2. ~serving
      BY <2>1, <3>1, HooksInOrder DEF AtRest
    <3>3. ASSUME NEW w \in Workers
          PROVE  goroutine[w] # "working"
      <4>1. PICK i \in Places : Hooks[i] = w /\ i >= 2
        BY OnePlaceEach, HooksInOrder
      <4>2. QED
        BY <3>1, <4>1 DEF AtRest
    <3>4. QED
      BY <3>2, <3>3 DEF NobodyWorks
  <2>3. "pool" \in asked => started < 2
    BY <2>1, HooksInOrder DEF Stopping, StopsInOrder
  <2>4. phase = "exited" /\ ~expired => started < 2
    BY <2>1 DEF Stopping, StopsInOrder
  <2>5. QED
    BY <2>2, <2>3, <2>4 DEF PoolOutlivesWork, Stopping
<1>2. QED
  BY <1>1, StoppingHolds, PTL

\* A worker whose Stop has returned in time begins nothing more.
THEOREM StoppedStay == Spec => StoppedStaysStopped
<1> DEFINE Stay == \A i \in 1 .. Len(Hooks) :
                     Hooks[i] \in Workers /\ Hooks[i] \in asked /\ i > started
                       => goroutine'[Hooks[i]] # "working"
<1>1. Stopping /\ [Next]_vars => [Stay]_vars
  <2> SUFFICES ASSUME Stopping, [Next]_vars, NEW i \in Places,
                      Hooks[i] \in Workers, Hooks[i] \in asked, i > started
               PROVE  goroutine'[Hooks[i]] # "working"
    BY DEF Places
  <2> DEFINE h == Hooks[i]
  <2>1. AtRest(i) /\ i \in Nat /\ started \in Nat
    BY HooksInOrder DEF Stopping, StopsInOrder, TypeOK
  <2>2. goroutine[h] \in {"none", "launched", "gone"}
    BY <2>1 DEF AtRest
  <2>3. CASE UNCHANGED goroutine
    BY <2>2, <2>3
  <2>4. CASE StartHook
    BY <2>4 DEF StartHook, Stopping, StopsInOrder
  <2>5. ASSUME NEW w \in Workers, Enter(w) \/ BeginWork(w) \/ EndWork(w) \/ Leave(w)
        PROVE  goroutine'[h] # "working"
    <3>1. \E to : /\ goroutine' = [goroutine EXCEPT ![w] = to]
                  /\ goroutine[w] \in {"launched", "waiting", "working"}
                  /\ goroutine[w] = "launched" => to # "working"
      BY <2>5 DEF Enter, BeginWork, EndWork, Leave, Goes
    <3>2. QED
      BY <2>2, <3>1 DEF Stopping, TypeOK
  <2>6. QED
    BY <2>3, <2>4, <2>5 DEF Next, Hook, Run, Shutdown, BeginStop, EndStop, Expire, Exit,
       StartFails, Request, Respond, vars
<1>2. QED
  BY <1>1, StoppingHolds, PTL DEF Spec, StoppedStaysStopped

=============================================================================
