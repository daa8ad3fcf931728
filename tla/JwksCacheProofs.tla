--------------------------- MODULE JwksCacheProofs ---------------------------
(***************************************************************************)
(* For any number of requests, any keys and key sets, and any lifetimes:   *)
(* dropped keys expire, and keys that stay are accepted.                   *)
(***************************************************************************)
EXTENDS JwksCache, TLAPS

LEMMA CallFields ==
  ASSUME TypeOK, NEW c \in Calls
  PROVE  /\ call[c].pc \in PCs /\ call[c].kid \in Tokens \cup {NoKid}
         /\ call[c].ok \in BOOLEAN /\ call[c].failed \in BOOLEAN
         /\ call[c].got \subseteq Kids /\ call[c].waited \in 0 .. Timeout
BY DEF TypeOK

\* The first three parts of the invariant besides the types, and the two properties, of
\* one call.
CallIsFine(s) ==
  /\ s.got # {} => always \subseteq s.got
  /\ s.pc = "answered" => \A k \in s.got : gone[k] <= s.waited
  /\ s.ok \/ s.pc = "again" => keys # {}
  /\ s.pc = "again" /\ ~s.failed => age = 0
  /\ s.pc = "accepted" /\ s.kid # NoKid /\ ~s.failed => gone[s.kid] <= Lifetime + Timeout
  /\ s.pc = "refused" /\ s.kid \in always => s.failed /\ ~s.ok

CacheIsFine ==
  /\ keys # {} => always \subseteq keys
  /\ Fresh => \A k \in keys : gone[k] <= age + Timeout

LEMMA Parts ==
  /\ IInv <=> TypeOK /\ CacheIsFine /\ \A c \in Calls : CallIsFine(call[c])
  /\ IInv' <=> (TypeOK /\ CacheIsFine /\ \A c \in Calls : CallIsFine(call[c]))'
BY DEF IInv, SetsAreWhole, SetsAreRecent, CallsAreSound, DroppedKeysExpire,
       SteadyKeysAreAccepted, CacheIsFine, CallIsFine

LEMMA InitHolds == Init => IInv
<1> SUFFICES ASSUME Init PROVE IInv
  OBVIOUS
<1>1. TypeOK
  <2>1. /\ published \in KeySets /\ published \subseteq Kids /\ published # {}
        /\ always = published
    BY CacheAssumption DEF Init
  <2>2. gone \in [Kids -> 0 .. Horizon] /\ \A k \in published : gone[k] = 0
    BY <2>1, CacheAssumption DEF Init, Horizon
  <2>3. keys \subseteq Kids /\ age \in 0 .. Lifetime + 1 /\ (keys = {} => age = Lifetime + 1)
    BY <2>1, CacheAssumption DEF Init
  <2>4. call \in [Calls -> [pc : PCs, kid : Tokens \cup {NoKid}, ok : BOOLEAN, failed : BOOLEAN,
                            got : SUBSET Kids, waited : 0 .. Timeout]]
    BY CacheAssumption DEF Init, IdleCall, PCs
  <2>5. QED
    BY <2>1, <2>2, <2>3, <2>4 DEF Init, TypeOK
<1>2. CacheIsFine
  <2>1. ASSUME Fresh, NEW k \in keys PROVE gone[k] <= age + Timeout
    BY <2>1, CacheAssumption DEF Init, Fresh
  <2>2. QED
    BY <2>1 DEF Init, CacheIsFine
<1>3. ASSUME NEW c \in Calls PROVE CallIsFine(call[c])
  BY DEF Init, CallIsFine, IdleCall
<1>4. QED
  BY <1>1, <1>2, <1>3, Parts

\* A step of one call that leaves the provider, the cache and the other calls alone.
LEMMA QuietKeeps ==
  ASSUME IInv, NEW c \in Calls, NEW s, call' = [call EXCEPT ![c] = s],
         UNCHANGED <<idp, cache, beat>>,
         s \in [pc : PCs, kid : Tokens \cup {NoKid}, ok : BOOLEAN, failed : BOOLEAN,
                got : SUBSET Kids, waited : 0 .. Timeout],
         CallIsFine(s)
  PROVE  IInv'
<1>1. TypeOK'
  BY DEF IInv, TypeOK, idp, cache
<1>2. CacheIsFine'
  BY Parts DEF CacheIsFine, Fresh, idp, cache
<1>3. \A d \in Calls : CallIsFine(call'[d])
  BY Parts DEF IInv, TypeOK
<1>4. (\A d \in Calls : CallIsFine(call[d]))'
  BY <1>3 DEF CallIsFine, idp, cache
<1>5. QED
  BY <1>1, <1>2, <1>4, Parts

-----------------------------------------------------------------------------

LEMMA LookupKeeps ==
  ASSUME IInv, NEW c \in Calls, NEW k \in Tokens, Lookup(c, k)
  PROVE  IInv'
<1> DEFINE ok == k \in keys
           r  == [IdleCall EXCEPT !.kid = k, !.ok = ok]
           s  == [r EXCEPT !.pc = IF r.ok /\ Fresh THEN "accepted" ELSE "asking"]
<1>1. call' = [call EXCEPT ![c] = s] /\ UNCHANGED <<idp, cache, beat>>
  BY DEF Lookup
<1>0. /\ s.pc = (IF ok /\ Fresh THEN "accepted" ELSE "asking") /\ s.kid = k /\ s.ok = ok
      /\ s.failed = FALSE /\ s.got = {} /\ s.waited = 0
  BY DEF IdleCall
<1>2. s \in [pc : PCs, kid : Tokens \cup {NoKid}, ok : BOOLEAN, failed : BOOLEAN,
             got : SUBSET Kids, waited : 0 .. Timeout]
  <2>1. r \in [pc : PCs, kid : Tokens \cup {NoKid}, ok : BOOLEAN, failed : BOOLEAN,
               got : SUBSET Kids, waited : 0 .. Timeout]
    <3>1. IdleCall \in [pc : PCs, kid : Tokens \cup {NoKid}, ok : BOOLEAN, failed : BOOLEAN,
                        got : SUBSET Kids, waited : 0 .. Timeout]
      BY CacheAssumption DEF PCs, IdleCall
    <3>2. ok \in BOOLEAN
      OBVIOUS
    <3> HIDE DEF ok
    <3>3. QED
      BY <3>1, <3>2
  <2>2. (IF r.ok /\ Fresh THEN "accepted" ELSE "asking") \in PCs
    BY DEF PCs
  <2> HIDE DEF r
  <2>3. QED
    BY <2>1, <2>2
<1>3. ok /\ Fresh => gone[k] <= Lifetime + Timeout
  <2>1. ASSUME ok, Fresh PROVE gone[k] <= Lifetime + Timeout
    <3>1. gone[k] <= age + Timeout /\ age <= Lifetime
      BY <2>1, Parts DEF CacheIsFine, Fresh
    <3>2. gone[k] \in Nat /\ age \in Nat
      BY <2>1, CacheAssumption DEF IInv, TypeOK, Horizon
    <3>3. QED
      BY <3>1, <3>2, CacheAssumption
  <2>2. QED
    BY <2>1
<1> HIDE DEF s
<1>4. CallIsFine(s)
  BY <1>0, <1>3 DEF CallIsFine
<1>5. QED
  BY <1>1, <1>2, <1>4, QuietKeeps

LEMMA AnswerKeeps ==
  ASSUME IInv, NEW c \in Calls, Answer(c)
  PROVE  IInv'
<1>1. PICK got \in {published, {}} :
        call' = [call EXCEPT ![c].pc = "answered", ![c].got = got]
  BY DEF Answer
<1> DEFINE s == [call[c] EXCEPT !.pc = "answered", !.got = got]
<1>2. call' = [call EXCEPT ![c] = s] /\ UNCHANGED <<idp, cache, beat>>
  BY <1>1 DEF Answer
<1>3. got \subseteq Kids /\ \A k \in got : k \in Kids /\ gone[k] = 0
  BY CacheAssumption DEF IInv, TypeOK
<1>4. /\ s.pc = "answered" /\ s.kid = call[c].kid /\ s.ok = call[c].ok /\ s.got = got
      /\ s.failed = call[c].failed /\ s.waited = call[c].waited
      /\ s \in [pc : PCs, kid : Tokens \cup {NoKid}, ok : BOOLEAN, failed : BOOLEAN,
                got : SUBSET Kids, waited : 0 .. Timeout]
  BY <1>3 DEF IInv, TypeOK, PCs
<1> HIDE DEF s
<1>5. CallIsFine(s)
  <2>1. got # {} => always \subseteq got
    BY DEF IInv, TypeOK
  <2>2. \A k \in got : gone[k] <= call[c].waited
    BY <1>3, CallFields, CacheAssumption DEF IInv
  <2>3. call[c].ok => keys # {}
    BY Parts DEF CallIsFine
  <2>4. QED
    BY <1>4, <2>1, <2>2, <2>3 DEF CallIsFine
<1>6. QED
  BY <1>2, <1>4, <1>5, QuietKeeps

LEMMA FailureKeeps ==
  ASSUME IInv, NEW c \in Calls, Unrefreshed(c)
  PROVE  IInv'
<1> DEFINE s == [call[c] EXCEPT !.pc = AfterFailure(call[c]), !.failed = TRUE]
<1>1. call' = [call EXCEPT ![c] = s] /\ UNCHANGED <<idp, cache, beat>>
  BY DEF Unrefreshed
<1>2. /\ s.pc = IF call[c].ok THEN "again" ELSE "refused"
      /\ s.kid = call[c].kid /\ s.ok = call[c].ok /\ s.got = call[c].got
      /\ s.failed /\ s.waited = call[c].waited
      /\ s \in [pc : PCs, kid : Tokens \cup {NoKid}, ok : BOOLEAN, failed : BOOLEAN,
                got : SUBSET Kids, waited : 0 .. Timeout]
  BY DEF IInv, TypeOK, PCs, AfterFailure
<1> HIDE DEF s
<1>3. CallIsFine(call[c])
  BY Parts
<1>4. CallIsFine(s)
  BY <1>2, <1>3, CallFields DEF IInv, CallIsFine
<1>5. QED
  BY <1>1, <1>2, <1>4, QuietKeeps

LEMMA InstallKeeps ==
  ASSUME IInv, NEW c \in Calls, Install(c)
  PROVE  IInv'
<1> DEFINE got == call[c].got
<1>1. /\ call[c].pc = "answered" /\ got # {} /\ keys' = got /\ age' = 0
      /\ call' = [call EXCEPT ![c] = [call[c] EXCEPT !.pc = "again"]]
      /\ UNCHANGED <<idp, beat>>
  BY DEF Install, Usable, GoOn
<1>2. CallIsFine(call[c]) /\ got \subseteq Kids /\ call[c].waited \in 0 .. Timeout
  BY Parts, CallFields DEF IInv
<1>3. TypeOK'
  BY <1>1, <1>2, CacheAssumption DEF IInv, TypeOK, idp, PCs
<1>4. CacheIsFine'
  <2>1. always' \subseteq keys' /\ gone' = gone
    BY <1>1, <1>2 DEF CallIsFine, idp
  <2>2. \A k \in keys' : gone'[k] <= age' + Timeout
    <3>1. ASSUME NEW k \in got PROVE gone[k] <= 0 + Timeout
      <4>1. gone[k] <= call[c].waited /\ gone[k] \in Nat
        BY <1>1, <1>2, CacheAssumption DEF CallIsFine, IInv, TypeOK, Horizon
      <4>2. QED
        BY <4>1, <1>2, CacheAssumption
    <3>2. QED
      BY <1>1, <2>1, <3>1
  <2>3. QED
    BY <2>1, <2>2 DEF CacheIsFine
<1>5. ASSUME NEW d \in Calls PROVE CallIsFine(call[d])'
  <2>1. CallIsFine(call[d])
    BY Parts
  <2>2. CASE d = c
    <3>1. /\ call'[c].pc = "again" /\ call'[c].got = got
      BY <1>1 DEF IInv, TypeOK
    <3>2. QED
      BY <1>1, <1>2, <2>2, <3>1 DEF CallIsFine, idp
  <2>3. CASE d # c
    <3>1. call'[d] = call[d]
      BY <1>1, <2>3 DEF IInv, TypeOK
    <3>2. QED
      BY <1>1, <2>1, <3>1 DEF CallIsFine, idp
  <2>4. QED
    BY <2>2, <2>3
<1>6. QED
  BY <1>3, <1>4, <1>5, Parts

LEMMA LookAgainKeeps ==
  ASSUME IInv, NEW c \in Calls, LookAgain(c)
  PROVE  IInv'
<1> DEFINE pc == IF Has(call[c].kid) THEN "accepted" ELSE "refused"
           s  == [call[c] EXCEPT !.pc = pc]
<1>1. /\ call' = [call EXCEPT ![c] = s] /\ UNCHANGED <<idp, cache, beat>>
      /\ call[c].pc = "again"
  BY DEF LookAgain, GoOn
<1>2. /\ s.pc = pc /\ s.kid = call[c].kid /\ s.ok = call[c].ok /\ s.got = call[c].got
      /\ s.failed = call[c].failed /\ s.waited = call[c].waited
      /\ s \in [pc : PCs, kid : Tokens \cup {NoKid}, ok : BOOLEAN, failed : BOOLEAN,
                got : SUBSET Kids, waited : 0 .. Timeout]
  BY DEF IInv, TypeOK, PCs
<1>3. CallIsFine(call[c]) /\ keys # {} /\ always \subseteq keys
  BY <1>1, Parts DEF CallIsFine, CacheIsFine
<1>4. ASSUME Has(call[c].kid), call[c].kid # NoKid, ~call[c].failed
      PROVE  gone[call[c].kid] <= Lifetime + Timeout
  <2>1. age = 0 /\ call[c].kid \in keys
    BY <1>1, <1>3, <1>4 DEF CallIsFine, Has
  <2>2. gone[call[c].kid] <= age + Timeout
    BY <2>1, Parts, CacheAssumption DEF CacheIsFine, Fresh
  <2>3. gone[call[c].kid] \in Nat
    BY <2>1, CacheAssumption DEF IInv, TypeOK, Horizon
  <2>4. QED
    BY <2>1, <2>2, <2>3, CacheAssumption
<1>5. ~Has(call[c].kid) => call[c].kid \notin always
  BY <1>3 DEF Has
<1> HIDE DEF s
<1>6. CallIsFine(s)
  BY <1>2, <1>3, <1>4, <1>5 DEF CallIsFine
<1>7. QED
  BY <1>1, <1>2, <1>6, QuietKeeps

LEMMA ReturnKeeps ==
  ASSUME IInv, NEW c \in Calls, Return(c)
  PROVE  IInv'
<1>1. call' = [call EXCEPT ![c] = IdleCall] /\ UNCHANGED <<idp, cache, beat>>
  BY DEF Return
<1>2. IdleCall \in [pc : PCs, kid : Tokens \cup {NoKid}, ok : BOOLEAN, failed : BOOLEAN,
                    got : SUBSET Kids, waited : 0 .. Timeout]
  BY CacheAssumption DEF IdleCall, PCs
<1>3. CallIsFine(IdleCall)
  BY DEF CallIsFine, IdleCall
<1>4. QED
  BY <1>1, <1>2, <1>3, QuietKeeps

LEMMA RotateKeeps ==
  ASSUME IInv, NEW set \in KeySets, Rotate(set)
  PROVE  IInv'
<1>1. /\ published' = set /\ always' = always \cap set
      /\ gone' = [k \in Kids |-> IF k \in set THEN 0 ELSE gone[k]]
      /\ UNCHANGED <<keys, age, beat, call>>
  BY DEF Rotate, cache
<1>2. gone \in [Kids -> 0 .. Horizon] /\ Horizon \in Nat /\ keys \subseteq Kids
  BY CacheAssumption DEF IInv, TypeOK, Horizon
<1>3. \A k \in Kids : gone'[k] <= gone[k] /\ gone'[k] \in Nat /\ gone[k] \in Nat
  BY <1>1, <1>2
<1>4. TypeOK'
  <2>1. gone' \in [Kids -> 0 .. Horizon] /\ \A k \in published' : gone'[k] = 0
    BY <1>1, <1>2, CacheAssumption
  <2>2. QED
    BY <1>1, <2>1 DEF IInv, TypeOK
<1>5. CacheIsFine'
  <2>1. ASSUME Fresh, NEW k \in keys PROVE gone'[k] <= age + Timeout
    <3>1. gone[k] <= age + Timeout
      BY <2>1, Parts DEF CacheIsFine
    <3>2. age \in Nat
      BY CacheAssumption DEF IInv, TypeOK
    <3>3. QED
      BY <1>2, <1>3, <3>1, <3>2, CacheAssumption
  <2>2. keys # {} => always' \subseteq keys
    BY <1>1, Parts DEF CacheIsFine
  <2>3. QED
    BY <1>1, <2>1, <2>2 DEF CacheIsFine, Fresh
<1>6. ASSUME NEW c \in Calls PROVE CallIsFine(call[c])'
  <2>1. CallIsFine(call[c]) /\ call[c].waited \in Nat /\ call[c].got \subseteq Kids
        /\ (call[c].kid # NoKid => call[c].kid \in Kids)
    BY Parts, CallFields, CacheAssumption DEF IInv
  <2>2. call[c].pc = "answered" => \A k \in call[c].got : gone'[k] <= call[c].waited
    BY <1>3, <2>1 DEF CallIsFine
  <2>3. call[c].pc = "accepted" /\ call[c].kid # NoKid /\ ~call[c].failed =>
          gone'[call[c].kid] <= Lifetime + Timeout
    BY <1>3, <2>1, CacheAssumption DEF CallIsFine
  <2>4. QED
    BY <1>1, <2>1, <2>2, <2>3 DEF CallIsFine
<1>7. QED
  BY <1>4, <1>5, <1>6, Parts

LEMMA TickKeeps ==
  ASSUME IInv, Tick
  PROVE  IInv'
<1>1. /\ \A c \in Calls : call[c].pc = "idle" \/ (Waits(c) /\ call[c].waited < Timeout)
      /\ age' = IF age < Lifetime + 1 THEN age + 1 ELSE age
      /\ gone' = [k \in Kids |-> IF k \in published THEN 0
                               ELSE IF gone[k] < Horizon THEN gone[k] + 1 ELSE gone[k]]
      /\ call' = [c \in Calls |-> IF Waits(c) THEN [call[c] EXCEPT !.waited = @ + 1]
                                             ELSE call[c]]
      /\ beat' = 1 - beat
      /\ UNCHANGED <<published, always, keys>>
  BY DEF Tick, Older
<1>2. /\ gone \in [Kids -> 0 .. Horizon] /\ Horizon \in Nat /\ keys \subseteq Kids
      /\ age \in 0 .. Lifetime + 1 /\ Lifetime \in Nat /\ Timeout \in Nat
  BY CacheAssumption DEF IInv, TypeOK, Horizon
<1>3. \A k \in Kids : gone'[k] <= gone[k] + 1 /\ gone'[k] \in Nat /\ gone[k] \in Nat
  BY <1>1, <1>2
<1>4. ASSUME NEW c \in Calls
      PROVE  /\ call'[c].pc = call[c].pc /\ call'[c].got = call[c].got
             /\ call'[c].ok = call[c].ok /\ call'[c].kid = call[c].kid
             /\ call'[c].failed = call[c].failed
             /\ call'[c].waited = IF Waits(c) THEN call[c].waited + 1 ELSE call[c].waited
             /\ call'[c] \in [pc : PCs, kid : Tokens \cup {NoKid}, ok : BOOLEAN,
                              failed : BOOLEAN, got : SUBSET Kids, waited : 0 .. Timeout]
  <2>1. call[c] \in [pc : PCs, kid : Tokens \cup {NoKid}, ok : BOOLEAN, failed : BOOLEAN,
                     got : SUBSET Kids, waited : 0 .. Timeout]
    BY DEF IInv, TypeOK
  <2>2. Waits(c) => call[c].waited + 1 \in 0 .. Timeout
    BY <1>1, <1>2, <2>1 DEF Waits
  <2>3. call'[c] = IF Waits(c) THEN [call[c] EXCEPT !.waited = call[c].waited + 1] ELSE call[c]
    BY <1>1
  <2>4. QED
    BY <2>1, <2>2, <2>3
<1>5. TypeOK'
  <2>1. gone' \in [Kids -> 0 .. Horizon] /\ \A k \in published' : gone'[k] = 0
    BY <1>1, <1>2, CacheAssumption DEF IInv, TypeOK
  <2>2. age' \in 0 .. Lifetime + 1 /\ (keys' = {} => age' = Lifetime + 1) /\ beat' \in 0 .. 1
    BY <1>1, <1>2 DEF IInv, TypeOK
  <2>3. call' \in [Calls -> [pc : PCs, kid : Tokens \cup {NoKid}, ok : BOOLEAN,
                             failed : BOOLEAN, got : SUBSET Kids, waited : 0 .. Timeout]]
    BY <1>1, <1>4
  <2>4. QED
    BY <1>1, <2>1, <2>2, <2>3 DEF IInv, TypeOK
<1>6. CacheIsFine'
  <2>1. ASSUME Fresh', NEW k \in keys PROVE gone'[k] <= age' + Timeout
    <3>1. age' = age + 1 /\ age <= Lifetime
      BY <1>1, <1>2, <2>1 DEF Fresh
    <3>2. gone[k] <= age + Timeout
      BY <2>1, <3>1, Parts DEF CacheIsFine, Fresh
    <3>3. QED
      BY <1>2, <1>3, <3>1, <3>2
  <2>2. QED
    BY <1>1, <2>1, Parts DEF CacheIsFine
<1>7. ASSUME NEW c \in Calls PROVE CallIsFine(call[c])'
  <2>1. CallIsFine(call[c]) /\ call[c].waited \in Nat /\ call[c].got \subseteq Kids
    BY Parts, CallFields, CacheAssumption DEF IInv
  <2>2. call[c].pc = "answered" => \A k \in call[c].got : gone'[k] <= call'[c].waited
    BY <1>3, <1>4, <2>1 DEF CallIsFine, Waits
  <2>3. call[c].pc \in {"idle", "asking", "answered"}
    BY <1>1 DEF Waits
  <2>4. QED
    BY <1>1, <1>4, <2>1, <2>2, <2>3 DEF CallIsFine
<1>8. QED
  BY <1>5, <1>6, <1>7, Parts

LEMMA StepKeeps == IInv /\ [Next]_vars => IInv'
<1> SUFFICES ASSUME IInv, [Next]_vars PROVE IInv'
  OBVIOUS
<1>1. CASE \E c \in Calls : \/ \E k \in Tokens : Lookup(c, k)
                            \/ Proceed(c) \/ RequestFails(c)
  <2> PICK c \in Calls : \/ \E k \in Tokens : Lookup(c, k)
                         \/ Proceed(c) \/ RequestFails(c)
    BY <1>1
  <2>1. QED
    BY LookupKeeps, AnswerKeeps, FailureKeeps, InstallKeeps, LookAgainKeeps, ReturnKeeps
       DEF Proceed, RequestFails, Reject
<1>2. CASE \E set \in KeySets : Rotate(set)
  BY <1>2, RotateKeeps
<1>3. CASE Tick
  BY <1>3, TickKeeps
<1>4. CASE UNCHANGED vars
  BY <1>4, Parts DEF vars, idp, cache, TypeOK, CacheIsFine, CallIsFine, Fresh
<1>5. QED
  BY <1>1, <1>2, <1>3, <1>4 DEF Next

\* keyForKid and refreshKeys keep the cache's invariant, whatever the provider does.
THEOREM CacheInvariant == Spec => []IInv
BY InitHolds, StepKeeps, PTL DEF Spec

\* A dropped key is accepted for no longer than the lifetime and one request.
THEOREM DroppedKeysAreRefused == Spec => []DroppedKeysExpire
<1>1. IInv => DroppedKeysExpire
  BY DEF IInv
<1>2. QED
  BY <1>1, CacheInvariant, PTL

\* A key that stays published is refused only while the cache is empty.
THEOREM SteadyKeysStay == Spec => []SteadyKeysAreAccepted
<1>1. IInv => SteadyKeysAreAccepted
  BY DEF IInv
<1>2. QED
  BY <1>1, CacheInvariant, PTL
=============================================================================
