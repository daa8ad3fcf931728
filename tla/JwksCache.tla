------------------------------ MODULE JwksCache ------------------------------
(***************************************************************************)
(* The key cache of the authentication middleware.  Concurrent requests    *)
(* look up the key their token names; a miss, or a cache older than        *)
(* Lifetime, makes each of them ask the identity provider for its key set  *)
(* and replace the cache by the answer, in the order the answers arrive.   *)
(* The provider may change its keys at any time, and may fail.             *)
(*                                                                         *)
(* Time counts in ticks, and ages count up to a bound beyond which they    *)
(* are all alike.  Only waiting for the provider takes time, at most the   *)
(* Timeout of the HTTP client.                                             *)
(***************************************************************************)
EXTENDS Naturals

CONSTANTS
  Calls,      \* requests being authenticated at the same time
  Kids,       \* key ids of the identity provider
  KeySets,    \* the key sets it may publish
  NoKid,      \* a token whose header names no key
  Tokens,     \* the key ids of the tokens that requests bring
  Lifetime,   \* 5 minutes: the age from which the cache is refreshed
  Timeout     \* 5 seconds: httpClient.Timeout

ASSUME CacheAssumption == /\ NoKid \notin Kids /\ Tokens \subseteq Kids \cup {NoKid}
                          /\ KeySets \subseteq (SUBSET Kids) \ {{}}
                          /\ Lifetime \in Nat /\ Timeout \in Nat \ {0}

VARIABLES
  published,  \* the key set the provider publishes
  gone,       \* Kids -> ticks since the provider dropped the key, 0 if it has not
  always,     \* the keys in every set published so far
  keys,       \* m.keys
  age,        \* time since m.fetchedAt
  beat,       \* alternates with every tick, so that no tick is a stutter
  call        \* Calls -> what keyForKid knows

idp   == <<published, gone, always>>
cache == <<keys, age>>
vars  == <<idp, cache, beat, call>>

Horizon  == Lifetime + Timeout + 1
PCs      == {"idle", "asking", "answered", "again", "accepted", "refused"}
IdleCall == [pc |-> "idle", kid |-> NoKid, ok |-> FALSE, failed |-> FALSE, got |-> {},
             waited |-> 0]

\* NewAuthMiddleware fetches once before the server starts, and goes on if that fails.
Init == /\ published \in KeySets
        /\ gone = [k \in Kids |-> IF k \in published THEN 0 ELSE Horizon]
        /\ always = published
        /\ \/ keys = published /\ age = 0
           \/ keys = {} /\ age = Lifetime + 1
        /\ beat = 0
        /\ call = [c \in Calls |-> IdleCall]

-----------------------------------------------------------------------------
(* keyForKid and refreshKeys *)

Waits(c)     == call[c].pc \in {"asking", "answered"}
GoOn(c, pc) == call' = [call EXCEPT ![c].pc = pc]

\* Mutant: a cached key is good for ever.
FreshForever == TRUE
Fresh        == age <= Lifetime

\* The first look at the cache, under the read lock.
Lookup(c, k) ==
  LET s == [IdleCall EXCEPT !.kid = k, !.ok = k \in keys] IN
  /\ call[c].pc = "idle"
  /\ call' = [call EXCEPT ![c] = [s EXCEPT !.pc = IF s.ok /\ Fresh THEN "accepted" ELSE "asking"]]
  /\ UNCHANGED <<idp, cache, beat>>

\* The provider answers with its keys, or with none this program can use.
Answer(c) == /\ call[c].pc = "asking"
             /\ \E got \in {published, {}} :
                  call' = [call EXCEPT ![c].pc = "answered", ![c].got = got]
             /\ UNCHANGED <<idp, cache, beat>>

\* Mutants: an error leaves no key to go on with; an answer without keys is installed.
AfterFailureStrict(s) == "refused"
AfterFailure(s)       == IF s.ok THEN "again" ELSE "refused"

UsableEvenEmpty(got) == TRUE
Usable(got)          == got # {}

\* refreshKeys returns an error; a call that has seen its key goes on without the refresh.
Unrefreshed(c) == /\ call' = [call EXCEPT ![c].pc = AfterFailure(call[c]), ![c].failed = TRUE]
                  /\ UNCHANGED <<idp, cache, beat>>

\* The connection, the status or the body fails, or the timeout passes.
RequestFails(c) == Waits(c) /\ Unrefreshed(c)

\* "no rsa keys in jwks"
Reject(c) == /\ call[c].pc = "answered" /\ ~Usable(call[c].got)
             /\ Unrefreshed(c)

\* The answer has arrived: m.keys and m.fetchedAt are set under the write lock.
Install(c) == /\ call[c].pc = "answered" /\ Usable(call[c].got)
              /\ keys' = call[c].got /\ age' = 0
              /\ GoOn(c, "again")
              /\ UNCHANGED <<idp, beat>>

\* A token that names no key gets any.
Has(k) == k \in keys \/ (k = NoKid /\ keys # {})

\* The second look, at whatever set is installed by now.
LookAgain(c) == /\ call[c].pc = "again"
                /\ GoOn(c, IF Has(call[c].kid) THEN "accepted" ELSE "refused")
                /\ UNCHANGED <<idp, cache, beat>>

Return(c) == /\ call[c].pc \in {"accepted", "refused"}
             /\ call' = [call EXCEPT ![c] = IdleCall]
             /\ UNCHANGED <<idp, cache, beat>>

-----------------------------------------------------------------------------
(* The identity provider, and time *)

Rotate(set) == /\ set # published
               /\ published' = set
               /\ gone' = [k \in Kids |-> IF k \in set THEN 0 ELSE gone[k]]
               /\ always' = always \cap set
               /\ UNCHANGED <<cache, beat, call>>

Older(n, bound) == IF n < bound THEN n + 1 ELSE n

Tick == /\ \A c \in Calls : call[c].pc = "idle" \/ (Waits(c) /\ call[c].waited < Timeout)
        /\ age' = Older(age, Lifetime + 1)
        /\ gone' = [k \in Kids |-> IF k \in published THEN 0 ELSE Older(gone[k], Horizon)]
        /\ call' = [c \in Calls |-> IF Waits(c) THEN [call[c] EXCEPT !.waited = @ + 1]
                                               ELSE call[c]]
        /\ beat' = 1 - beat
        /\ UNCHANGED <<published, always, keys>>

Proceed(c) == Answer(c) \/ Reject(c) \/ Install(c) \/ LookAgain(c) \/ Return(c)

Next == \/ \E c \in Calls : \/ \E k \in Tokens : Lookup(c, k)
                            \/ Proceed(c) \/ RequestFails(c)
        \/ \E set \in KeySets : Rotate(set)
        \/ Tick

Spec == Init /\ [][Next]_vars

\* Time never stops, requests go on, a token of every key is tried again and again,
\* and one day the provider leaves its keys alone and answers.
FairSpec ==
  /\ Spec
  /\ []<><<Tick>>_vars
  /\ \A c \in Calls : /\ WF_vars(Proceed(c))
                      /\ \A k \in Tokens \ {NoKid} : SF_vars(Lookup(c, k))
  /\ <>[][/\ \A c \in Calls : ~RequestFails(c)
          /\ \A set \in KeySets : ~Rotate(set)]_vars
  /\ <>[][\A c \in Calls : call'[c].pc = "answered" => call'[c].got # {}]_vars

-----------------------------------------------------------------------------
(* Properties *)

\* Types; and the cache, once filled, is never empty again.
TypeOK ==
  /\ published \in KeySets /\ always \subseteq published
  /\ gone \in [Kids -> 0 .. Horizon] /\ \A k \in published : gone[k] = 0
  /\ keys \subseteq Kids /\ age \in 0 .. Lifetime + 1 /\ beat \in 0 .. 1
  /\ keys = {} => age = Lifetime + 1
  /\ call \in [Calls -> [pc : PCs, kid : Tokens \cup {NoKid}, ok : BOOLEAN, failed : BOOLEAN,
                         got : SUBSET Kids, waited : 0 .. Timeout]]

\* A key the provider has dropped is accepted for no longer than the cache's lifetime and
\* one request to the provider, although a late answer may install an old set; only a
\* failing provider prolongs that.
DroppedKeysExpire ==
  \A c \in Calls : LET s == call[c] IN
    s.pc = "accepted" /\ s.kid # NoKid /\ ~s.failed => gone[s.kid] <= Lifetime + Timeout

\* A key that every published set has held is refused only while the cache has never been
\* filled: no refresh, failed, late or empty, takes such a key away.
SteadyKeysAreAccepted ==
  \A c \in Calls : LET s == call[c] IN
    s.pc = "refused" /\ s.kid \in always => s.failed /\ ~s.ok

\* No refresh brings back less than the keys that were always there.
SetsAreWhole ==
  /\ keys # {} => always \subseteq keys
  /\ \A c \in Calls : call[c].got # {} => always \subseteq call[c].got

\* A key in a fresh cache, or in an answer under way, was published not long ago.
SetsAreRecent ==
  /\ Fresh => \A k \in keys : gone[k] <= age + Timeout
  /\ \A c \in Calls : call[c].pc = "answered" =>
       \A k \in call[c].got : gone[k] <= call[c].waited

\* A call that has seen its key, or looks again, knows the cache to be filled; one that
\* looks again after its own refresh has spent no time since.
CallsAreSound ==
  \A c \in Calls : LET s == call[c] IN
    /\ s.ok \/ s.pc = "again" => keys # {}
    /\ s.pc = "again" /\ ~s.failed => age = 0

\* The inductive invariant under the two properties above.
IInv == /\ TypeOK /\ SetsAreWhole /\ SetsAreRecent /\ CallsAreSound
        /\ DroppedKeysExpire /\ SteadyKeysAreAccepted

\* Once the provider leaves its keys alone, requests are answered by exactly these, in
\* whatever order the last refreshes came.
CacheFollowsProvider ==
  \A k \in Kids :
    /\ <>[](k \in published) =>
         <>[](\A c \in Calls : call[c].kid = k => call[c].pc # "refused")
    /\ <>[](k \notin published) =>
         <>[](\A c \in Calls : call[c].kid = k => call[c].pc # "accepted")
=============================================================================
