------------------------ MODULE ProviderRouterProofs ------------------------
(***************************************************************************)
(* Theorems about ProviderRouter, for any number of providers and any       *)
(* finite set of requests in flight.                                        *)
(***************************************************************************)
EXTENDS ProviderRouter, FiniteSetTheorems, WellFoundedInduction, TLAPS

\* A nonempty set of providers has a least one.
LEMMA LeastProperty ==
    ASSUME NEW S, S \subseteq Nat, S # {}
    PROVE  Least(S) \in S /\ \A q \in S : Least(S) <= q
<1>1. \E p \in S : \A q \in S : ~(<<q, p>> \in OpToRel(<, Nat))
  BY NatLessThanWellFounded, WFMin
<1>2. PICK p \in S : \A q \in S : ~(<<q, p>> \in OpToRel(<, Nat))
  BY <1>1
<1>3. ASSUME NEW q \in S PROVE p <= q
  <2>1. SUFFICES ASSUME q < p PROVE FALSE
    OBVIOUS
  <2>2. <<q, p>> \in Nat \X Nat /\ <<q, p>>[1] < <<q, p>>[2]
    BY <2>1
  <2>3. <<q, p>> \in OpToRel(<, Nat)
    BY <2>2 DEF OpToRel
  <2> QED BY <1>2, <2>3
<1> QED BY <1>3 DEF Least

-----------------------------------------------------------------------------
(* The strengthening.  c is the state of one request. *)

ProvidersOK == providers # {} /\ (providers = {Mock} \/ providers \subseteq Real)

\* p comes before q in the order of an unnamed chat.
Precedes(p, q) == p = Default \/ (q # Default /\ p < q)

\* No provider is tried twice.
NoneTwice(c) ==
    /\ c.failed \cup c.replied \subseteq providers \ {Mock}
    /\ c.todo \cap (c.failed \cup c.replied) = {}
    /\ c.pc = "calling" => /\ c.current \in providers \ {Mock}
                           /\ c.current \notin c.todo \cup c.failed \cup c.replied
    /\ c.pc = "idle" => c = Idle

\* What is left of the walk over the providers, and what was seen of it.
Pending(c) == c.todo \cup (IF c.pc = "calling" THEN {c.current} ELSE {})

WholeWalk(c) ==
    c.pc \in {"choose", "calling"} =>
      /\ c.kind = "chat"   => c.failed \cup Pending(c) = providers
      /\ c.kind = "named"  => /\ c.failed \subseteq {c.name} /\ Pending(c) \subseteq {c.name}
                              /\ c.name \in providers => c.name \in c.failed \cup Pending(c)
      /\ c.kind = "health" => (c.failed \cup c.replied \cup Pending(c)) \ {Mock}
                              = providers \ {Mock}

InOrder(c) ==
    c.kind = "chat" =>
      /\ \A p \in c.failed, q \in c.todo : Precedes(p, q)
      /\ c.pc = "calling" => /\ \A q \in c.todo : Precedes(c.current, q)
                             /\ \A p \in c.failed : Precedes(p, c.current)

AnsweredOK(c) ==
    c.pc = "answered" =>
        /\ c.by \in providers
        /\ c.kind = "chat"  => c.failed = Before(c.by)
        /\ c.kind = "named" => c.by = c.name /\ c.failed = {}

WalkedOK(c) ==
    /\ c.pc = "refused" =>
         c.failed = IF c.kind = "named" THEN {c.name} \cap providers ELSE providers
    /\ c.pc = "reported" => c.failed \cup c.replied = providers \ {Mock}

WalkOK(c) == NoneTwice(c) /\ WholeWalk(c) /\ InOrder(c) /\ AnsweredOK(c) /\ WalkedOK(c)

RouterInv ==
    /\ RouterTypeOK
    /\ ProvidersOK
    /\ \A r \in Requests : WalkOK(chat[r])

-----------------------------------------------------------------------------

LEMMA DefaultProperty ==
    ASSUME RouterTypeOK, ProvidersOK
    PROVE  Default \in providers /\ providers \subseteq Nat
<1>1. providers \subseteq Nat
  BY LastAssumption DEF RouterTypeOK, Real, Mock
<1> QED BY <1>1, LeastProperty DEF Default, ProvidersOK

\* The turn of a walk that is not over.
LEMMA TurnProperty ==
    ASSUME RouterTypeOK, NEW r \in Requests, chat[r].todo # {}
    PROVE  /\ Turn(r) \in chat[r].todo
           /\ chat[r].kind = "chat" => \A q \in chat[r].todo \ {Turn(r)} : Precedes(Turn(r), q)
<1>1. chat[r].todo \subseteq Nat
  BY LastAssumption DEF RouterTypeOK, ChatState, Names, Real, Mock, Unknown
<1>2. /\ Least(chat[r].todo) \in chat[r].todo
      /\ \A q \in chat[r].todo : Least(chat[r].todo) <= q
  BY <1>1, LeastProperty
<1>3. \A q \in chat[r].todo \ {Least(chat[r].todo)} : Least(chat[r].todo) < q
  BY <1>1, <1>2
<1> QED BY <1>2, <1>3 DEF Turn, Precedes

\* A provider that answers an unnamed chat: those that failed are those before.
LEMMA FailedAreBefore ==
    ASSUME RouterTypeOK, ProvidersOK, NEW c \in ChatState, WalkOK(c),
           c.kind = "chat", c.pc = "calling"
    PROVE  c.failed = Before(c.current)
<1>0. PICK p : p = c.current
  OBVIOUS
<1>1. Default \in providers /\ providers \subseteq Nat
  BY DefaultProperty
<1>2. /\ p \in providers /\ p \notin c.failed /\ p \notin c.todo
      /\ c.failed \subseteq providers
      /\ c.failed \cup c.todo \cup {p} = providers
      /\ \A q \in c.todo : Precedes(p, q)
      /\ \A q \in c.failed : Precedes(q, p)
  BY <1>0 DEF WalkOK, NoneTwice, WholeWalk, InOrder, Pending
<1>3. ASSUME NEW q \in c.failed PROVE q \in Before(p)
  BY <1>1, <1>2, <1>3 DEF Precedes, Before
<1>4. ASSUME NEW q \in Before(p) PROVE q \in c.failed
  <2>1. q \in providers /\ q # p /\ p # Default /\ (q = Default \/ q < p)
    BY <1>1, <1>2, <1>4 DEF Before
  <2>2. SUFFICES ASSUME q \in c.todo PROVE FALSE
    BY <1>2, <2>1
  <2>3. Precedes(p, q)
    BY <1>2, <2>2
  <2> QED BY <1>1, <1>2, <2>1, <2>3 DEF Precedes
<1> QED BY <1>0, <1>3, <1>4

-----------------------------------------------------------------------------
(* Only one request moves in a step, and it keeps what is true of a walk. *)

\* What is true of a walk does not depend on the step around it.
LEMMA SameWalk ==
    ASSUME NEW q \in Requests, WalkOK(chat'[q]), providers' = providers
    PROVE  (WalkOK(chat[q]))'
<1>1. Default' = Default
  BY DEF Default
<1> DEFINE d == chat'[q]
<1>2. NoneTwice(d) /\ WholeWalk(d) /\ InOrder(d) /\ AnsweredOK(d) /\ WalkedOK(d)
  BY DEF WalkOK
<1>3. (NoneTwice(chat[q]))' /\ (WalkedOK(chat[q]))'
  BY <1>2 DEF NoneTwice, WalkedOK
<1>4. (WholeWalk(chat[q]))'
  BY <1>2 DEF WholeWalk, Pending
<1>5. (InOrder(chat[q]))'
  BY <1>1, <1>2 DEF InOrder, Precedes
<1>6. (AnsweredOK(chat[q]))'
  BY <1>1, <1>2 DEF AnsweredOK, Before
<1> QED BY <1>3, <1>4, <1>5, <1>6 DEF WalkOK

LEMMA OneMoves ==
    ASSUME RouterInv, NEW r \in Requests, WalkOK(chat'[r]),
           chat' \in [Requests -> ChatState],
           \A q \in Requests \ {r} : chat'[q] = chat[q],
           providers' = providers,
           calls' \in [Names -> Nat], errors' \in [Names -> Nat]
    PROVE  RouterInv'
<1>2. RouterTypeOK' /\ ProvidersOK'
  BY DEF RouterInv, RouterTypeOK, ProvidersOK
<1>3. \A q \in Requests : WalkOK(chat'[q])
  BY DEF RouterInv
<1>4. \A q \in Requests : (WalkOK(chat[q]))'
  BY <1>3, SameWalk
<1> QED BY <1>2, <1>4 DEF RouterInv

LEMMA AsksKeeps ==
    ASSUME RouterInv, NEW r \in Requests, Asked(r)
    PROVE  RouterInv'
<1>1. PICK kind \in {"chat", "named", "health"}, name \in Names \cup {Unknown},
           todo \in {providers} \cup {{n} : n \in Names \cup {Unknown}} :
        /\ Asks(r, kind, name, todo)
        /\ kind = "named" => todo = {name}
        /\ kind # "named" => todo = providers
  BY DEF Asked, Chat, NamedChat, HealthChecks, Names
<1> DEFINE c == [Idle EXCEPT !.pc = "choose", !.kind = kind, !.name = name, !.todo = todo]
<1>2. /\ c.pc = "choose" /\ c.kind = kind /\ c.name = name /\ c.todo = todo
      /\ c.failed = {} /\ c.replied = {}
  BY DEF Idle
<1>3. providers \subseteq Names
  BY DEF RouterInv, RouterTypeOK, Names
<1>4. c \in ChatState
  <2>1. Idle \in ChatState
    BY DEF Idle, ChatState, ChatPC, Names
  <2>2. todo \in SUBSET (Names \cup {Unknown})
    BY <1>1, <1>3
  <2> QED BY <2>1, <2>2 DEF ChatState, ChatPC
<1>5. WalkOK(c)
  BY <1>1, <1>2 DEF WalkOK, NoneTwice, WholeWalk, InOrder, AnsweredOK, WalkedOK, Pending
<1>6. chat' = [chat EXCEPT ![r] = c] /\ UNCHANGED <<providers, calls, errors>>
  BY <1>1 DEF Asks
<1> HIDE DEF c
<1>7. /\ calls' \in [Names -> Nat] /\ errors' \in [Names -> Nat]
      /\ chat' \in [Requests -> ChatState]
      /\ chat'[r] = c
      /\ \A q \in Requests \ {r} : chat'[q] = chat[q]
  BY <1>4, <1>6 DEF RouterInv, RouterTypeOK
<1> QED BY <1>5, <1>6, <1>7, OneMoves

LEMMA TryNextKeeps ==
    ASSUME RouterInv, NEW r \in Requests, TryNext(r)
    PROVE  RouterInv'
<1> DEFINE c == chat[r]
           d == chat'[r]
           p == Turn(r)
           mocked == p = Mock /\ p \in providers /\ c.kind # "health"
<1>1. /\ c \in ChatState /\ WalkOK(c) /\ c.pc = "choose" /\ c.todo # {}
      /\ RouterTypeOK /\ ProvidersOK
  BY DEF RouterInv, RouterTypeOK, TryNext
<1>2. /\ p \in c.todo /\ p \in Names \cup {Unknown}
      /\ c.kind = "chat" => \A q \in c.todo \ {p} : Precedes(p, q)
  BY <1>1, TurnProperty DEF ChatState
<1> HIDE DEF p
<1>3. /\ d.todo = c.todo \ {p} /\ d.current = p
      /\ d.pc = IF mocked THEN "answered"
                ELSE IF p \in providers \ {Mock} THEN "calling" ELSE c.pc
      /\ d.by = IF mocked THEN p ELSE c.by
      /\ d.failed = c.failed /\ d.replied = c.replied
      /\ d.kind = c.kind /\ d.name = c.name
  BY <1>1 DEF TryNext, RouterTypeOK, ChatState, p
<1>4. chat' \in [Requests -> ChatState]
  <2> DEFINE where == IF mocked THEN "answered"
                      ELSE IF p \in providers \ {Mock} THEN "calling" ELSE "choose"
             whom  == IF mocked THEN p ELSE c.by
  <2>1. /\ where \in ChatPC
        /\ whom \in Names \cup {Unknown}
        /\ c.todo \ {p} \in SUBSET (Names \cup {Unknown})
    BY <1>1, <1>2 DEF ChatState, ChatPC
  <2>2. chat' = [chat EXCEPT ![r].todo = c.todo \ {p}, ![r].current = p,
                             ![r].pc = where, ![r].by = whom]
    BY <1>1 DEF TryNext, RouterTypeOK, ChatState, p
  <2> HIDE DEF where, whom
  <2> QED BY <1>1, <1>2, <2>1, <2>2 DEF RouterTypeOK, ChatState
<1>5. \A q \in Requests \ {r} : chat'[q] = chat[q]
  BY DEF TryNext, RouterInv, RouterTypeOK
<1>6. UNCHANGED <<providers, calls, errors>>
  BY DEF TryNext
<1>7. NoneTwice(d)
  BY <1>1, <1>2, <1>3 DEF WalkOK, NoneTwice
<1>8. WholeWalk(d)
  <2>1. CASE c.kind = "chat"
    BY <1>1, <1>2, <1>3, <2>1 DEF WalkOK, NoneTwice, WholeWalk, Pending, ProvidersOK
  <2>2. CASE c.kind = "named"
    BY <1>1, <1>2, <1>3, <2>2 DEF WalkOK, NoneTwice, WholeWalk, Pending
  <2>3. CASE c.kind = "health"
    BY <1>1, <1>2, <1>3, <2>3 DEF WalkOK, NoneTwice, WholeWalk, Pending
  <2> QED BY <1>1, <2>1, <2>2, <2>3 DEF ChatState
<1>9. InOrder(d)
  BY <1>1, <1>2, <1>3 DEF WalkOK, InOrder
<1>10. AnsweredOK(d)
  <2>1. SUFFICES ASSUME mocked PROVE AnsweredOK(d)
    BY <1>1, <1>3 DEF AnsweredOK
  <2>2. providers = {Mock} /\ d.failed = {} /\ d.by = Mock
    BY <1>1, <1>3, <2>1, LastAssumption DEF ProvidersOK, Real, Mock, WalkOK, NoneTwice
  <2>3. Default = Mock
    BY <1>1, <2>2, DefaultProperty
  <2>4. c.kind = "named" => c.name = Mock
    BY <1>1, <1>2, <2>1 DEF WalkOK, WholeWalk, Pending
  <2> QED BY <1>3, <2>2, <2>3, <2>4 DEF AnsweredOK, Before
<1>11. WalkedOK(d)
  BY <1>1, <1>3 DEF WalkedOK
<1>12. WalkOK(d)
  BY <1>7, <1>8, <1>9, <1>10, <1>11 DEF WalkOK
<1>13. calls' \in [Names -> Nat] /\ errors' \in [Names -> Nat]
  BY <1>1, <1>6 DEF RouterTypeOK
<1> QED BY <1>4, <1>5, <1>6, <1>12, <1>13, OneMoves

LEMMA GiveUpKeeps ==
    ASSUME RouterInv, NEW r \in Requests, GiveUp(r)
    PROVE  RouterInv'
<1> DEFINE c == chat[r]
           d == chat'[r]
<1>1. c \in ChatState /\ WalkOK(c) /\ c.pc = "choose" /\ c.todo = {} /\ RouterTypeOK
  BY DEF RouterInv, RouterTypeOK, GiveUp
<1>2. /\ d.pc = IF c.kind = "health" THEN "reported" ELSE "refused"
      /\ d.todo = {} /\ d.failed = c.failed /\ d.replied = c.replied
      /\ d.kind = c.kind /\ d.name = c.name
  BY <1>1 DEF GiveUp, RouterTypeOK, ChatState
<1>3. /\ chat' \in [Requests -> ChatState]
      /\ \A q \in Requests \ {r} : chat'[q] = chat[q]
      /\ calls' \in [Names -> Nat] /\ errors' \in [Names -> Nat]
      /\ providers' = providers
  BY <1>1 DEF GiveUp, RouterTypeOK, ChatState, ChatPC
<1>4. NoneTwice(d) /\ WholeWalk(d) /\ InOrder(d) /\ AnsweredOK(d)
  BY <1>1, <1>2 DEF WalkOK, NoneTwice, WholeWalk, InOrder, AnsweredOK
<1>5. WalkedOK(d)
  <2>1. CASE c.kind = "chat"
    BY <1>1, <1>2, <2>1 DEF WalkOK, WholeWalk, Pending, WalkedOK
  <2>2. CASE c.kind = "named"
    BY <1>1, <1>2, <2>2 DEF WalkOK, NoneTwice, WholeWalk, Pending, WalkedOK
  <2>3. CASE c.kind = "health"
    BY <1>1, <1>2, <2>3 DEF WalkOK, NoneTwice, WholeWalk, Pending, WalkedOK
  <2> QED BY <1>1, <2>1, <2>2, <2>3 DEF ChatState
<1>6. WalkOK(d)
  BY <1>4, <1>5 DEF WalkOK
<1> QED BY <1>3, <1>6, OneMoves

\* What a call that ends leaves of the walk: p failed it, or replied to it.
LEMMA RepliedKeeps ==
    ASSUME RouterInv, NEW r \in Requests, Replied(r)
    PROVE  RouterInv'
<1> DEFINE c == chat[r]
           d == chat'[r]
           p == c.current
<1>1. /\ c \in ChatState /\ WalkOK(c) /\ c.pc = "calling"
      /\ RouterTypeOK /\ ProvidersOK
  BY DEF RouterInv, RouterTypeOK, Replied, Answer, Fail, Unusable
<1>2. /\ p \in Real /\ p \in providers \ {Mock} /\ p \in Names
      /\ p \notin c.todo \cup c.failed \cup c.replied
  BY <1>1, LastAssumption DEF WalkOK, NoneTwice, ProvidersOK, Names
<1>3. /\ chat' \in [Requests -> ChatState]
      /\ \A q \in Requests \ {r} : chat'[q] = chat[q]
      /\ providers' = providers
      /\ calls' \in [Names -> Nat] /\ errors' \in [Names -> Nat]
  BY <1>1, <1>2 DEF Replied, Answer, Fail, Unusable, Counts, RouterTypeOK, ChatState, ChatPC
<1>4. /\ d.todo = c.todo /\ d.kind = c.kind /\ d.name = c.name /\ d.current = p
  BY <1>1 DEF Replied, Answer, Fail, Unusable, RouterTypeOK, ChatState
<1>5. CASE Answer(r) /\ c.kind # "health"
  <2>1. /\ d.pc = "answered" /\ d.by = p
        /\ d.failed = c.failed /\ d.replied = c.replied \cup {p}
    BY <1>1, <1>5 DEF Answer, RouterTypeOK, ChatState
  <2>2. NoneTwice(d) /\ WholeWalk(d) /\ InOrder(d) /\ WalkedOK(d)
    BY <1>1, <1>2, <1>4, <2>1 DEF WalkOK, NoneTwice, WholeWalk, InOrder, WalkedOK
  <2>3. c.kind = "named" => p = c.name /\ c.failed = {}
    BY <1>1, <1>2 DEF WalkOK, NoneTwice, WholeWalk, Pending
  <2>4. c.kind = "chat" => c.failed = Before(p)
    BY <1>1, FailedAreBefore
  <2>5. AnsweredOK(d)
    BY <1>2, <1>4, <2>1, <2>3, <2>4 DEF AnsweredOK
  <2> QED BY <1>3, <2>2, <2>5, OneMoves DEF WalkOK
<1>6. CASE ~(Answer(r) /\ c.kind # "health")
  <2>1. /\ d.pc = "choose"
        /\ d.failed \cup d.replied = c.failed \cup c.replied \cup {p}
        /\ c.kind # "health" => d.failed = c.failed \cup {p}
        /\ d.failed \subseteq c.failed \cup {p}
    BY <1>1, <1>6 DEF Replied, Answer, Fail, Unusable, RouterTypeOK, ChatState
  <2>2. NoneTwice(d) /\ AnsweredOK(d) /\ WalkedOK(d)
    BY <1>1, <1>2, <1>4, <2>1 DEF WalkOK, NoneTwice, AnsweredOK, WalkedOK
  <2>3. WholeWalk(d)
    <3>1. CASE c.kind = "chat"
      BY <1>1, <1>2, <1>4, <2>1, <3>1 DEF WalkOK, WholeWalk, Pending
    <3>2. CASE c.kind = "named"
      BY <1>1, <1>2, <1>4, <2>1, <3>2 DEF WalkOK, WholeWalk, Pending
    <3>3. CASE c.kind = "health"
      <4>1. (d.failed \cup d.replied \cup d.todo) \ {Mock}
            = (c.failed \cup c.replied \cup (c.todo \cup {p})) \ {Mock}
        BY <1>4, <2>1
      <4>2. (c.failed \cup c.replied \cup (c.todo \cup {p})) \ {Mock} = providers \ {Mock}
        BY <1>1, <3>3 DEF WalkOK, WholeWalk, Pending
      <4> QED BY <1>4, <2>1, <3>3, <4>1, <4>2 DEF WholeWalk, Pending
    <3> QED BY <1>1, <3>1, <3>2, <3>3 DEF ChatState
  <2>4. InOrder(d)
    BY <1>1, <1>2, <1>4, <2>1 DEF WalkOK, InOrder
  <2> QED BY <1>3, <2>2, <2>3, <2>4, OneMoves DEF WalkOK
<1> QED BY <1>5, <1>6

LEMMA AbandonKeeps ==
    ASSUME RouterInv, NEW r \in Requests, Abandon(r)
    PROVE  RouterInv'
<1> DEFINE c == chat[r]
           d == chat'[r]
<1>1. c \in ChatState /\ WalkOK(c) /\ RouterTypeOK
  BY DEF RouterInv, RouterTypeOK
<1>2. /\ d.pc = "cancelled" /\ d.todo = c.todo /\ d.kind = c.kind
      /\ d.failed = c.failed /\ d.replied = c.replied
  BY <1>1 DEF Abandon, RouterTypeOK, ChatState
<1>3. /\ chat' \in [Requests -> ChatState]
      /\ \A q \in Requests \ {r} : chat'[q] = chat[q]
      /\ providers' = providers
      /\ calls' \in [Names -> Nat] /\ errors' \in [Names -> Nat]
  BY <1>1 DEF Abandon, RouterTypeOK, ChatState, ChatPC
<1>4. WalkOK(d)
  BY <1>1, <1>2 DEF WalkOK, NoneTwice, WholeWalk, InOrder, AnsweredOK, WalkedOK
<1> QED BY <1>3, <1>4, OneMoves

-----------------------------------------------------------------------------

LEMMA InitInv == RouterInit => RouterInv
<1> SUFFICES ASSUME RouterInit PROVE RouterInv
  OBVIOUS
<1>1. Idle \in ChatState
  BY DEF Idle, ChatState, ChatPC, Names
<1>2. RouterTypeOK
  BY <1>1 DEF RouterInit, RouterTypeOK
<1>3. ProvidersOK
  BY DEF RouterInit, ProvidersOK
<1>4. WalkOK(Idle)
  BY DEF Idle, WalkOK, NoneTwice, WholeWalk, InOrder, AnsweredOK, WalkedOK
<1> QED BY <1>2, <1>3, <1>4 DEF RouterInit, RouterInv

LEMMA NextInv == RouterInv /\ [RouterNext]_routerVars => RouterInv'
<1> SUFFICES ASSUME RouterInv, [RouterNext]_routerVars PROVE RouterInv'
  OBVIOUS
<1>1. CASE UNCHANGED routerVars
  <2>1. /\ RouterTypeOK' /\ ProvidersOK' /\ Default' = Default
        /\ chat' = chat /\ providers' = providers
    BY <1>1 DEF routerVars, RouterInv, RouterTypeOK, ProvidersOK, Default
  <2>2. ASSUME NEW r \in Requests PROVE (WalkOK(chat[r]))'
    BY <2>1, SameWalk DEF RouterInv
  <2> QED BY <2>1, <2>2 DEF RouterInv
<1>2. ASSUME NEW r \in Requests, Asked(r) PROVE RouterInv'
  BY <1>2, AsksKeeps
<1>3. ASSUME NEW r \in Requests, TryNext(r) PROVE RouterInv'
  BY <1>3, TryNextKeeps
<1>4. ASSUME NEW r \in Requests, GiveUp(r) PROVE RouterInv'
  BY <1>4, GiveUpKeeps
<1>5. ASSUME NEW r \in Requests, Replied(r) PROVE RouterInv'
  BY <1>5, RepliedKeeps
<1>6. ASSUME NEW r \in Requests, Abandon(r) PROVE RouterInv'
  BY <1>6, AbandonKeeps
<1> QED BY <1>1, <1>2, <1>3, <1>4, <1>5, <1>6 DEF RouterNext

LEMMA AlwaysInv == RouterSpec => []RouterInv
  BY InitInv, NextInv, PTL DEF RouterSpec

\* The variables keep their types: statistics stay natural numbers for every
\* request in flight (ProviderRouter).
THEOREM RouterTypeCorrect == RouterSpec => []RouterTypeOK
  BY AlwaysInv, PTL DEF RouterInv

\* ProviderRouter.chat: an answer is that of the first provider of the order
\* that did not fail, and never that of another than the one named.
THEOREM FirstAnswers == RouterSpec => []FirstThatAnswers
<1>1. RouterInv => FirstThatAnswers
  BY DEF RouterInv, WalkOK, AnsweredOK, FirstThatAnswers
<1> QED BY <1>1, AlwaysInv, PTL

\* A refusal and a health report have been through every provider.
THEOREM NoneSkipped == RouterSpec => []NoProviderSkipped
<1>1. RouterInv => NoProviderSkipped
  BY DEF RouterInv, WalkOK, WalkedOK, NoProviderSkipped
<1> QED BY <1>1, AlwaysInv, PTL

-----------------------------------------------------------------------------
(* The statistics *)

FailedBy(p)  == {r \in Requests : p \in chat[r].failed}
RepliedBy(p) == {r \in Requests : p \in chat[r].replied}

\* A set of requests that gains r, or nothing.
LEMMA OneMore ==
    ASSUME NEW S, S \subseteq Requests, NEW r \in Requests \ S
    PROVE  Cardinality(S \cup {r}) = Cardinality(S) + 1
  BY RequestsAssumption, FS_Subset, FS_AddElement

LEMMA FiniteRequests ==
    ASSUME NEW S, S \subseteq Requests
    PROVE  Cardinality(S) \in Nat
  BY RequestsAssumption, FS_Subset, FS_CardinalityType

\* A step that changes no history changes no statistics either.
LEMMA StatsUnchanged ==
    ASSUME StatsAddUp, UNCHANGED <<calls, errors>>,
           \A q \in Requests : /\ chat'[q].failed = chat[q].failed
                               /\ chat'[q].replied = chat[q].replied
    PROVE  StatsAddUp'
<1>1. \A p \in Names : FailedBy(p)' = FailedBy(p) /\ RepliedBy(p)' = RepliedBy(p)
  BY DEF FailedBy, RepliedBy
<1> QED BY <1>1 DEF StatsAddUp, FailedBy, RepliedBy

\* The call of the current provider counts for what became of it.
LEMMA StatsCount ==
    ASSUME RouterInv, StatsAddUp, NEW r \in Requests, Replied(r)
    PROVE  StatsAddUp'
<1> DEFINE c == chat[r]
           d == chat'[r]
<1>0. PICK p : p = c.current
  OBVIOUS
<1>1. /\ p \in Names /\ p \notin c.failed /\ p \notin c.replied
      /\ RouterTypeOK /\ c \in ChatState
  BY <1>0 DEF RouterInv, RouterTypeOK, WalkOK, NoneTwice, Replied, Answer, Fail, Unusable, Names
<1>2. \A q \in Requests \ {r} : chat'[q] = chat[q]
  BY <1>1 DEF Replied, Answer, Fail, Unusable, RouterTypeOK
<1>3. \A q \in Names : /\ Cardinality(FailedBy(q)) \in Nat
                       /\ Cardinality(RepliedBy(q)) \in Nat
  BY FiniteRequests DEF FailedBy, RepliedBy
<1>4. /\ errors[p] = Cardinality(FailedBy(p))
      /\ calls[p] = errors[p] + Cardinality(RepliedBy(p))
  BY <1>1 DEF StatsAddUp, FailedBy, RepliedBy
<1>5. \E s, f \in {0, 1} :
        /\ d.failed = IF f = 1 THEN c.failed \cup {p} ELSE c.failed
        /\ d.replied = IF s = 1 THEN c.replied \cup {p} ELSE c.replied
        /\ Counts(p, s + f, f)
  <2>1. CASE Answer(r)
    <3>1. d.failed = c.failed /\ d.replied = c.replied \cup {p} /\ Counts(p, 1 + 0, 0)
      BY <1>0, <1>1, <2>1 DEF Answer, RouterTypeOK, ChatState
    <3> QED BY <3>1
  <2>2. CASE Fail(r)
    <3>1. d.failed = c.failed \cup {p} /\ d.replied = c.replied /\ Counts(p, 0 + 1, 1)
      BY <1>0, <1>1, <2>2 DEF Fail, RouterTypeOK, ChatState
    <3> QED BY <3>1
  <2>3. CASE Unusable(r)
    <3>1. d.failed = c.failed \cup {p} /\ d.replied = c.replied \cup {p} /\ Counts(p, 1 + 1, 1)
      BY <1>0, <1>1, <2>3 DEF Unusable, RouterTypeOK, ChatState
    <3> QED BY <3>1
  <2> QED BY <2>1, <2>2, <2>3 DEF Replied
<1>6. PICK s \in {0, 1}, f \in {0, 1} :
        /\ d.failed = IF f = 1 THEN c.failed \cup {p} ELSE c.failed
        /\ d.replied = IF s = 1 THEN c.replied \cup {p} ELSE c.replied
        /\ Counts(p, s + f, f)
  BY <1>5
<1>7. /\ FailedBy(p)' = IF f = 1 THEN FailedBy(p) \cup {r} ELSE FailedBy(p)
      /\ RepliedBy(p)' = IF s = 1 THEN RepliedBy(p) \cup {r} ELSE RepliedBy(p)
  BY <1>2, <1>6 DEF FailedBy, RepliedBy
<1>8. r \notin FailedBy(p) /\ r \notin RepliedBy(p)
  BY <1>1 DEF FailedBy, RepliedBy
<1>9. /\ Cardinality(FailedBy(p)') = Cardinality(FailedBy(p)) + f
      /\ Cardinality(RepliedBy(p)') = Cardinality(RepliedBy(p)) + s
  <2>1. FailedBy(p) \subseteq Requests /\ RepliedBy(p) \subseteq Requests
    BY DEF FailedBy, RepliedBy
  <2>2. /\ Cardinality(FailedBy(p) \cup {r}) = Cardinality(FailedBy(p)) + 1
        /\ Cardinality(RepliedBy(p) \cup {r}) = Cardinality(RepliedBy(p)) + 1
    BY <1>8, <2>1, OneMore
  <2> QED BY <1>1, <1>3, <1>6, <1>7, <2>2
<1>10. errors'[p] = errors[p] + f /\ calls'[p] = calls[p] + (s + f)
  BY <1>1, <1>6 DEF Counts, RouterTypeOK
<1>11. ASSUME NEW q \in Names \ {p}
       PROVE  /\ errors'[q] = errors[q] /\ calls'[q] = calls[q]
              /\ FailedBy(q)' = FailedBy(q) /\ RepliedBy(q)' = RepliedBy(q)
  <2>1. errors'[q] = errors[q] /\ calls'[q] = calls[q]
    BY <1>1, <1>6 DEF Counts, RouterTypeOK
  <2>2. FailedBy(q)' = FailedBy(q) /\ RepliedBy(q)' = RepliedBy(q)
    BY <1>2, <1>6 DEF FailedBy, RepliedBy
  <2> QED BY <2>1, <2>2
<1>12. \A q \in Names : /\ errors'[q] = Cardinality(FailedBy(q)')
                        /\ calls'[q] = errors'[q] + Cardinality(RepliedBy(q)')
  <2>1. /\ errors'[p] = Cardinality(FailedBy(p)')
        /\ calls'[p] = errors'[p] + Cardinality(RepliedBy(p)')
    BY <1>1, <1>3, <1>4, <1>6, <1>9, <1>10
  <2>2. ASSUME NEW q \in Names \ {p}
        PROVE  /\ errors'[q] = Cardinality(FailedBy(q)')
               /\ calls'[q] = errors'[q] + Cardinality(RepliedBy(q)')
    BY <1>11 DEF StatsAddUp, FailedBy, RepliedBy
  <2> QED BY <2>1, <2>2
<1> QED BY <1>12 DEF StatsAddUp, FailedBy, RepliedBy

\* _record_call: errors are the requests a provider failed, calls less errors
\* the replies its server delivered, for any providers and requests.
THEOREM StatsAlwaysAddUp == RouterSpec => []StatsAddUp
<1>1. RouterInit => StatsAddUp
  <2> SUFFICES ASSUME RouterInit, NEW p \in Names
               PROVE  /\ errors[p] = Cardinality(FailedBy(p))
                      /\ calls[p] = errors[p] + Cardinality(RepliedBy(p))
    BY DEF StatsAddUp, FailedBy, RepliedBy
  <2>1. FailedBy(p) = {} /\ RepliedBy(p) = {}
    BY DEF RouterInit, Idle, FailedBy, RepliedBy
  <2> QED BY <2>1, FS_EmptySet DEF RouterInit
<1>2. RouterInv /\ StatsAddUp /\ [RouterNext]_routerVars => StatsAddUp'
  <2> SUFFICES ASSUME RouterInv, StatsAddUp, [RouterNext]_routerVars PROVE StatsAddUp'
    OBVIOUS
  <2>1. CASE UNCHANGED routerVars
    BY <2>1, StatsUnchanged DEF routerVars
  <2>2. ASSUME NEW r \in Requests, Asked(r) PROVE StatsAddUp'
    <3>1. chat[r].failed = {} /\ chat[r].replied = {}
      <4>1. chat[r].pc = "idle"
        BY <2>2 DEF Asked, Chat, NamedChat, HealthChecks, Asks
      <4>2. chat[r] = Idle
        BY <4>1 DEF RouterInv, WalkOK, NoneTwice
      <4> QED BY <4>2 DEF Idle
    <3>2. /\ UNCHANGED <<calls, errors>>
          /\ chat'[r].failed = {} /\ chat'[r].replied = {}
          /\ \A q \in Requests \ {r} : chat'[q] = chat[q]
      BY <2>2 DEF Asked, Chat, NamedChat, HealthChecks, Asks, Idle, RouterInv, RouterTypeOK
    <3> QED BY <3>1, <3>2, StatsUnchanged
  <2>3. ASSUME NEW r \in Requests, TryNext(r) \/ GiveUp(r) \/ Abandon(r) PROVE StatsAddUp'
    <3>1. /\ UNCHANGED <<calls, errors>>
          /\ chat'[r].failed = chat[r].failed /\ chat'[r].replied = chat[r].replied
          /\ \A q \in Requests \ {r} : chat'[q] = chat[q]
      BY <2>3 DEF TryNext, GiveUp, Abandon, RouterInv, RouterTypeOK, ChatState
    <3> QED BY <3>1, StatsUnchanged
  <2>4. ASSUME NEW r \in Requests, Replied(r) PROVE StatsAddUp'
    BY <2>4, StatsCount
  <2> QED BY <2>1, <2>2, <2>3, <2>4 DEF RouterNext
<1> QED BY <1>1, <1>2, AlwaysInv, PTL DEF RouterSpec
=============================================================================
