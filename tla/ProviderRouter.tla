--------------------------- MODULE ProviderRouter ---------------------------
(***************************************************************************)
(* services/provider_router.py: one router for every language model the     *)
(* runtime is configured with.  A chat that names no provider goes to the   *)
(* default and, when that fails, to the others in the order of              *)
(* _init_providers; a chat that names one goes to that one only.  Each      *)
(* provider counts its calls and its errors.  The requests of several       *)
(* clients wait for their answers side by side on one event loop.           *)
(***************************************************************************)
EXTENDS Naturals, FiniteSets

CONSTANTS
    Last,       \* providers are numbered by their place in _init_providers, 1..Last
    Preferred,  \* DEFAULT_PROVIDER
    Lenient,    \* providers whose reply can be found unusable after it was counted
    Requests    \* chats and health checks in flight

ASSUME LastAssumption == Last \in Nat \ {0}
ASSUME RequestsAssumption == IsFiniteSet(Requests)

Real     == 1..Last
Mock     == 0
Unknown  == Last + 1    \* a name no configuration has
Names    == Real \cup {Mock}

VARIABLES
    providers,  \* _providers: the names, fixed when the process starts
    calls,      \* total_calls of each provider
    errors,     \* total_errors of each provider
    chat        \* the state of each request, and its history

routerVars == <<providers, calls, errors, chat>>

\* failed: the providers that failed this request; replied: those whose server
\* delivered a reply to it.
Idle == [pc |-> "idle", kind |-> "chat", name |-> Mock, todo |-> {},
         current |-> Mock, by |-> Unknown,
         failed |-> {}, replied |-> {}]

Least(S) == CHOOSE p \in S : \A q \in S : p <= q
Default  == IF Preferred \in providers THEN Preferred ELSE Least(providers)

RouterInit ==
    /\ \/ providers \in (SUBSET Real) \ {{}}
       \/ providers = {Mock}
    /\ calls = [p \in Names |-> 0] /\ errors = [p \in Names |-> 0]
    /\ chat = [r \in Requests |-> Idle]

-----------------------------------------------------------------------------
(* Requests *)

Asks(r, kind, name, todo) ==
    /\ chat[r].pc = "idle"
    /\ chat' = [chat EXCEPT ![r] = [Idle EXCEPT !.pc = "choose",
                  !.kind = kind, !.name = name, !.todo = todo]]
    /\ UNCHANGED <<providers, calls, errors>>

Chat(r)         == Asks(r, "chat", Mock, providers)
NamedChat(r)    == \E n \in Names \cup {Unknown} : Asks(r, "named", n, {n})
HealthChecks(r) == Asks(r, "health", Mock, providers)

\* Mutant: the fallbacks are tried before the default.
InListOrder(r) == Least(chat[r].todo)

\* The provider whose turn it is.
Turn(r) ==
    IF chat[r].kind = "chat" /\ Default \in chat[r].todo
    THEN Default ELSE Least(chat[r].todo)

\* Mutant: get_provider does not look the name up.
TryUnchecked(r) ==
    /\ chat[r].pc = "choose" /\ chat[r].todo # {}
    /\ chat' = [chat EXCEPT ![r].todo = @ \ {Turn(r)}, ![r].current = Turn(r),
                            ![r].pc = "calling"]
    /\ UNCHANGED <<providers, calls, errors>>

\* get_provider refuses a name that is not configured; the mock answers, and
\* is healthy, without a call; any other provider is awaited.
TryNext(r) ==
    /\ chat[r].pc = "choose" /\ chat[r].todo # {}
    /\ LET p == Turn(r)
           mocked == p = Mock /\ p \in providers /\ chat[r].kind # "health"
       IN chat' = [chat EXCEPT
            ![r].todo = @ \ {p},
            ![r].current = p,
            ![r].pc = IF mocked THEN "answered"
                      ELSE IF p \in providers \ {Mock} THEN "calling" ELSE @,
            ![r].by = IF mocked THEN p ELSE @]
    /\ UNCHANGED <<providers, calls, errors>>

\* No provider is left: chat raises, the health report is complete.
GiveUp(r) ==
    /\ chat[r].pc = "choose" /\ chat[r].todo = {}
    /\ chat' = [chat EXCEPT ![r].pc =
                  IF chat[r].kind = "health" THEN "reported" ELSE "refused"]
    /\ UNCHANGED <<providers, calls, errors>>

-----------------------------------------------------------------------------
(* The call of a provider: <provider>.chat from its reply on.  _record_call  *)
(* and the router's next choice run without an await in between.             *)

Counts(p, made, failed) ==
    /\ calls'  = [calls  EXCEPT ![p] = @ + made]
    /\ errors' = [errors EXCEPT ![p] = @ + failed]

\* A good reply ends a chat; a health check goes on to the next provider.
Answer(r) ==
    LET p == chat[r].current IN
    /\ chat[r].pc = "calling"
    /\ Counts(p, 1, 0)
    /\ chat' = [chat EXCEPT
         ![r].pc = IF chat[r].kind = "health" THEN "choose" ELSE "answered",
         ![r].by = IF chat[r].kind = "health" THEN @ ELSE p,
         ![r].replied = @ \cup {p}]
    /\ UNCHANGED providers

\* Mutant: a call that raised leaves the loop.
FailEnds(r) ==
    LET p == chat[r].current IN
    /\ chat[r].pc = "calling"
    /\ Counts(p, 1, 1)
    /\ chat' = [chat EXCEPT ![r].todo = {}, ![r].pc = "choose",
                            ![r].failed = @ \cup {p}]
    /\ UNCHANGED providers

\* Mutant: a provider that failed is tried again.
FailRetries(r) ==
    LET p == chat[r].current IN
    /\ chat[r].pc = "calling"
    /\ chat' = [chat EXCEPT ![r].pc = "choose", ![r].todo = @ \cup {p}]
    /\ UNCHANGED <<providers, calls, errors>>

\* A timeout, a connection error, an error status or an unreadable body.
Fail(r) ==
    LET p == chat[r].current IN
    /\ chat[r].pc = "calling"
    /\ Counts(p, 1, 1)
    /\ chat' = [chat EXCEPT ![r].pc = "choose", ![r].failed = @ \cup {p}]
    /\ UNCHANGED providers

\* Mutant: the error of an unusable reply is not counted.
UnusableUncounted(r) ==
    LET p == chat[r].current IN
    /\ chat[r].pc = "calling" /\ p \in Lenient
    /\ Counts(p, 2, 0)
    /\ chat' = [chat EXCEPT ![r].pc = "choose", ![r].failed = @ \cup {p},
                            ![r].replied = @ \cup {p}]
    /\ UNCHANGED providers

\* The reply arrived and was counted, then it turned out unusable (a token
\* count, "usage" or "model" is null): the handler counts a second, failed call.
Unusable(r) ==
    LET p == chat[r].current IN
    /\ chat[r].pc = "calling" /\ p \in Lenient
    /\ Counts(p, 2, 1)
    /\ chat' = [chat EXCEPT ![r].pc = "choose", ![r].failed = @ \cup {p},
                            ![r].replied = @ \cup {p}]
    /\ UNCHANGED providers

\* The coroutine is cancelled while it waits: CancelledError passes both
\* handlers, and nothing is counted.
Abandon(r) ==
    /\ chat[r].pc = "calling" /\ chat[r].kind = "chat"
    /\ chat' = [chat EXCEPT ![r].pc = "cancelled"]
    /\ UNCHANGED <<providers, calls, errors>>

Asked(r)   == Chat(r) \/ NamedChat(r) \/ HealthChecks(r)
Replied(r) == Answer(r) \/ Fail(r) \/ Unusable(r)

RouterNext == \E r \in Requests :
    \/ Asked(r)
    \/ TryNext(r) \/ GiveUp(r)
    \/ Replied(r)
    \/ Abandon(r)

\* The loop runs without waiting, and every call ends: the httpx clients have
\* a timeout.
RouterFairness ==
    \A r \in Requests : WF_routerVars(TryNext(r) \/ GiveUp(r) \/ Replied(r))

RouterSpec == RouterInit /\ [][RouterNext]_routerVars /\ RouterFairness

-----------------------------------------------------------------------------
(* Properties *)

ChatPC  == {"idle", "choose", "calling", "answered", "refused", "reported",
            "cancelled"}
ChatEnd == {"answered", "refused", "reported", "cancelled"}
ChatState == [pc : ChatPC, kind : {"chat", "named", "health"},
              name : Names \cup {Unknown}, todo : SUBSET (Names \cup {Unknown}),
              current : Names \cup {Unknown}, by : Names \cup {Unknown},
              failed : SUBSET Real, replied : SUBSET Real]

\* The values the variables may have.
RouterTypeOK ==
    /\ providers \in (SUBSET Real) \cup {{Mock}}
    /\ calls \in [Names -> Nat] /\ errors \in [Names -> Nat]
    /\ chat \in [Requests -> ChatState]

\* The providers an unnamed chat tries before p.
Before(p) == IF p = Default THEN {}
             ELSE {Default} \cup {q \in providers : q < p}

\* A chat is answered by the first provider of its order that did not fail:
\* all before it failed this very request, none behind it was asked, and a
\* provider that was named is never replaced (chat's providers_to_try).
FirstThatAnswers ==
    \A r \in Requests : chat[r].pc = "answered" =>
        /\ chat[r].by \in providers
        /\ chat[r].kind = "chat"  => chat[r].failed = Before(chat[r].by)
        /\ chat[r].kind = "named" => /\ chat[r].by = chat[r].name
                                     /\ chat[r].failed = {}

\* "All providers failed" is said only when each of them failed this request,
\* and a health report covers every provider: the failure of one never ends
\* the walk over the others (the except of chat and of health_check).
NoProviderSkipped ==
    \A r \in Requests :
        /\ chat[r].pc = "refused" =>
             chat[r].failed = IF chat[r].kind = "named"
                              THEN {chat[r].name} \cap providers ELSE providers
        /\ chat[r].pc = "reported" =>
             chat[r].failed \cup chat[r].replied = providers \ {Mock}

\* What /providers/stats says: total_errors counts the requests a provider
\* failed, and total_calls - total_errors the replies its server delivered,
\* those that turned out unusable (counted twice, as call and error) included.
StatsAddUp ==
    \A p \in Names :
        /\ errors[p] = Cardinality({r \in Requests : p \in chat[r].failed})
        /\ calls[p] = errors[p]
                      + Cardinality({r \in Requests : p \in chat[r].replied})

\* Every request ends: answered, refused, reported or cancelled.
ChatsEnd ==
    \A r \in Requests : chat[r].pc # "idle" ~> chat[r].pc \in ChatEnd
=============================================================================
