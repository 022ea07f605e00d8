------------------------------ MODULE Sessions ------------------------------
(***************************************************************************)
(* The session of one device: the tokens the Mali API issues and rotates   *)
(* (AuthService) and the app that stores, uses and refreshes them          *)
(* (SecureAuthTokenStore, AuthRepository, AuthInterceptor and              *)
(* RetryInterceptor).                                                      *)
(*                                                                         *)
(* A login or a refresh issues a pair of tokens, an access token and a     *)
(* refresh token, known by the place of its row in refresh_tokens.  The    *)
(* app has two Dart isolates, each with a Dio client of its own, over one  *)
(* secure storage.                                                         *)
(*                                                                         *)
(* AuthInterceptor is a QueuedInterceptor: a client handles one error at a *)
(* time, and the one it handles is done when its handler is completed.     *)
(***************************************************************************)
EXTENDS Integers, Sequences, FiniteSets

CONSTANTS Requests,
          Clients,        \* the isolates, each with a client of its own
          Main,           \* the isolate of the user interface
          Client,         \* [Requests -> Clients]
          MaxLogins,      \* bound: logins of the user
          MaxRetries,     \* RetryInterceptor.maxRetries
          Faults,         \* what may go wrong in this instance
          MaxKinds,       \* bound: kinds of trouble met in one behaviour
          None

VARIABLES tokens,         \* the rows of refresh_tokens
          expired,        \* access tokens past their fifteen minutes
          access, refresh, \* the secure storage
          rq,             \* the state of each request
          user,           \* the user's login
          leaving,        \* the logouts under way: the user's, and one started
                          \* by each request that ended the session
          known,          \* whether the user store holds the user's profile
          logins,
          sessionEnded,   \* AuthSessionEvents.emitSessionExpired was called
          mishap          \* history: the kinds of trouble met so far

store == <<access, refresh>>
app == <<user, leaving, known, logins>>
vars == <<tokens, expired, access, refresh, rq, user, leaving, known, logins,
          sessionEnded, mishap>>

(* A call or its answer is lost; the request sent again after a refresh     *)
(* fails; an isolate is killed; the user logs out; the background isolate   *)
(* sends a request.                                                         *)
Kinds == {"network", "retry", "kill", "logout", "background"}

ASSUME SessionAssumption ==
  /\ Main \in Clients /\ Client \in [Requests -> Clients]
  /\ {MaxLogins, MaxRetries, MaxKinds} \subseteq Nat
  /\ Faults \subseteq Kinds

Pairs == Nat \ {0}

ASSUME NoneIsNoPair == None \notin Pairs

Token == [parent: Pairs \cup {None}, revoked: BOOLEAN]

(* What a request does; in a Holding stage it holds its client's error      *)
(* queue, in an OnServer stage the API works on its refresh call.           *)
Holding == {"read", "find", "revoke", "create", "saveAccess", "saveRefresh",
            "resend", "resent", "blocked", "expel"}

OnServer == {"find", "revoke", "create"}

Stages == Holding \cup {"idle", "send", "sent", "refused", "errored", "done"}

Busy(c) == \E q \in Requests :
             Client[q] = c /\ rq[q].pc \in Holding /\ ~rq[q].killed

RequestState == [pc : Stages, access : Pairs \cup {None}, refresh : Pairs \cup {None},
                 got : Pairs \cup {None}, tries : Nat, killed : BOOLEAN]

(* A request before it is sent; one that has ended is forgotten.            *)
New == [pc |-> "idle", access |-> None, refresh |-> None, got |-> None,
        tries |-> 0, killed |-> FALSE]

Ended == [New EXCEPT !.pc = "done"]

Goto(q, stage) == rq' = [rq EXCEPT ![q] = IF stage = "done" THEN Ended
                                          ELSE [@ EXCEPT !.pc = stage]]

(* The server ends the call of a client that was killed; nobody gets the    *)
(* answer.                                                                  *)
Answer(q, stage) == IF rq[q].killed THEN "done" ELSE stage

Issue(parent) == tokens' = Append(tokens, [parent |-> parent, revoked |-> FALSE])

NextPair == Len(tokens) + 1

Accepted(p) == p # None /\ p \notin expired

Trouble(kind) ==
  /\ kind \in Faults /\ Cardinality(mishap \cup {kind}) <= MaxKinds
  /\ mishap' = mishap \cup {kind}

-----------------------------------------------------------------------------
(* A request before any error.                                              *)

(* The screens send requests while the user is logged in, the background    *)
(* task whenever it runs.                                                   *)
Begin(q) ==
  /\ rq[q].pc = "idle"
  /\ IF Client[q] = Main THEN user.pc = "in" /\ UNCHANGED mishap
                        ELSE Trouble("background")
  /\ Goto(q, "send")
  /\ UNCHANGED <<tokens, expired, store, app, sessionEnded>>

(* onRequest puts the stored access token on the request.                   *)
Send(q) ==
  /\ rq[q].pc = "send"
  /\ rq' = [rq EXCEPT ![q].pc = "sent", ![q].access = access]
  /\ UNCHANGED <<tokens, expired, store, app, sessionEnded, mishap>>

Arrive(q) ==
  /\ rq[q].pc = "sent"
  /\ Goto(q, IF Accepted(rq[q].access) THEN "done" ELSE "refused")
  /\ UNCHANGED <<tokens, expired, store, app, sessionEnded, mishap>>

NetworkError(q) ==
  /\ rq[q].pc = "sent"
  /\ Trouble("network")
  /\ Goto(q, "errored")
  /\ UNCHANGED <<tokens, expired, store, app, sessionEnded>>

(* An error that is no 401 passes through the queue to RetryInterceptor,    *)
(* which sends the request again, up to maxRetries times.                   *)
PassOn(q) ==
  /\ rq[q].pc = "errored"
  /\ ~Busy(Client[q])
  /\ rq' = [rq EXCEPT ![q] = IF rq[q].tries < MaxRetries
                             THEN [rq[q] EXCEPT !.pc = "send", !.tries = @ + 1] ELSE Ended]
  /\ UNCHANGED <<tokens, expired, store, app, sessionEnded, mishap>>

-----------------------------------------------------------------------------
(* AuthInterceptor.onError of a 401.                                        *)

(* Mutant: an ordinary Interceptor, which handles errors side by side. *)
TakeErrorAtOnce(q) ==
  /\ rq[q].pc = "refused"
  /\ Goto(q, "read")
  /\ UNCHANGED <<tokens, expired, store, app, sessionEnded, mishap>>

TakeError(q) ==
  /\ rq[q].pc = "refused"
  /\ ~Busy(Client[q])
  /\ Goto(q, "read")
  /\ UNCHANGED <<tokens, expired, store, app, sessionEnded, mishap>>

ReadRefreshToken(q) ==
  /\ rq[q].pc = "read"
  /\ rq' = [rq EXCEPT ![q].refresh = refresh,
                      ![q].pc = IF refresh = None THEN "expel" ELSE "find"]
  /\ UNCHANGED <<tokens, expired, store, app, sessionEnded, mishap>>

(* RefreshTokenUseCase: the token is looked up and checked, revoked by id,  *)
(* and its successor inserted, by three statements without a transaction.   *)
FindByTokenHash(q) ==
  /\ rq[q].pc = "find"
  /\ Goto(q, IF ~tokens[rq[q].refresh].revoked THEN "revoke" ELSE Answer(q, "expel"))
  /\ UNCHANGED <<tokens, expired, store, app, sessionEnded, mishap>>

Revoke(p) == tokens' = [tokens EXCEPT ![p].revoked = TRUE]

(* Mutant: the used token is not revoked. *)
RevokeNothing(q) ==
  /\ rq[q].pc = "revoke"
  /\ Goto(q, "create")
  /\ UNCHANGED <<tokens, expired, store, app, sessionEnded, mishap>>

RevokeByID(q) ==
  /\ rq[q].pc = "revoke"
  /\ Revoke(rq[q].refresh)
  /\ Goto(q, "create")
  /\ UNCHANGED <<expired, store, app, sessionEnded, mishap>>

CreateToken(q) ==
  /\ rq[q].pc = "create"
  /\ Issue(rq[q].refresh)
  /\ rq' = [rq EXCEPT ![q] = IF rq[q].killed THEN Ended
                             ELSE [rq[q] EXCEPT !.got = NextPair, !.pc = "saveAccess"]]
  /\ UNCHANGED <<expired, store, app, sessionEnded, mishap>>

(* The refresh call fails at any of its steps, or only its answer is lost.  *)
RefreshFails(q) ==
  /\ rq[q].pc \in OnServer
  /\ Trouble("network")
  /\ \/ UNCHANGED tokens
     \/ rq[q].pc = "create" /\ Issue(rq[q].refresh)
  /\ Goto(q, Answer(q, "expel"))
  /\ UNCHANGED <<expired, store, app, sessionEnded>>

(* saveSession writes the two tokens one after the other.                   *)
SaveAccess(q) ==
  /\ rq[q].pc = "saveAccess"
  /\ access' = rq[q].got
  /\ Goto(q, "saveRefresh")
  /\ UNCHANGED <<tokens, expired, refresh, app, sessionEnded, mishap>>

(* Mutant: only the access token of the answer is kept. *)
SaveAccessOnly(q) ==
  /\ rq[q].pc = "saveRefresh"
  /\ Goto(q, "resend")
  /\ UNCHANGED <<tokens, expired, store, app, sessionEnded, mishap>>

SaveRefresh(q) ==
  /\ rq[q].pc = "saveRefresh"
  /\ refresh' = rq[q].got
  /\ Goto(q, "resend")
  /\ UNCHANGED <<tokens, expired, access, app, sessionEnded, mishap>>

Resend(q) ==
  /\ rq[q].pc = "resend"
  /\ rq' = [rq EXCEPT ![q].access = access, ![q].pc = "resent"]
  /\ UNCHANGED <<tokens, expired, store, app, sessionEnded, mishap>>

(* The request sent again runs through the same client.  Its answer ends    *)
(* the handling of the error; its own error, of any kind, joins the queue   *)
(* behind the one that waits for it, and neither is ever handled.           *)
Resent(q) ==
  /\ rq[q].pc = "resent"
  /\ Goto(q, IF Accepted(rq[q].access) THEN "done" ELSE "blocked")
  /\ UNCHANGED <<tokens, expired, store, app, sessionEnded, mishap>>

RetryFails(q) ==
  /\ rq[q].pc = "resent"
  /\ Trouble("retry")
  /\ Goto(q, "blocked")
  /\ UNCHANGED <<tokens, expired, store, app, sessionEnded>>

(* Mutant: the error is not passed on, so its handler never completes. *)
ExpelSilently(q) ==
  /\ rq[q].pc = "expel"
  /\ access' = None /\ refresh' = None
  /\ sessionEnded' = TRUE
  /\ Goto(q, "blocked")
  /\ UNCHANGED <<tokens, expired, app, mishap>>

(* Whatever went wrong with the refresh, the stored session is cleared; the *)
(* listener of the event, in the main isolate, logs the user out.           *)
HandleSessionExpired(q) ==
  /\ rq[q].pc = "expel"
  /\ access' = None /\ refresh' = None
  /\ sessionEnded' = TRUE
  /\ leaving' = IF Client[q] = Main THEN [leaving EXCEPT ![q].pc = "read"] ELSE leaving
  /\ Goto(q, "done")
  /\ UNCHANGED <<tokens, expired, user, known, logins, mishap>>

-----------------------------------------------------------------------------
(* The user.                                                                *)

LoggedOut == [pc |-> "out", got |-> None]
LoggedIn == [pc |-> "in", got |-> None]

Leavers == Requests \cup {"user"}
LogoutState == [pc : {"no", "read", "revoke", "clear", "orphan"},
                refresh : Pairs \cup {None}]

Staying == [pc |-> "no", refresh |-> None]

(* LoginUseCase issues a pair; the answer may be lost.                      *)
Login ==
  /\ user.pc = "out" /\ logins < MaxLogins
  /\ logins' = logins + 1
  /\ Issue(None)
  /\ \/ user' = [user EXCEPT !.pc = "saveAccess", !.got = NextPair] /\ UNCHANGED mishap
     \/ ~Busy(Main) /\ Trouble("network") /\ UNCHANGED user
  /\ UNCHANGED <<expired, store, rq, leaving, known, sessionEnded>>

LoginSavesAccess ==
  /\ user.pc = "saveAccess"
  /\ access' = user.got
  /\ user' = [user EXCEPT !.pc = "saveRefresh"]
  /\ UNCHANGED <<tokens, expired, refresh, rq, leaving, known, logins, sessionEnded, mishap>>

LoginSavesRefresh ==
  /\ user.pc = "saveRefresh"
  /\ refresh' = user.got
  /\ user' = [user EXCEPT !.pc = "saveUser"]
  /\ UNCHANGED <<tokens, expired, access, rq, leaving, known, logins, sessionEnded, mishap>>

LoginSavesUser ==
  /\ user.pc = "saveUser"
  /\ known' = TRUE
  /\ user' = LoggedIn
  /\ UNCHANGED <<tokens, expired, store, rq, leaving, logins, sessionEnded, mishap>>

Logout ==
  /\ user.pc = "in" /\ leaving["user"].pc = "no"
  /\ Trouble("logout")
  /\ leaving' = [leaving EXCEPT !["user"].pc = "read"]
  /\ UNCHANGED <<tokens, expired, store, rq, user, known, logins, sessionEnded>>

(* AuthRepository.logout, called by the user or by the listener.            *)
LogoutReads(x) ==
  /\ leaving[x].pc = "read"
  /\ leaving' = [leaving EXCEPT ![x].refresh = refresh,
                                ![x].pc = IF refresh = None THEN "clear" ELSE "revoke"]
  /\ user' = IF user.pc = "in" THEN [user EXCEPT !.pc = "loading"] ELSE user
  /\ UNCHANGED <<tokens, expired, store, rq, known, logins, sessionEnded, mishap>>

(* LogoutUseCase revokes the token, used or not.  A failed call changes     *)
(* nothing; its error waits for the client's queue like any other.          *)
LogoutRevokes(x) ==
  /\ leaving[x].pc \in {"revoke", "orphan"}
  /\ leaving' = [leaving EXCEPT ![x].pc = IF @ = "orphan" THEN "no" ELSE "clear"]
  /\ \/ Revoke(leaving[x].refresh) /\ UNCHANGED mishap
     \/ ~Busy(Main) /\ Trouble("network") /\ UNCHANGED tokens
  /\ UNCHANGED <<expired, store, rq, user, known, logins, sessionEnded>>

(* Mutant: the ended logout stays marked as one to be cleared once more. *)
ClearTwice(x) ==
  /\ leaving[x].pc = "clear"
  /\ access' = None /\ refresh' = None
  /\ known' = FALSE
  /\ leaving' = [leaving EXCEPT ![x] = None]
  /\ user' = IF user.pc \in {"in", "loading"} THEN LoggedOut ELSE user
  /\ UNCHANGED <<tokens, expired, rq, logins, sessionEnded, mishap>>

ClearSession(x) ==
  /\ leaving[x].pc = "clear"
  /\ access' = None /\ refresh' = None
  /\ known' = FALSE
  /\ leaving' = [leaving EXCEPT ![x] = Staying]
  /\ user' = IF user.pc \in {"in", "loading"} THEN LoggedOut ELSE user
  /\ UNCHANGED <<tokens, expired, rq, logins, sessionEnded, mishap>>

-----------------------------------------------------------------------------
(* The environment.                                                         *)

(* An access token lives for fifteen minutes, a call for less than one: a   *)
(* token just issued outlives the request it was issued for.  The expiry of *)
(* a token nobody holds makes no difference.                                *)
Fresh(n) == \E q \in Requests : rq[q].got = n /\ rq[q].pc # "blocked"

Held(n) == n \in {access, user.got} \cup {rq[q].access : q \in Requests}

Expire(n) ==
  /\ Held(n) /\ n \notin expired /\ ~Fresh(n)
  /\ expired' = expired \cup {n}
  /\ UNCHANGED <<tokens, store, rq, app, sessionEnded, mishap>>

Gone(q) ==
  IF rq[q].pc \in OnServer THEN [rq[q] EXCEPT !.killed = TRUE]
  ELSE IF rq[q].pc = "idle" THEN rq[q] ELSE Ended

(* An isolate dies; the server still gets the calls it sent.  When the app  *)
(* starts again, loadPersistedSession takes up the stored session, or       *)
(* clears it when no profile is stored with it.                             *)
Kill(c) ==
  /\ Trouble("kill")
  /\ rq' = [q \in Requests |-> IF Client[q] = c THEN Gone(q) ELSE rq[q]]
  /\ IF c # Main THEN UNCHANGED <<user, leaving, store>>
     ELSE /\ leaving' = [x \in Leavers |-> IF leaving[x].pc \in {"revoke", "orphan"}
                                          THEN [leaving[x] EXCEPT !.pc = "orphan"]
                                          ELSE Staying]
          /\ user' = IF access # None /\ known THEN LoggedIn ELSE LoggedOut
          /\ IF access # None /\ ~known THEN access' = None /\ refresh' = None
                                        ELSE UNCHANGED store
  /\ UNCHANGED <<tokens, expired, known, logins, sessionEnded>>

-----------------------------------------------------------------------------
Init ==
  /\ tokens = <<>> /\ expired = {} /\ access = None /\ refresh = None
  /\ rq = [q \in Requests |-> New]
  /\ user = LoggedOut /\ leaving = [x \in Leavers |-> Staying]
  /\ known = FALSE
  /\ logins = 0 /\ sessionEnded = FALSE /\ mishap = {}

(* What a request does next when nothing goes wrong.                        *)
Step(q) ==
  \/ Send(q) \/ Arrive(q) \/ PassOn(q) \/ TakeError(q)
  \/ ReadRefreshToken(q) \/ FindByTokenHash(q) \/ RevokeByID(q) \/ CreateToken(q)
  \/ SaveAccess(q) \/ SaveRefresh(q) \/ Resend(q) \/ Resent(q)
  \/ HandleSessionExpired(q)

UserStep ==
  \/ Login \/ LoginSavesAccess \/ LoginSavesRefresh \/ LoginSavesUser
  \/ Logout
  \/ \E x \in Leavers : LogoutReads(x) \/ LogoutRevokes(x) \/ ClearSession(x)

Next ==
  \/ \E q \in Requests :
       \/ Begin(q) \/ Step(q)
       \/ NetworkError(q) \/ RefreshFails(q) \/ RetryFails(q)
  \/ UserStep
  \/ \E n \in 1..Len(tokens) : Expire(n)
  \/ \E c \in Clients : Kill(c)

Spec == Init /\ [][Next]_vars

(* Dio and the API go on with a request until it is answered.               *)
FairSpec == Spec /\ \A q \in Requests : WF_vars(Step(q))

-----------------------------------------------------------------------------
TypeOK ==
  /\ tokens \in Seq(Token) /\ expired \subseteq Pairs
  /\ access \in Pairs \cup {None} /\ refresh \in Pairs \cup {None}
  /\ rq \in [Requests -> RequestState]
  /\ user \in [pc : {"out", "saveAccess", "saveRefresh", "saveUser", "in", "loading"},
               got : Pairs \cup {None}]
  /\ leaving \in [Leavers -> LogoutState]
  /\ known \in BOOLEAN /\ sessionEnded \in BOOLEAN
  /\ logins \in 0..MaxLogins /\ mishap \subseteq Kinds

(* A refresh token that has a successor is never accepted again: whatever   *)
(* fails between the three statements of a refresh, whoever sends it.       *)
RotationInvalidates ==
  \A n \in 1..Len(tokens) : tokens[n].parent # None => tokens[tokens[n].parent].revoked

(* A refresh token has one successor: the errors that several requests meet *)
(* with one expired access token are handled one after the other, so the    *)
(* second finds the token the first stored.  Nothing on the server sees to  *)
(* it: two isolates, or a killed one and the next, can both pass the check. *)
TokenUsedOnce ==
  mishap \cap {"background", "kill"} = {} =>
    \A m, n \in 1..Len(tokens) :
      m # n /\ tokens[m].parent # None => tokens[m].parent # tokens[n].parent

(* A user for whom nothing went wrong is never thrown out, however many     *)
(* requests find their access token expired at the same time.               *)
NotExpelled == sessionEnded => mishap # {}

Settled ==
  /\ user.pc \in {"out", "in"} /\ \A x \in Leavers : leaving[x].pc = "no"
  /\ \A q \in Requests : rq[q].pc \notin Holding \ {"blocked"}

(* Between refreshes the stored pair is one pair whose refresh token works, *)
(* or there is none: also when a refresh fails half way.  It is not so      *)
(* after a second login: the late failure of a request of the session that  *)
(* ended clears what the login has stored so far.                           *)
SessionUsable ==
  Settled /\ mishap \subseteq {"network", "retry"} /\ logins < 2 =>
    /\ access = refresh
    /\ refresh # None => ~tokens[refresh].revoked

(* A request that was sent again after a refresh and got no answer to end   *)
(* with: it failed, or went out with another token than the refresh it      *)
(* waited for brought, as that session was replaced or removed meanwhile.   *)
Stranded(o) ==
  /\ rq[o].pc = "blocked"
  /\ rq[o].got # None
  /\ "retry" \in mishap \/ rq[o].access # rq[o].got

(* Every request ends, with an answer or an error, but behind a stranded    *)
(* one of its client: nothing else keeps the queue of errors from going on, *)
(* through refused and failed refreshes, logouts, logins and kills.         *)
EveryRequestEnds ==
  \A q \in Requests :
    rq[q].pc # "idle" ~>
      \/ rq[q].pc = "done"
      \/ \E o \in Requests : Client[o] = Client[q] /\ Stranded(o)

(* A transient failure of a request is retried or reported to its caller,   *)
(* also when the request is one sent again after a refresh.                 *)
FailuresReported ==
  \A q \in Requests : rq[q].pc = "blocked" ~> rq[q].pc = "done"
=============================================================================
