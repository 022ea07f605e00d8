--------------------------- MODULE SessionsProofs ---------------------------
(***************************************************************************)
(* Proofs about Sessions, for any number of requests, isolates, logins and *)
(* retries: a rotated refresh token stays revoked, the queue of one client *)
(* is enough for a refresh token to be used once, the stored pair works    *)
(* when calls fail, and nobody is thrown out when nothing went wrong.      *)
(***************************************************************************)
EXTENDS Sessions, SequenceTheorems, TLAPS

USE SessionAssumption, NoneIsNoPair

-----------------------------------------------------------------------------
(* The data.                                                                *)

Given == 1..Len(tokens)

LEMMA IssueFacts ==
  ASSUME tokens \in Seq(Token), NEW p \in Pairs \cup {None}, Issue(p)
  PROVE  /\ tokens' \in Seq(Token) /\ NextPair \in Pairs
         /\ Given' = Given \cup {NextPair} /\ NextPair \notin Given
         /\ tokens'[NextPair] = [parent |-> p, revoked |-> FALSE]
         /\ \A n \in Given : tokens'[n] = tokens[n]
  <1> DEFINE new == [parent |-> p, revoked |-> FALSE]
  <1>1. new \in Token
    BY DEF Token
  <1>2. tokens' = Append(tokens, new) /\ Len(tokens) \in Nat
    BY DEF Issue
  <1> HIDE DEF new
  <1>3. /\ Append(tokens, new) \in Seq(Token)
        /\ Len(Append(tokens, new)) = Len(tokens) + 1
        /\ \A i \in 1..Len(tokens) : Append(tokens, new)[i] = tokens[i]
        /\ Append(tokens, new)[Len(tokens) + 1] = new
    BY <1>1, AppendProperties
  <1>4. QED
    BY <1>2, <1>3 DEF Given, NextPair, Pairs, new

LEMMA RevokeFacts ==
  ASSUME tokens \in Seq(Token), NEW p \in Given, Revoke(p)
  PROVE  /\ tokens' \in Seq(Token) /\ Given' = Given
         /\ tokens'[p].revoked
         /\ \A n \in Given : /\ tokens'[n].parent = tokens[n].parent
                             /\ tokens[n].revoked => tokens'[n].revoked
  <1> DEFINE row == [tokens[p] EXCEPT !.revoked = TRUE]
  <1>1. tokens[p] \in Token
    BY DEF Given
  <1>2. row \in Token /\ row.revoked /\ row.parent = tokens[p].parent
    BY <1>1 DEF Token
  <1>3. tokens' = [tokens EXCEPT ![p] = row]
    BY DEF Revoke
  <1> HIDE DEF row
  <1>4. /\ [tokens EXCEPT ![p] = row] \in Seq(Token)
        /\ Len([tokens EXCEPT ![p] = row]) = Len(tokens)
        /\ \A j \in 1..Len(tokens) :
             [tokens EXCEPT ![p] = row][j] = IF j = p THEN row ELSE tokens[j]
    BY <1>2, ExceptSeq DEF Given
  <1>5. QED
    BY <1>2, <1>3, <1>4 DEF Given

LEMMA GotoFacts ==
  ASSUME rq \in [Requests -> RequestState], NEW q \in Requests,
         NEW stage \in Stages, Goto(q, stage)
  PROVE  /\ rq' \in [Requests -> RequestState]
         /\ rq'[q] = IF stage = "done" THEN Ended ELSE [rq[q] EXCEPT !.pc = stage]
         /\ rq'[q].pc = stage
         /\ \A o \in Requests \ {q} : rq'[o] = rq[o]
  <1>1. Ended \in RequestState /\ Ended.pc = "done"
    BY DEF Ended, New, RequestState, Stages
  <1>2. [rq[q] EXCEPT !.pc = stage] \in RequestState /\ [rq[q] EXCEPT !.pc = stage].pc = stage
    BY DEF RequestState
  <1>3. QED
    BY <1>1, <1>2 DEF Goto

-----------------------------------------------------------------------------
(* Types, and that every pair in use was issued.                            *)

RequestGiven(q) ==
  /\ rq[q].pc \in OnServer => rq[q].refresh \in Given
  /\ rq[q].pc \in {"saveAccess", "saveRefresh"} => rq[q].got \in Given

LogoutGiven(x) == leaving[x].pc \in {"revoke", "orphan"} => leaving[x].refresh \in Given

ParentsGiven == \A n \in Given : tokens[n].parent \in Given \cup {None}

StoreGiven == access \in Given \cup {None} /\ refresh \in Given \cup {None}

LoginGiven == user.pc \in {"saveAccess", "saveRefresh"} => user.got \in Given

PairsGiven ==
  /\ ParentsGiven /\ StoreGiven /\ LoginGiven
  /\ \A q \in Requests : RequestGiven(q)
  /\ \A x \in Leavers : LogoutGiven(x)

TypeInv == TypeOK /\ PairsGiven

LEMMA InitTypes == Init => TypeInv
  <1> SUFFICES ASSUME Init PROVE TypeInv
    OBVIOUS
  <1>1. tokens \in Seq(Token) /\ Given = {}
    BY DEF Init, Given
  <1>2. New \in RequestState /\ New.pc = "idle"
    BY DEF New, RequestState, Stages
  <1>3. TypeOK
    <2>1. Staying \in LogoutState
      BY DEF Staying, LogoutState
    <2>2. rq \in [Requests -> RequestState] /\ leaving \in [Leavers -> LogoutState]
      BY <1>2, <2>1 DEF Init
    <2>3. user \in [pc : {"out", "saveAccess", "saveRefresh", "saveUser", "in", "loading"},
                   got : Pairs \cup {None}]
      BY DEF Init, LoggedOut
    <2>4. logins \in 0..MaxLogins
      BY DEF Init
    <2>5. QED
      BY <1>1, <2>2, <2>3, <2>4 DEF Init, TypeOK
  <1>4. PairsGiven
    BY <1>1, <1>2 DEF Init, PairsGiven, ParentsGiven, StoreGiven, LoginGiven, RequestGiven,
       LogoutGiven, OnServer, LoggedOut, Staying
  <1>5. QED
    BY <1>3, <1>4 DEF TypeInv

(* Rows are only added, and what names a row goes on naming one.            *)
TokensGrow ==
  /\ tokens' \in Seq(Token) /\ ParentsGiven'
  /\ Given \subseteq Given' /\ Given' \subseteq Pairs

LEMMA SameGrows ==
  ASSUME TypeInv, UNCHANGED tokens
  PROVE  TokensGrow
  BY DEF TypeInv, TypeOK, PairsGiven, ParentsGiven, TokensGrow, Given, Pairs

LEMMA IssueGrows ==
  ASSUME TypeInv, NEW p \in Given \cup {None}, Issue(p)
  PROVE  TokensGrow /\ NextPair \in Given'
  <1>1. tokens \in Seq(Token) /\ p \in Pairs \cup {None}
    BY DEF TypeInv, TypeOK, Given, Pairs
  <1>2. /\ tokens' \in Seq(Token) /\ NextPair \in Pairs
        /\ Given' = Given \cup {NextPair}
        /\ tokens'[NextPair] = [parent |-> p, revoked |-> FALSE]
        /\ \A n \in Given : tokens'[n] = tokens[n]
    BY <1>1, IssueFacts
  <1>3. Given \subseteq Pairs
    BY DEF Given, Pairs
  <1>4. QED
    BY <1>2, <1>3 DEF TokensGrow, ParentsGiven, TypeInv, PairsGiven

LEMMA RevokeGrows ==
  ASSUME TypeInv, NEW p \in Given, Revoke(p)
  PROVE  TokensGrow
  <1>1. tokens \in Seq(Token) /\ Given \subseteq Pairs
    BY DEF TypeInv, TypeOK, Given, Pairs
  <1>2. QED
    BY <1>1, RevokeFacts DEF TokensGrow, ParentsGiven, TypeInv, PairsGiven

(* A step of one request.                                                   *)
LEMMA RequestStepTypes ==
  ASSUME TypeInv, NEW q \in Requests, TokensGrow,
         rq' \in [Requests -> RequestState], \A o \in Requests \ {q} : rq'[o] = rq[o],
         RequestGiven(q)', UNCHANGED <<expired, user, known, logins>>,
         access' \in Given' \cup {None}, refresh' \in Given' \cup {None},
         leaving' = leaving \/ leaving' = [leaving EXCEPT ![q].pc = "read"],
         sessionEnded' \in BOOLEAN, mishap' \subseteq Kinds
  PROVE  TypeInv'
  <1>1. leaving' \in [Leavers -> LogoutState] /\ \A x \in Leavers : LogoutGiven(x)'
    <2>1. q \in Leavers /\ leaving \in [Leavers -> LogoutState]
      BY DEF TypeInv, TypeOK, Leavers
    <2>2. [leaving[q] EXCEPT !.pc = "read"] \in LogoutState
          /\ [leaving[q] EXCEPT !.pc = "read"].pc = "read"
      BY <2>1 DEF LogoutState
    <2>3. QED
      BY <2>1, <2>2 DEF TypeInv, PairsGiven, LogoutGiven, TokensGrow
  <1>2. TypeOK'
    BY <1>1 DEF TypeInv, TypeOK, TokensGrow
  <1>3. \A o \in Requests : RequestGiven(o)'
    BY DEF TypeInv, PairsGiven, RequestGiven, TokensGrow
  <1>4. PairsGiven'
    BY <1>1, <1>3 DEF TypeInv, PairsGiven, StoreGiven, LoginGiven, TokensGrow
  <1>5. QED
    BY <1>2, <1>4 DEF TypeInv

(* A step of the user's login or of a logout.                               *)
LEMMA UserStepTypes ==
  ASSUME TypeInv, NEW x \in Leavers, TokensGrow, UNCHANGED <<expired, rq, sessionEnded>>,
         user' \in [pc : {"out", "saveAccess", "saveRefresh", "saveUser", "in", "loading"},
                    got : Pairs \cup {None}],
         LoginGiven', leaving' \in [Leavers -> LogoutState],
         \A o \in Leavers \ {x} : leaving'[o] = leaving[o], LogoutGiven(x)',
         access' \in Given' \cup {None}, refresh' \in Given' \cup {None},
         known' \in BOOLEAN, logins' \in 0..MaxLogins, mishap' \subseteq Kinds
  PROVE  TypeInv'
  <1>1. TypeOK'
    BY DEF TypeInv, TypeOK, TokensGrow
  <1>2. \A q \in Requests : RequestGiven(q)'
    BY DEF TypeInv, PairsGiven, RequestGiven, TokensGrow
  <1>3. \A o \in Leavers : LogoutGiven(o)'
    BY DEF TypeInv, PairsGiven, LogoutGiven, TokensGrow
  <1>4. PairsGiven'
    BY <1>2, <1>3 DEF PairsGiven, StoreGiven, TokensGrow
  <1>5. QED
    BY <1>1, <1>4 DEF TypeInv

LEMMA TroubleKind ==
  ASSUME TypeInv, NEW k, Trouble(k)
  PROVE  mishap' \subseteq Kinds
  BY DEF Trouble, TypeInv, TypeOK

(* A request that only moves on, to a stage that needs no pair.             *)
LEMMA MoveTypes ==
  ASSUME TypeInv, NEW q \in Requests,
         NEW stage \in Stages \ {"saveAccess", "saveRefresh"}, Goto(q, stage),
         stage \in OnServer => rq[q].pc \in OnServer,
         TokensGrow, UNCHANGED <<expired, user, known, logins>>,
         access' \in Given' \cup {None}, refresh' \in Given' \cup {None},
         leaving' = leaving \/ leaving' = [leaving EXCEPT ![q].pc = "read"],
         sessionEnded' \in BOOLEAN, mishap' \subseteq Kinds
  PROVE  TypeInv'
  <1>1. /\ rq' \in [Requests -> RequestState]
        /\ rq'[q] = IF stage = "done" THEN Ended ELSE [rq[q] EXCEPT !.pc = stage]
        /\ rq'[q].pc = stage
        /\ \A o \in Requests \ {q} : rq'[o] = rq[o]
    BY GotoFacts DEF TypeInv, TypeOK
  <1>2. RequestGiven(q)'
    <2>1. ASSUME stage \in OnServer PROVE rq'[q].refresh = rq[q].refresh /\ rq[q].refresh \in Given
      BY <1>1, <2>1 DEF OnServer, TypeInv, TypeOK, PairsGiven, RequestGiven, RequestState
    <2>2. QED
      BY <1>1, <2>1 DEF RequestGiven, TokensGrow
  <1>3. QED
    BY <1>1, <1>2, RequestStepTypes

LEMMA BeforeErrorTypes ==
  ASSUME TypeInv, NEW q \in Requests,
         Begin(q) \/ Send(q) \/ Arrive(q) \/ NetworkError(q) \/ PassOn(q)
  PROVE  TypeInv'
  <1>1. TokensGrow /\ access \in Given' \cup {None} /\ refresh \in Given' \cup {None}
    <2>1. UNCHANGED tokens
      BY DEF Begin, Send, Arrive, NetworkError, PassOn
    <2>2. QED
      BY <2>1, SameGrows DEF Given, TypeInv, PairsGiven, StoreGiven
  <1>2. /\ UNCHANGED <<expired, user, known, logins, access, refresh, leaving, sessionEnded>>
        /\ mishap' \subseteq Kinds
    BY TroubleKind DEF Begin, Send, Arrive, NetworkError, PassOn, store, app, TypeInv, TypeOK
  <1>3. sessionEnded \in BOOLEAN
    BY DEF TypeInv, TypeOK
  <1>4. ASSUME Begin(q) \/ Arrive(q) \/ NetworkError(q) PROVE TypeInv'
    <2>1. \E stage \in {"send", "done", "refused", "errored"} : Goto(q, stage)
      BY <1>4 DEF Begin, Arrive, NetworkError
    <2>2. PICK stage \in {"send", "done", "refused", "errored"} : Goto(q, stage)
      BY <2>1
    <2>3. stage \in Stages \ {"saveAccess", "saveRefresh"} /\ stage \notin OnServer
      BY DEF Stages, OnServer
    <2>4. QED
      BY <1>1, <1>2, <1>3, <2>2, <2>3, MoveTypes
  <1>5. ASSUME Send(q) \/ PassOn(q) PROVE TypeInv'
    <2>1. rq[q] \in RequestState /\ access \in Pairs \cup {None}
      BY DEF TypeInv, TypeOK
    <2>2. Ended \in RequestState /\ Ended.pc = "done"
      BY DEF Ended, New, RequestState, Stages
    <2> DEFINE Moved == \E new \in RequestState :
             rq' = [rq EXCEPT ![q] = new] /\ new.pc \in {"sent", "send", "done"}
    <2>3. Moved
      <3>1. ASSUME Send(q) PROVE Moved
        <4> DEFINE new == [rq[q] EXCEPT !.pc = "sent", !.access = access]
        <4>1. new \in RequestState /\ new.pc = "sent"
          BY <2>1 DEF RequestState, Stages
        <4>2. rq' = [rq EXCEPT ![q] = new]
          BY <3>1 DEF Send
        <4> HIDE DEF new
        <4>3. QED
          BY <4>1, <4>2
      <3>2. ASSUME PassOn(q) PROVE Moved
        <4> DEFINE more == rq[q].tries + 1
                   new == [rq[q] EXCEPT !.pc = "send", !.tries = more]
        <4>1. new \in RequestState /\ new.pc = "send"
          <5>1. more \in Nat
            BY <2>1 DEF RequestState
          <5> HIDE DEF more
          <5>2. QED
            BY <2>1, <5>1 DEF RequestState, Stages
        <4>2. rq' = [rq EXCEPT ![q] = new] \/ rq' = [rq EXCEPT ![q] = Ended]
          BY <3>2 DEF PassOn
        <4> HIDE DEF new
        <4>3. QED
          BY <2>2, <4>1, <4>2
      <3>3. QED
        BY <1>5, <3>1, <3>2
    <2>4. /\ rq' \in [Requests -> RequestState] /\ \A o \in Requests \ {q} : rq'[o] = rq[o]
          /\ rq'[q].pc \in {"sent", "send", "done"}
      BY <2>3 DEF TypeInv, TypeOK
    <2>5. RequestGiven(q)'
      BY <2>4 DEF RequestGiven, OnServer
    <2>6. QED
      BY <1>1, <1>2, <1>3, <2>4, <2>5, RequestStepTypes
  <1>6. QED
    BY <1>4, <1>5

LEMMA ErrorTypes ==
  ASSUME TypeInv, NEW q \in Requests,
         TakeError(q) \/ ReadRefreshToken(q) \/ FindByTokenHash(q) \/ Resend(q)
         \/ Resent(q) \/ RetryFails(q)
  PROVE  TypeInv'
  <1>1. TokensGrow /\ access \in Given' \cup {None} /\ refresh \in Given' \cup {None}
    <2>1. UNCHANGED tokens
      BY DEF TakeError, ReadRefreshToken, FindByTokenHash, Resend, Resent, RetryFails
    <2>2. QED
      BY <2>1, SameGrows DEF Given, TypeInv, PairsGiven, StoreGiven
  <1>2. /\ UNCHANGED <<expired, user, known, logins, access, refresh, leaving, sessionEnded>>
        /\ mishap' \subseteq Kinds
    BY TroubleKind DEF TakeError, ReadRefreshToken, FindByTokenHash, Resend, Resent,
       RetryFails, store, app, TypeInv, TypeOK
  <1>3. sessionEnded \in BOOLEAN
    BY DEF TypeInv, TypeOK
  <1>4. ASSUME TakeError(q) \/ FindByTokenHash(q) \/ Resent(q) \/ RetryFails(q) PROVE TypeInv'
    <2>1. PICK stage \in {"read", "revoke", "expel", "done", "blocked"} :
             Goto(q, stage) /\ (stage = "revoke" => rq[q].pc = "find")
      BY <1>4 DEF TakeError, FindByTokenHash, Resent, RetryFails, Answer
    <2>2. stage \in Stages \ {"saveAccess", "saveRefresh"}
          /\ (stage \in OnServer => rq[q].pc \in OnServer)
      BY <2>1 DEF Stages, Holding, OnServer
    <2>3. QED
      BY <1>1, <1>2, <1>3, <2>1, <2>2, MoveTypes
  <1>5. ASSUME ReadRefreshToken(q) \/ Resend(q) PROVE TypeInv'
    <2>1. rq[q] \in RequestState /\ {access, refresh} \subseteq Pairs \cup {None}
      BY DEF TypeInv, TypeOK
    <2> DEFINE kept == [rq[q] EXCEPT !.refresh = refresh,
                                    !.pc = IF refresh = None THEN "expel" ELSE "find"]
               sent == [rq[q] EXCEPT !.access = access, !.pc = "resent"]
    <2>2. /\ kept \in RequestState /\ kept.refresh = refresh
          /\ kept.pc = IF refresh = None THEN "expel" ELSE "find"
      BY <2>1 DEF RequestState, Stages, Holding
    <2>3. sent \in RequestState /\ sent.pc = "resent"
      BY <2>1 DEF RequestState, Stages, Holding
    <2>4. rq' = [rq EXCEPT ![q] = kept] \/ rq' = [rq EXCEPT ![q] = sent]
      BY <1>5 DEF ReadRefreshToken, Resend
    <2> HIDE DEF kept, sent
    <2>5. /\ rq' \in [Requests -> RequestState] /\ \A o \in Requests \ {q} : rq'[o] = rq[o]
          /\ rq'[q] = kept \/ rq'[q] = sent
      BY <2>2, <2>3, <2>4 DEF TypeInv, TypeOK
    <2>6. RequestGiven(q)'
      BY <1>1, <1>2, <2>2, <2>3, <2>5 DEF RequestGiven, OnServer
    <2>7. QED
      BY <1>1, <1>2, <1>3, <2>5, <2>6, RequestStepTypes
  <1>6. QED
    BY <1>4, <1>5

LEMMA RotationTypes ==
  ASSUME TypeInv, NEW q \in Requests,
         RevokeByID(q) \/ CreateToken(q) \/ RefreshFails(q)
  PROVE  TypeInv'
  <1>1. rq[q] \in RequestState /\ rq[q].refresh \in Given
    BY DEF TypeInv, TypeOK, PairsGiven, RequestGiven, RevokeByID, CreateToken, RefreshFails,
       OnServer
  <1>2. /\ UNCHANGED <<expired, user, known, logins, access, refresh, leaving, sessionEnded>>
        /\ mishap' \subseteq Kinds
    BY TroubleKind DEF RevokeByID, CreateToken, RefreshFails, store, app, TypeInv, TypeOK
  <1>3. TokensGrow
    BY <1>1, SameGrows, IssueGrows, RevokeGrows DEF RevokeByID, CreateToken, RefreshFails
  <1>4. /\ access \in Given' \cup {None} /\ refresh \in Given' \cup {None}
        /\ sessionEnded \in BOOLEAN
    BY <1>3 DEF TokensGrow, TypeInv, TypeOK, PairsGiven, StoreGiven
  <1>5. ASSUME RevokeByID(q) \/ RefreshFails(q) PROVE TypeInv'
    <2>1. PICK stage \in {"create", "expel", "done"} :
             Goto(q, stage) /\ (stage = "create" => rq[q].pc = "revoke")
      BY <1>5 DEF RevokeByID, RefreshFails, Answer
    <2>2. stage \in Stages \ {"saveAccess", "saveRefresh"}
          /\ (stage \in OnServer => rq[q].pc \in OnServer)
      BY <2>1 DEF Stages, Holding, OnServer
    <2>3. QED
      BY <1>2, <1>3, <1>4, <2>1, <2>2, MoveTypes
  <1>6. ASSUME CreateToken(q) PROVE TypeInv'
    <2>1. NextPair \in Given' /\ NextPair \in Pairs
      BY <1>1, <1>3, <1>6, IssueGrows DEF CreateToken, TokensGrow
    <2> DEFINE new == [rq[q] EXCEPT !.got = NextPair, !.pc = "saveAccess"]
    <2>2. new \in RequestState /\ new.pc = "saveAccess" /\ new.got = NextPair
      BY <1>1, <2>1 DEF RequestState, Stages, Holding
    <2>3. Ended \in RequestState /\ Ended.pc = "done"
      BY DEF Ended, New, RequestState, Stages
    <2>4. rq' = [rq EXCEPT ![q] = new] \/ rq' = [rq EXCEPT ![q] = Ended]
      BY <1>6 DEF CreateToken
    <2> HIDE DEF new
    <2>5. /\ rq' \in [Requests -> RequestState] /\ \A o \in Requests \ {q} : rq'[o] = rq[o]
          /\ rq'[q] = new \/ rq'[q] = Ended
      BY <2>2, <2>3, <2>4 DEF TypeInv, TypeOK
    <2>6. RequestGiven(q)'
      BY <2>1, <2>2, <2>3, <2>5 DEF RequestGiven, OnServer
    <2>7. QED
      BY <1>2, <1>3, <1>4, <2>5, <2>6, RequestStepTypes
  <1>7. QED
    BY <1>5, <1>6

LEMMA StoreTypes ==
  ASSUME TypeInv, NEW q \in Requests,
         SaveAccess(q) \/ SaveRefresh(q) \/ HandleSessionExpired(q)
  PROVE  TypeInv'
  <1>1. UNCHANGED <<tokens, expired, user, known, logins, mishap>>
    BY DEF SaveAccess, SaveRefresh, HandleSessionExpired, app
  <1>2. TokensGrow /\ Given' = Given
    BY <1>1, SameGrows DEF Given
  <1>3. /\ access' \in Given \cup {None} /\ refresh' \in Given \cup {None}
        /\ sessionEnded' \in BOOLEAN /\ mishap' \subseteq Kinds
    BY <1>1 DEF SaveAccess, SaveRefresh, HandleSessionExpired, TypeInv, TypeOK, PairsGiven,
       StoreGiven, RequestGiven
  <1>4. leaving' = leaving \/ leaving' = [leaving EXCEPT ![q].pc = "read"]
    BY DEF SaveAccess, SaveRefresh, HandleSessionExpired, app
  <1>5. ASSUME SaveRefresh(q) \/ HandleSessionExpired(q) PROVE TypeInv'
    <2>1. PICK stage \in {"resend", "done"} : Goto(q, stage)
      BY <1>5 DEF SaveRefresh, HandleSessionExpired
    <2>2. stage \in Stages \ {"saveAccess", "saveRefresh"} /\ stage \notin OnServer
      BY DEF Stages, Holding, OnServer
    <2>3. QED
      BY <1>1, <1>2, <1>3, <1>4, <2>1, <2>2, MoveTypes
  <1>6. ASSUME SaveAccess(q) PROVE TypeInv'
    <2>1. Goto(q, "saveRefresh") /\ "saveRefresh" \in Stages /\ rq[q].got \in Given
      BY <1>6 DEF SaveAccess, Stages, Holding, TypeInv, PairsGiven, RequestGiven
    <2>2. /\ rq' \in [Requests -> RequestState] /\ \A o \in Requests \ {q} : rq'[o] = rq[o]
          /\ rq'[q] = [rq[q] EXCEPT !.pc = "saveRefresh"] /\ rq[q] \in RequestState
      BY <2>1, GotoFacts DEF TypeInv, TypeOK
    <2>3. RequestGiven(q)'
      BY <1>2, <2>1, <2>2 DEF RequestGiven, OnServer, RequestState
    <2>4. QED
      BY <1>1, <1>2, <1>3, <1>4, <2>2, <2>3, RequestStepTypes
  <1>7. QED
    BY <1>5, <1>6

(* The user's states.                                                       *)
UserState == [pc : {"out", "saveAccess", "saveRefresh", "saveUser", "in", "loading"},
              got : Pairs \cup {None}]

LEMMA LoginTypes ==
  ASSUME TypeInv,
         Login \/ LoginSavesAccess \/ LoginSavesRefresh \/ LoginSavesUser
  PROVE  TypeInv'
  <1>1. UNCHANGED <<expired, rq, sessionEnded, leaving>> /\ mishap' \subseteq Kinds
    BY TroubleKind DEF Login, LoginSavesAccess, LoginSavesRefresh, LoginSavesUser, store, app,
       TypeInv, TypeOK
  <1>2. TokensGrow /\ (Login => NextPair \in Given' /\ NextPair \in Pairs)
    BY SameGrows, IssueGrows DEF Login, LoginSavesAccess, LoginSavesRefresh, LoginSavesUser,
       TokensGrow
  <1>3. known' \in BOOLEAN /\ logins' \in 0..MaxLogins
    <2>1. known \in BOOLEAN /\ logins \in 0..MaxLogins /\ MaxLogins \in Nat
      BY DEF TypeInv, TypeOK
    <2>2. known' \in BOOLEAN
      BY <2>1 DEF Login, LoginSavesAccess, LoginSavesRefresh, LoginSavesUser
    <2>3. logins' = logins \/ (logins < MaxLogins /\ logins' = logins + 1)
      BY DEF Login, LoginSavesAccess, LoginSavesRefresh, LoginSavesUser
    <2>4. QED
      BY <2>1, <2>2, <2>3
  <1>4. user \in UserState /\ LoggedIn \in UserState /\ LoggedIn.pc = "in"
    BY DEF TypeInv, TypeOK, UserState, LoggedIn
  <1>5. user' \in UserState /\ LoginGiven'
    <2>1. ASSUME Login PROVE user' \in UserState /\ LoginGiven'
      <3>1. \/ user' = [user EXCEPT !.pc = "saveAccess", !.got = NextPair]
            \/ user' = user
        BY <2>1 DEF Login
      <3>2. ASSUME user' = user PROVE LoginGiven'
        BY <1>2, <3>2 DEF LoginGiven, TokensGrow, TypeInv, PairsGiven
      <3>3. QED
        BY <1>2, <1>4, <2>1, <3>1, <3>2 DEF UserState, LoginGiven
    <2>2. ASSUME LoginSavesAccess \/ LoginSavesRefresh PROVE user' \in UserState /\ LoginGiven'
      BY <1>2, <1>4, <2>2 DEF LoginSavesAccess, LoginSavesRefresh, UserState, LoginGiven,
         TokensGrow, TypeInv, PairsGiven
    <2>3. ASSUME LoginSavesUser PROVE user' \in UserState /\ LoginGiven'
      BY <1>4, <2>3 DEF LoginSavesUser, LoginGiven
    <2>4. QED
      BY <2>1, <2>2, <2>3
  <1>6. access' \in Given' \cup {None} /\ refresh' \in Given' \cup {None}
    BY <1>2 DEF Login, LoginSavesAccess, LoginSavesRefresh, LoginSavesUser, store, TokensGrow,
       TypeInv, PairsGiven, StoreGiven, LoginGiven
  <1>7. "user" \in Leavers /\ leaving \in [Leavers -> LogoutState]
    BY DEF Leavers, TypeInv, TypeOK
  <1>8. LogoutGiven("user")'
    BY <1>1, <1>2, <1>7 DEF LogoutGiven, TokensGrow, TypeInv, PairsGiven
  <1>9. QED
    BY <1>1, <1>2, <1>3, <1>5, <1>6, <1>7, <1>8, UserStepTypes DEF UserState

LEMMA LogoutTypes ==
  ASSUME TypeInv, NEW x \in Leavers,
         (x = "user" /\ Logout) \/ LogoutReads(x) \/ LogoutRevokes(x) \/ ClearSession(x)
  PROVE  TypeInv'
  <1>1. UNCHANGED <<expired, rq, sessionEnded, logins>> /\ mishap' \subseteq Kinds
    BY TroubleKind DEF Logout, LogoutReads, LogoutRevokes, ClearSession, store,
       TypeInv, TypeOK
  <1>2. leaving[x] \in LogoutState /\ user \in UserState /\ LoggedOut \in UserState
        /\ refresh \in Pairs \cup {None}
    BY DEF TypeInv, TypeOK, UserState, LoggedOut
  <1>3. TokensGrow
    BY SameGrows, RevokeGrows DEF Logout, LogoutReads, LogoutRevokes, ClearSession, TypeInv,
       PairsGiven, LogoutGiven
  <1>4. user' \in UserState /\ LoginGiven'
    BY <1>2, <1>3 DEF Logout, LogoutReads, LogoutRevokes, ClearSession, UserState, LoggedOut,
       LoginGiven, TokensGrow, TypeInv, PairsGiven
  <1>5. known' \in BOOLEAN /\ logins' \in 0..MaxLogins
    BY <1>1 DEF Logout, LogoutReads, LogoutRevokes, ClearSession, TypeInv, TypeOK
  <1>6. access' \in Given' \cup {None} /\ refresh' \in Given' \cup {None}
    BY <1>3 DEF Logout, LogoutReads, LogoutRevokes, ClearSession, store, TokensGrow, TypeInv,
       PairsGiven, StoreGiven
  <1> DEFINE Left == \E l \in LogoutState :
               /\ leaving' = [leaving EXCEPT ![x] = l]
               /\ l.pc \in {"revoke", "orphan"} => l.refresh \in Given'
  <1>7. Left
    <2>1. ASSUME x = "user" /\ Logout PROVE Left
      <3> DEFINE l == [leaving[x] EXCEPT !.pc = "read"]
      <3>1. l \in LogoutState /\ l.pc = "read"
        BY <1>2 DEF LogoutState
      <3>2. leaving' = [leaving EXCEPT ![x] = l]
        BY <2>1 DEF Logout
      <3> HIDE DEF l
      <3>3. QED
        BY <3>1, <3>2
    <2>2. ASSUME LogoutReads(x) PROVE Left
      <3> DEFINE l == [leaving[x] EXCEPT !.refresh = refresh,
                                        !.pc = IF refresh = None THEN "clear" ELSE "revoke"]
      <3>1. l \in LogoutState /\ l.refresh = refresh /\ (l.pc = "clear" \/ refresh # None)
        BY <1>2 DEF LogoutState
      <3>2. leaving' = [leaving EXCEPT ![x] = l]
        BY <2>2 DEF LogoutReads
      <3>3. refresh \in Given' \cup {None}
        BY <1>3 DEF TokensGrow, TypeInv, PairsGiven, StoreGiven
      <3> HIDE DEF l
      <3>4. QED
        BY <3>1, <3>2, <3>3
    <2>3. ASSUME LogoutRevokes(x) PROVE Left
      <3> DEFINE l == [leaving[x] EXCEPT !.pc = IF @ = "orphan" THEN "no" ELSE "clear"]
      <3>1. l \in LogoutState /\ l.pc \in {"no", "clear"}
        BY <1>2 DEF LogoutState
      <3>2. leaving' = [leaving EXCEPT ![x] = l]
        BY <2>3 DEF LogoutRevokes
      <3> HIDE DEF l
      <3>3. QED
        BY <3>1, <3>2
    <2>4. ASSUME ClearSession(x) PROVE Left
      <3>1. Staying \in LogoutState /\ Staying.pc = "no"
        BY DEF Staying, LogoutState
      <3>2. leaving' = [leaving EXCEPT ![x] = Staying]
        BY <2>4 DEF ClearSession
      <3>3. QED
        BY <3>1, <3>2
    <2>5. QED
      BY <2>1, <2>2, <2>3, <2>4
  <1>8. /\ leaving' \in [Leavers -> LogoutState] /\ LogoutGiven(x)'
        /\ \A o \in Leavers \ {x} : leaving'[o] = leaving[o]
    BY <1>7 DEF TypeInv, TypeOK, LogoutGiven
  <1>9. QED
    BY <1>1, <1>3, <1>4, <1>5, <1>6, <1>8, UserStepTypes DEF UserState

LEMMA ExpireTypes ==
  ASSUME TypeInv, NEW n \in 1..Len(tokens), Expire(n)
  PROVE  TypeInv'
  BY DEF Expire, TypeInv, TypeOK, PairsGiven, ParentsGiven, StoreGiven, LoginGiven,
     RequestGiven, LogoutGiven, Given, Pairs, store, app

LEMMA KillTypes ==
  ASSUME TypeInv, NEW c \in Clients, Kill(c)
  PROVE  TypeInv'
  <1>1. TokensGrow /\ Given' = Given /\ mishap' \subseteq Kinds
    BY SameGrows, TroubleKind DEF Kill, Given
  <1>2. ASSUME NEW q \in Requests
        PROVE  /\ Gone(q) \in RequestState
               /\ Gone(q).pc \in OnServer => Gone(q).refresh = rq[q].refresh /\ rq[q].pc \in OnServer
               /\ Gone(q).pc \notin {"saveAccess", "saveRefresh"}
    BY ZenonT(40) DEF Gone, TypeInv, TypeOK, RequestState, Ended, New, Stages, OnServer
  <1>3. rq' \in [Requests -> RequestState] /\ \A q \in Requests : RequestGiven(q)'
    <2>1. rq' = [q \in Requests |-> IF Client[q] = c THEN Gone(q) ELSE rq[q]]
      BY DEF Kill
    <2>2. rq' \in [Requests -> RequestState]
      BY <1>2, <2>1 DEF TypeInv, TypeOK
    <2>3. QED
      BY <1>1, <1>2, <2>1, <2>2 DEF TypeInv, PairsGiven, RequestGiven
  <1>4. ASSUME c = Main
        PROVE  leaving' \in [Leavers -> LogoutState] /\ \A x \in Leavers : LogoutGiven(x)'
    <2> DEFINE lost(x) == [leaving[x] EXCEPT !.pc = "orphan"]
    <2>1. \A x \in Leavers : /\ lost(x) \in LogoutState /\ lost(x).refresh = leaving[x].refresh
      BY DEF TypeInv, TypeOK, LogoutState
    <2>2. Staying \in LogoutState /\ Staying.pc = "no"
      BY DEF Staying, LogoutState
    <2>3. leaving' = [x \in Leavers |-> IF leaving[x].pc \in {"revoke", "orphan"}
                                         THEN lost(x) ELSE Staying]
      BY <1>4 DEF Kill
    <2> HIDE DEF lost
    <2>4. QED
      BY <1>1, <2>1, <2>2, <2>3 DEF TypeInv, PairsGiven, LogoutGiven
  <1>5. leaving' \in [Leavers -> LogoutState] /\ \A x \in Leavers : LogoutGiven(x)'
    BY <1>1, <1>4 DEF Kill, TypeInv, TypeOK, PairsGiven, LogoutGiven
  <1>6. user' \in UserState /\ LoginGiven'
    BY <1>1 DEF Kill, TypeInv, TypeOK, PairsGiven, LoginGiven, LoggedIn, LoggedOut, UserState
  <1>7. access' \in Given \cup {None} /\ refresh' \in Given \cup {None}
    BY DEF Kill, store, TypeInv, PairsGiven, StoreGiven
  <1>8. TypeOK'
    BY <1>1, <1>3, <1>5, <1>6, <1>7 DEF Kill, TypeInv, TypeOK, TokensGrow, UserState
  <1>9. QED
    BY <1>1, <1>3, <1>5, <1>6, <1>7, <1>8 DEF TypeInv, PairsGiven, TokensGrow, StoreGiven

LEMMA NextTypes == TypeInv /\ [Next]_vars => TypeInv'
  <1> SUFFICES ASSUME TypeInv, [Next]_vars PROVE TypeInv'
    OBVIOUS
  <1>1. ASSUME NEW q \in Requests,
               Begin(q) \/ Step(q) \/ NetworkError(q) \/ RefreshFails(q) \/ RetryFails(q)
        PROVE  TypeInv'
    BY <1>1, BeforeErrorTypes, ErrorTypes, RotationTypes, StoreTypes DEF Step
  <1>2. ASSUME UserStep PROVE TypeInv'
    <2>1. "user" \in Leavers
      BY DEF Leavers
    <2>2. QED
      BY <1>2, <2>1, LoginTypes, LogoutTypes DEF UserStep
  <1>3. ASSUME UNCHANGED vars PROVE TypeInv'
    BY <1>3 DEF vars, TypeInv, TypeOK, PairsGiven, ParentsGiven, StoreGiven, LoginGiven,
       RequestGiven, LogoutGiven, Given
  <1>4. QED
    BY <1>1, <1>2, <1>3, ExpireTypes, KillTypes DEF Next

(* Every reachable state is well typed, and every pair that the app stores, *)
(* sends or waits for is one that the API issued.                           *)
THEOREM SessionTypes == Spec => [](TypeOK /\ PairsGiven)
  <1>1. Spec => []TypeInv
    BY InitTypes, NextTypes, PTL DEF Spec
  <1>2. TypeInv => TypeOK /\ PairsGiven
    BY DEF TypeInv
  <1>3. QED
    BY <1>1, <1>2, PTL

-----------------------------------------------------------------------------
(* What a step does to one request, and to the rows.                        *)

RequestAction(q) == Begin(q) \/ Step(q) \/ NetworkError(q) \/ RefreshFails(q) \/ RetryFails(q)

(* Between the check of its token and the insertion of the successor.       *)
Rotating == {"revoke", "create"}

Moved(q) ==
  /\ rq'[q].pc \in Rotating => /\ rq'[q].refresh = rq[q].refresh
                               /\ FindByTokenHash(q) \/ RevokeByID(q)
  /\ rq'[q].killed => rq[q].killed
  /\ rq'[q].pc \in Holding => rq[q].pc \in Holding \/ ~Busy(Client[q])
  /\ rq[q].pc = "idle" => Client[q] = Main \/ "background" \in mishap'
  /\ mishap \subseteq mishap'
  /\ \A o \in Requests \ {q} : rq'[o] = rq[o]

LEMMA GotoMoved ==
  ASSUME TypeInv, NEW q \in Requests, NEW stage \in Stages, Goto(q, stage),
         stage \in Rotating => FindByTokenHash(q) \/ RevokeByID(q),
         stage \in Holding => rq[q].pc \in Holding \/ ~Busy(Client[q]),
         rq[q].pc = "idle" => Client[q] = Main \/ "background" \in mishap',
         mishap \subseteq mishap'
  PROVE  Moved(q)
  <1>1. /\ rq'[q] = IF stage = "done" THEN Ended ELSE [rq[q] EXCEPT !.pc = stage]
        /\ rq'[q].pc = stage
        /\ \A o \in Requests \ {q} : rq'[o] = rq[o]
    BY GotoFacts DEF TypeInv, TypeOK
  <1>2. ~Ended.killed /\ rq[q] \in RequestState
    BY DEF Ended, New, TypeInv, TypeOK
  <1>3. stage # "done" => rq'[q].refresh = rq[q].refresh /\ rq'[q].killed = rq[q].killed
    BY <1>1, <1>2 DEF RequestState
  <1>4. QED
    BY <1>1, <1>2, <1>3 DEF Moved, Rotating

LEMMA RequestMoved ==
  ASSUME TypeInv, NEW q \in Requests, RequestAction(q)
  PROVE  Moved(q)
  <1>1. ASSUME Begin(q) PROVE Moved(q)
    <2>1. /\ Goto(q, "send") /\ "send" \in Stages
          /\ Client[q] = Main \/ "background" \in mishap'
          /\ mishap \subseteq mishap'
      BY <1>1 DEF Begin, Trouble, Stages
    <2>2. "send" \notin Rotating \cup Holding
      BY DEF Rotating, Holding
    <2>3. QED
      BY <2>1, <2>2, GotoMoved
  <1>2. ASSUME Arrive(q) \/ NetworkError(q) PROVE Moved(q)
    <2>1. PICK stage \in {"done", "refused", "errored"} :
            /\ Goto(q, stage) /\ rq[q].pc = "sent" /\ mishap \subseteq mishap'
      BY <1>2 DEF Arrive, NetworkError, Trouble
    <2>2. stage \in Stages /\ stage \notin Rotating \cup Holding
      BY DEF Stages, Rotating, Holding
    <2>3. QED
      BY <2>1, <2>2, GotoMoved
  <1>3. ASSUME TakeError(q) PROVE Moved(q)
    <2>1. /\ Goto(q, "read") /\ ~Busy(Client[q]) /\ rq[q].pc = "refused" /\ mishap' = mishap
      BY <1>3 DEF TakeError
    <2>2. "read" \in Stages /\ "read" \notin Rotating
      BY DEF Stages, Rotating, Holding
    <2>3. QED
      BY <2>1, <2>2, GotoMoved
  <1>4. ASSUME \/ FindByTokenHash(q) \/ RevokeByID(q) \/ RefreshFails(q)
               \/ SaveAccess(q) \/ SaveRefresh(q) \/ Resent(q) \/ RetryFails(q)
               \/ HandleSessionExpired(q)
        PROVE  Moved(q)
    <2>1. PICK stage \in {"revoke", "create", "expel", "done", "saveRefresh", "resend", "blocked"} :
            /\ Goto(q, stage) /\ mishap \subseteq mishap'
            /\ stage \in Rotating => FindByTokenHash(q) \/ RevokeByID(q)
      BY <1>4 DEF FindByTokenHash, RevokeByID, RefreshFails, SaveAccess, SaveRefresh, Resent,
         RetryFails, HandleSessionExpired, Answer, Trouble, Rotating
    <2>2. rq[q].pc \in Holding /\ rq[q].pc # "idle" /\ stage \in Stages
      BY <1>4 DEF FindByTokenHash, RevokeByID, RefreshFails, SaveAccess, SaveRefresh, Resent,
         RetryFails, HandleSessionExpired, OnServer, Holding, Stages
    <2>3. QED
      BY <2>1, <2>2, GotoMoved
  <1>5. ASSUME Send(q) \/ PassOn(q) \/ ReadRefreshToken(q) \/ CreateToken(q) \/ Resend(q)
        PROVE  Moved(q)
    <2>1. ~Ended.killed /\ Ended.pc = "done" /\ rq[q] \in RequestState
      BY DEF Ended, New, TypeInv, TypeOK
    <2> DEFINE Left == {"sent", "send", "done", "expel", "find", "saveAccess", "resent"}
               sent == [rq[q] EXCEPT !.pc = "sent", !.access = access]
               more == rq[q].tries + 1
               again == [rq[q] EXCEPT !.pc = "send", !.tries = more]
               kept == [rq[q] EXCEPT !.refresh = refresh,
                                     !.pc = IF refresh = None THEN "expel" ELSE "find"]
               next == NextPair
               got == [rq[q] EXCEPT !.got = next, !.pc = "saveAccess"]
               resent == [rq[q] EXCEPT !.access = access, !.pc = "resent"]
               Keeps(new) == new.killed = rq[q].killed
    <2>2. /\ Keeps(sent) /\ Keeps(kept) /\ Keeps(resent)
          /\ sent.pc = "sent" /\ kept.pc \in {"expel", "find"} /\ resent.pc = "resent"
      BY <2>1 DEF RequestState
    <2>3. Keeps(again) /\ again.pc = "send"
      <3> HIDE DEF more
      <3>1. QED
        BY <2>1 DEF RequestState
    <2>4. Keeps(got) /\ got.pc = "saveAccess"
      <3> HIDE DEF next
      <3>1. QED
        BY <2>1 DEF RequestState
    <2>5. \/ rq' = [rq EXCEPT ![q] = sent] /\ rq[q].pc = "send"
          \/ rq' = [rq EXCEPT ![q] = again] /\ rq[q].pc = "errored"
          \/ rq' = [rq EXCEPT ![q] = Ended] /\ rq[q].pc \in {"errored", "create"}
          \/ rq' = [rq EXCEPT ![q] = kept] /\ rq[q].pc = "read"
          \/ rq' = [rq EXCEPT ![q] = got] /\ rq[q].pc = "create"
          \/ rq' = [rq EXCEPT ![q] = resent] /\ rq[q].pc = "resend"
      BY <1>5 DEF Send, PassOn, ReadRefreshToken, CreateToken, Resend
    <2>6. mishap' = mishap /\ rq \in [Requests -> RequestState]
      BY <1>5 DEF Send, PassOn, ReadRefreshToken, CreateToken, Resend, TypeInv, TypeOK
    <2> HIDE DEF sent, again, kept, got, resent
    <2>7. rq'[q].pc \in Left /\ (rq'[q].killed => rq[q].killed)
      BY <2>1, <2>2, <2>3, <2>4, <2>5, <2>6
    <2>8. /\ rq'[q].pc \in Holding => rq[q].pc \in Holding
          /\ rq[q].pc # "idle" /\ \A o \in Requests \ {q} : rq'[o] = rq[o]
      BY <2>1, <2>2, <2>3, <2>4, <2>5, <2>6 DEF Holding
    <2>9. QED
      BY <2>6, <2>7, <2>8 DEF Moved, Rotating
  <1>6. QED
    BY <1>1, <1>2, <1>3, <1>4, <1>5 DEF RequestAction, Step

(* A row is revoked, or one is added: for a login, or for a request that    *)
(* leaves the rotation with it.                                             *)
TokenStep ==
  \/ UNCHANGED tokens
  \/ \E p \in Given : Revoke(p)
  \/ Issue(None) /\ UNCHANGED rq
  \/ \E q \in Requests : /\ rq[q].pc = "create" /\ Issue(rq[q].refresh)
                         /\ rq'[q].pc \notin Rotating

LEMMA NextTokenStep ==
  ASSUME TypeInv, [Next]_vars
  PROVE  TokenStep
  <1>1. ASSUME NEW q \in Requests, RequestAction(q) PROVE TokenStep
    <2>1. ASSUME RevokeByID(q) PROVE TokenStep
      BY <2>1 DEF RevokeByID, TokenStep, TypeInv, PairsGiven, RequestGiven, OnServer
    <2>2. ASSUME CreateToken(q) PROVE TokenStep
      <3>1. rq'[q].pc \notin Rotating
        BY <1>1, <2>2, RequestMoved DEF Moved, CreateToken, FindByTokenHash, RevokeByID
      <3>2. QED
        BY <2>2, <3>1 DEF CreateToken, TokenStep
    <2>3. ASSUME RefreshFails(q) PROVE TokenStep
      <3>1. PICK stage \in {"expel", "done"} : Goto(q, stage)
        BY <2>3 DEF RefreshFails, Answer
      <3>2. rq'[q].pc = stage
        BY <3>1, GotoFacts DEF TypeInv, TypeOK, Stages, Holding
      <3>3. QED
        BY <2>3, <3>2 DEF RefreshFails, TokenStep, Rotating
    <2>4. QED
      BY <1>1, <2>1, <2>2, <2>3 DEF RequestAction, Step, TokenStep, Begin, Send, Arrive, PassOn,
         TakeError, ReadRefreshToken, FindByTokenHash, SaveAccess, SaveRefresh, Resend, Resent,
         HandleSessionExpired, NetworkError, RetryFails
  <1>2. ASSUME UserStep PROVE TokenStep
    <2>1. ASSUME NEW x \in Leavers, LogoutRevokes(x) PROVE TokenStep
      BY <2>1 DEF LogoutRevokes, TokenStep, TypeInv, PairsGiven, LogoutGiven
    <2>2. QED
      BY <1>2, <2>1 DEF UserStep, Login, LoginSavesAccess, LoginSavesRefresh, LoginSavesUser,
         Logout, LogoutReads, ClearSession, TokenStep
  <1>3. ASSUME \/ \E n \in 1..Len(tokens) : Expire(n)
               \/ \E c \in Clients : Kill(c)
               \/ UNCHANGED vars
        PROVE  TokenStep
    BY <1>3 DEF Expire, Kill, vars, TokenStep
  <1>4. QED
    BY <1>1, <1>2, <1>3 DEF Next, RequestAction

(* A row keeps its parent, and stays revoked once it is.                    *)
LEMMA RowsKept ==
  ASSUME TypeInv, TokenStep, NEW n \in Given
  PROVE  /\ n \in Given' /\ tokens'[n].parent = tokens[n].parent
         /\ tokens[n].revoked => tokens'[n].revoked
  <1>1. tokens \in Seq(Token)
    BY DEF TypeInv, TypeOK
  <1>2. ASSUME NEW p \in Given, Revoke(p)
        PROVE  /\ n \in Given' /\ tokens'[n].parent = tokens[n].parent
               /\ tokens[n].revoked => tokens'[n].revoked
    BY <1>1, <1>2, RevokeFacts
  <1>3. ASSUME NEW p \in Pairs \cup {None}, Issue(p)
        PROVE  n \in Given' /\ tokens'[n] = tokens[n]
    BY <1>1, <1>3, IssueFacts
  <1>4. ASSUME NEW q \in Requests PROVE rq[q].refresh \in Pairs \cup {None}
    BY <1>4 DEF TypeInv, TypeOK, RequestState
  <1>5. QED
    BY <1>2, <1>3, <1>4 DEF TokenStep, Given

-----------------------------------------------------------------------------
(* A rotated token stays revoked.                                           *)

RotationInv ==
  /\ \A n \in Given : tokens[n].parent # None => tokens[tokens[n].parent].revoked
  /\ \A q \in Requests : rq[q].pc = "create" => tokens[rq[q].refresh].revoked

(* A request that rotates was rotating already, or has just entered.        *)
LEMMA Enters ==
  ASSUME TypeInv, [Next]_vars, NEW q \in Requests, rq'[q].pc \in Rotating
  PROVE  /\ rq'[q].refresh = rq[q].refresh /\ rq[q].refresh \in Given
         /\ FindByTokenHash(q) \/ RevokeByID(q) \/ rq'[q].pc = rq[q].pc
  <1>1. ASSUME NEW o \in Requests, RequestAction(o)
        PROVE  /\ rq'[q].refresh = rq[q].refresh
               /\ FindByTokenHash(q) \/ RevokeByID(q) \/ rq'[q].pc = rq[q].pc
    BY <1>1, RequestMoved DEF Moved
  <1>2. ASSUME NEW c \in Clients, Kill(c)
        PROVE  rq'[q].refresh = rq[q].refresh /\ rq'[q].pc = rq[q].pc
    <2>1. rq'[q] = IF Client[q] = c THEN Gone(q) ELSE rq[q]
      BY <1>2 DEF Kill
    <2>2. rq[q] \in RequestState /\ Ended.pc = "done"
      BY DEF TypeInv, TypeOK, Ended, New
    <2>3. QED
      BY <2>1, <2>2 DEF Gone, Rotating, RequestState
  <1>3. ASSUME UserStep \/ (\E n \in 1..Len(tokens) : Expire(n)) \/ UNCHANGED vars
        PROVE  rq' = rq
    BY <1>3 DEF UserStep, Login, LoginSavesAccess, LoginSavesRefresh, LoginSavesUser, Logout,
       LogoutReads, LogoutRevokes, ClearSession, Expire, vars
  <1>4. /\ rq'[q].refresh = rq[q].refresh
        /\ FindByTokenHash(q) \/ RevokeByID(q) \/ rq'[q].pc = rq[q].pc
    BY <1>1, <1>2, <1>3 DEF Next, RequestAction
  <1>5. rq[q].pc \in OnServer
    BY <1>4 DEF FindByTokenHash, RevokeByID, Rotating, OnServer
  <1>6. QED
    BY <1>4, <1>5 DEF TypeInv, PairsGiven, RequestGiven

LEMMA RotationStep == TypeInv /\ RotationInv /\ [Next]_vars => RotationInv'
  <1> SUFFICES ASSUME TypeInv, RotationInv, [Next]_vars PROVE RotationInv'
    OBVIOUS
  <1>1. TokenStep /\ tokens \in Seq(Token)
    BY NextTokenStep DEF TypeInv, TypeOK
  <1>2. ASSUME NEW n \in Given', tokens'[n].parent # None
        PROVE  tokens'[tokens'[n].parent].revoked
    <2>1. ASSUME n \in Given PROVE tokens'[tokens'[n].parent].revoked
      <3>1. tokens[n].parent = tokens'[n].parent /\ tokens[n].parent \in Given
        BY <1>1, <1>2, <2>1, RowsKept DEF TypeInv, PairsGiven, ParentsGiven
      <3>2. tokens[tokens[n].parent].revoked
        BY <1>2, <2>1, <3>1 DEF RotationInv
      <3>3. QED
        BY <1>1, <3>1, <3>2, RowsKept
    <2>2. ASSUME n \notin Given PROVE tokens'[tokens'[n].parent].revoked
      <3>1. ASSUME NEW p \in Given, Revoke(p) PROVE FALSE
        BY <1>1, <1>2, <2>2, <3>1, RevokeFacts
      <3>2. ASSUME Issue(None) PROVE FALSE
        <4>1. n = NextPair /\ tokens'[NextPair] = [parent |-> None, revoked |-> FALSE]
          BY <1>1, <1>2, <2>2, <3>2, IssueFacts
        <4>2. QED
          BY <1>2, <4>1
      <3>3. PICK q \in Requests : rq[q].pc = "create" /\ Issue(rq[q].refresh)
        BY <1>1, <2>2, <3>1, <3>2 DEF TokenStep, Given
      <3>4. rq[q].refresh \in Given /\ rq[q].refresh \in Pairs
        BY <3>3 DEF TypeInv, PairsGiven, RequestGiven, OnServer, Given, Pairs
      <3>5. n = NextPair /\ tokens'[n].parent = rq[q].refresh
        <4> DEFINE p == rq[q].refresh
        <4>1. p \in Pairs /\ Issue(p)
          BY <3>3, <3>4
        <4> HIDE DEF p
        <4>2. n = NextPair /\ tokens'[NextPair] = [parent |-> p, revoked |-> FALSE]
          BY <1>1, <1>2, <2>2, <4>1, IssueFacts
        <4>3. QED
          BY <4>2 DEF p
      <3>6. tokens[rq[q].refresh].revoked
        BY <3>3 DEF RotationInv
      <3>7. QED
        BY <1>1, <3>4, <3>5, <3>6, RowsKept
    <2>3. QED
      BY <2>1, <2>2
  <1>3. ASSUME NEW q \in Requests, rq'[q].pc = "create"
        PROVE  tokens'[rq'[q].refresh].revoked
    <2>1. /\ rq'[q].refresh = rq[q].refresh /\ rq[q].refresh \in Given
          /\ FindByTokenHash(q) \/ RevokeByID(q) \/ rq'[q].pc = rq[q].pc
      BY <1>3, Enters DEF Rotating
    <2>2. ASSUME RevokeByID(q) PROVE tokens'[rq[q].refresh].revoked
      BY <1>1, <2>1, <2>2, RevokeFacts DEF RevokeByID
    <2>3. ASSUME FindByTokenHash(q) PROVE FALSE
      <3>1. PICK stage \in {"revoke", "expel", "done"} : Goto(q, stage)
        BY <2>3 DEF FindByTokenHash, Answer
      <3>2. rq'[q].pc = stage
        BY <3>1, GotoFacts DEF TypeInv, TypeOK, Stages, Holding
      <3>3. QED
        BY <1>3, <3>2
    <2>4. ASSUME rq[q].pc = "create" PROVE tokens'[rq[q].refresh].revoked
      BY <1>1, <2>1, <2>4, RowsKept DEF RotationInv
    <2>5. QED
      BY <1>3, <2>1, <2>2, <2>3, <2>4
  <1>4. QED
    BY <1>2, <1>3 DEF RotationInv

LEMMA InitRotation == Init => RotationInv
  BY DEF Init, RotationInv, New, Given

LEMMA SafeRotation == Spec => [](TypeInv /\ RotationInv)
  BY InitTypes, NextTypes, InitRotation, RotationStep, PTL DEF Spec

(* A refresh token that has a successor is revoked and stays so, wherever   *)
(* the three statements of a refresh are cut short and whoever repeats it.  *)
THEOREM RotationHolds == Spec => []RotationInvalidates
  <1>1. TypeInv /\ RotationInv => RotationInvalidates
    BY DEF RotationInv, RotationInvalidates, Given
  <1>2. QED
    BY <1>1, SafeRotation, PTL

-----------------------------------------------------------------------------
(* A refresh token is used once, if only the queue of one client is at work *)
(* and nothing of it was killed.                                            *)

OneClient == mishap \cap {"background", "kill"} = {}

Alone == \A q \in Requests : ~rq[q].killed /\ (rq[q].pc # "idle" => Client[q] = Main)

Mutex == \A q, r \in Requests :
           rq[q].pc \in Holding /\ rq[r].pc \in Holding => q = r

NoHeir == \A q \in Requests :
            rq[q].pc \in Rotating =>
              \A n \in Given : tokens[n].parent # rq[q].refresh

UsedOnce == \A m, n \in Given :
              m # n /\ tokens[m].parent # None => tokens[m].parent # tokens[n].parent

OnceInv == OneClient => Alone /\ Mutex /\ NoHeir /\ UsedOnce

LEMMA InitOnce == Init => OnceInv
  BY DEF Init, OnceInv, Alone, Mutex, NoHeir, UsedOnce, Rotating, Holding, New, Given

LEMMA OneClientBefore ==
  ASSUME TypeInv, [Next]_vars, OneClient'
  PROVE  OneClient /\ ~\E c \in Clients : Kill(c)
  <1>1. mishap \subseteq mishap'
    BY RequestMoved DEF Next, RequestAction, Moved, UserStep, Login, LoginSavesAccess,
       LoginSavesRefresh, LoginSavesUser, Logout, LogoutReads, LogoutRevokes, ClearSession,
       Expire, Kill, Trouble, vars
  <1>2. ASSUME NEW c \in Clients, Kill(c) PROVE "kill" \in mishap'
    BY <1>2 DEF Kill, Trouble
  <1>3. QED
    BY <1>1, <1>2 DEF OneClient

(* The queue: a request takes its error up only when no other is being      *)
(* handled.                                                                 *)
LEMMA QueueStep ==
  ASSUME TypeInv, Alone, Mutex, [Next]_vars, OneClient'
  PROVE  Alone' /\ Mutex'
  <1>1. ASSUME NEW q \in Requests, RequestAction(q) PROVE Alone' /\ Mutex'
    <2>1. Moved(q) /\ "background" \notin mishap'
      BY <1>1, RequestMoved DEF OneClient
    <2>2. ~rq[q].killed /\ (rq[q].pc # "idle" => Client[q] = Main)
      BY DEF Alone
    <2>3. Client[q] = Main /\ ~rq'[q].killed
      BY <2>1, <2>2 DEF Moved
    <2>4. Alone'
      BY <2>1, <2>3 DEF Alone, Moved
    <2>5. ASSUME NEW r \in Requests \ {q}, rq[r].pc \in Holding, rq'[q].pc \in Holding
          PROVE  FALSE
      <3>1. Client[r] = Main /\ ~rq[r].killed
        BY <2>5 DEF Alone, Holding
      <3>2. Busy(Client[q])
        BY <2>3, <2>5, <3>1 DEF Busy
      <3>3. rq[q].pc \in Holding
        BY <2>1, <2>5, <3>2 DEF Moved
      <3>4. QED
        BY <2>5, <3>3 DEF Mutex
    <2>6. Mutex'
      BY <2>1, <2>5 DEF Mutex, Moved
    <2>7. QED
      BY <2>4, <2>6
  <1>2. ASSUME UserStep \/ (\E n \in 1..Len(tokens) : Expire(n)) \/ UNCHANGED vars
        PROVE  rq' = rq
    BY <1>2 DEF UserStep, Login, LoginSavesAccess, LoginSavesRefresh, LoginSavesUser, Logout,
       LogoutReads, LogoutRevokes, ClearSession, Expire, vars
  <1>3. QED
    BY <1>1, <1>2, OneClientBefore DEF Next, RequestAction, Alone, Mutex

(* A token found unrevoked has no successor.                                *)
LEMMA FoundHasNoHeir ==
  ASSUME TypeInv, RotationInv, NEW q \in Requests, FindByTokenHash(q),
         rq'[q].pc \in Rotating, NEW n \in Given
  PROVE  tokens[n].parent # rq[q].refresh
  <1>1. rq[q].refresh \in Given /\ rq[q].refresh # None
    BY DEF FindByTokenHash, TypeInv, PairsGiven, RequestGiven, OnServer, Given, Pairs
  <1>2. ~tokens[rq[q].refresh].revoked
    <2>1. ASSUME tokens[rq[q].refresh].revoked PROVE FALSE
      <3>1. PICK stage \in {"expel", "done"} : Goto(q, stage)
        BY <2>1 DEF FindByTokenHash, Answer
      <3>2. rq'[q].pc = stage
        BY <3>1, GotoFacts DEF TypeInv, TypeOK, Stages, Holding
      <3>3. QED
        BY <3>2 DEF Rotating
    <2>2. QED
      BY <2>1
  <1>3. QED
    BY <1>1, <1>2 DEF RotationInv

(* The rows after a step: the old ones with their parents, and perhaps one  *)
(* more, whose parent is a request's token or none.                         *)
LEMMA NewRow ==
  ASSUME TypeInv, TokenStep, NEW n \in Given' \ Given
  PROVE  /\ Given' = Given \cup {n}
         /\ \/ tokens'[n].parent = None /\ UNCHANGED rq
            \/ \E q \in Requests : /\ rq[q].pc = "create" /\ rq'[q].pc \notin Rotating
                                   /\ tokens'[n].parent = rq[q].refresh
  <1>1. tokens \in Seq(Token)
    BY DEF TypeInv, TypeOK
  <1>2. ASSUME NEW p \in Given, Revoke(p) PROVE FALSE
    BY <1>1, <1>2, RevokeFacts
  <1>3. ASSUME NEW p \in Pairs \cup {None}, Issue(p)
        PROVE  Given' = Given \cup {n} /\ tokens'[n].parent = p
    <2>1. n = NextPair /\ tokens'[NextPair] = [parent |-> p, revoked |-> FALSE]
          /\ Given' = Given \cup {NextPair}
      BY <1>1, <1>3, IssueFacts
    <2>2. QED
      BY <2>1
  <1>4. ASSUME Issue(None) /\ UNCHANGED rq
        PROVE  Given' = Given \cup {n} /\ tokens'[n].parent = None /\ UNCHANGED rq
    BY <1>3, <1>4
  <1>5. ASSUME NEW q \in Requests, rq[q].pc = "create", Issue(rq[q].refresh),
               rq'[q].pc \notin Rotating
        PROVE  Given' = Given \cup {n} /\ tokens'[n].parent = rq[q].refresh
    <2>1. rq[q].refresh \in Pairs \cup {None}
      BY DEF TypeInv, TypeOK, RequestState
    <2>2. QED
      BY <1>3, <1>5, <2>1
  <1>6. ~UNCHANGED tokens
    BY DEF Given
  <1>7. QED
    BY <1>2, <1>4, <1>5, <1>6 DEF TokenStep

LEMMA OnceStep == TypeInv /\ RotationInv /\ OnceInv /\ [Next]_vars => OnceInv'
  <1> SUFFICES ASSUME TypeInv, RotationInv, OnceInv, [Next]_vars, OneClient'
               PROVE  Alone' /\ Mutex' /\ NoHeir' /\ UsedOnce'
    BY DEF OnceInv
  <1>1. TokenStep /\ Alone /\ Mutex /\ NoHeir /\ UsedOnce
    BY NextTokenStep, OneClientBefore DEF OnceInv
  <1>2. Alone' /\ Mutex'
    BY <1>1, QueueStep
  <1>3. ASSUME NEW q \in Requests, rq'[q].pc \in Rotating, NEW n \in Given'
        PROVE  tokens'[n].parent # rq'[q].refresh
    <2>1. /\ rq'[q].refresh = rq[q].refresh /\ rq[q].refresh \in Given
          /\ FindByTokenHash(q) \/ rq[q].pc \in Rotating
      BY <1>3, Enters DEF RevokeByID, Rotating
    <2>2. ASSUME n \in Given PROVE tokens[n].parent # rq[q].refresh
      BY <1>1, <1>3, <2>1, <2>2, FoundHasNoHeir DEF NoHeir
    <2>3. ASSUME n \notin Given PROVE tokens'[n].parent # rq[q].refresh
      <3>1. rq[q].refresh # None
        BY <2>1 DEF Given, Pairs
      <3>2. rq[q].pc \in Holding
        BY <2>1 DEF FindByTokenHash, Rotating, Holding
      <3>3. ASSUME NEW r \in Requests, rq[r].pc = "create", rq'[r].pc \notin Rotating PROVE FALSE
        BY <1>1, <1>3, <3>2, <3>3 DEF Mutex, Holding
      <3>4. QED
        BY <1>1, <1>3, <2>3, <3>1, <3>3, NewRow
    <2>4. QED
      BY <1>1, <2>1, <2>2, <2>3, RowsKept
  <1>4. UsedOnce'
    <2>1. ASSUME NEW n \in Given' \ Given, NEW m \in Given, tokens'[n].parent # None
          PROVE  tokens'[m].parent # tokens'[n].parent
      <3>1. tokens'[m].parent = tokens[m].parent
        BY <1>1, RowsKept
      <3>2. PICK q \in Requests : rq[q].pc = "create" /\ tokens'[n].parent = rq[q].refresh
        BY <1>1, <2>1, NewRow
      <3>3. QED
        BY <1>1, <3>1, <3>2 DEF NoHeir, Rotating
    <2>2. ASSUME NEW n \in Given' \ Given, NEW m \in Given' \ Given PROVE m = n
      BY <1>1, <2>2, NewRow
    <2>3. ASSUME NEW m \in Given, NEW n \in Given, m # n, tokens'[m].parent # None
          PROVE  tokens'[m].parent # tokens'[n].parent
      <3>1. tokens'[m].parent = tokens[m].parent /\ tokens'[n].parent = tokens[n].parent
        BY <1>1, RowsKept
      <3>2. QED
        BY <1>1, <2>3, <3>1 DEF UsedOnce
    <2>4. QED
      BY <2>1, <2>2, <2>3 DEF UsedOnce
  <1>5. QED
    BY <1>2, <1>3, <1>4 DEF NoHeir

(* However many requests find their access token expired together, the      *)
(* queue of their client hands each refresh token in once; it is the queue, *)
(* not the API, that sees to it.                                            *)
THEOREM TokenOnce == Spec => []TokenUsedOnce
  <1>1. Spec => []OnceInv
    BY SafeRotation, InitOnce, OnceStep, PTL DEF Spec
  <1>2. OnceInv => TokenUsedOnce
    BY DEF OnceInv, OneClient, UsedOnce, TokenUsedOnce, Given
  <1>3. QED
    BY <1>1, <1>2, PTL

-----------------------------------------------------------------------------
(* What the app stores works, if the user logged in once and nothing but    *)
(* calls failed.                                                            *)

OneLogin == mishap \subseteq {"network", "retry"} /\ logins < 2

Works(p) == p # None => ~tokens[p].revoked

(* From the revocation of the stored token to the storing of its successor. *)
Replacing == {"create", "saveAccess", "saveRefresh"}

RequestHas(q) ==
  /\ rq[q].pc \in {"find", "revoke"} => rq[q].refresh = refresh
  /\ rq[q].pc \in {"saveAccess", "saveRefresh"} => Works(rq[q].got)
  /\ rq[q].pc = "saveRefresh" => access = rq[q].got

(* No request was sent while the login was under way, nor before it.        *)
NoneSent == ~sessionEnded /\ \A q \in Requests : rq[q].pc = "idle"

UserHas ==
  /\ logins = 0 => user.pc = "out" /\ access = None /\ refresh = None /\ NoneSent
  /\ user.pc \in {"saveAccess", "saveRefresh", "saveUser"} => NoneSent
  /\ user.pc \in {"saveAccess", "saveRefresh"} => Works(user.got)
  /\ user.pc = "saveAccess" => access = None /\ refresh = None
  /\ user.pc = "saveRefresh" => access = user.got

(* An ended session leaves nothing stored, and no refresh to store more.    *)
EndedHas ==
  /\ \A x \in Leavers : leaving[x].pc \in {"no", "read", "clear"}
                        /\ (leaving[x].pc # "no" => sessionEnded)
  /\ sessionEnded =>
       /\ access = None /\ refresh = None
       /\ \A q \in Requests : rq[q].pc \notin {"find", "revoke"} \cup Replacing

Stored ==
  \/ access = refresh /\ Works(refresh)
  \/ user.pc = "saveRefresh"
  \/ \E q \in Requests : rq[q].pc \in Replacing \cup {"expel"}

Usable == UserHas /\ EndedHas /\ Stored /\ \A q \in Requests : RequestHas(q)

UsableInv == OneLogin => Usable

(* Nothing went wrong: the login and the refreshes went through, and a      *)
(* request is sent again with a token that was just issued.                 *)
FreshAt(q) ==
  /\ rq[q].pc \notin {"expel", "errored", "blocked"}
  /\ rq[q].pc \in {"saveAccess", "saveRefresh", "resend", "resent"} =>
       rq[q].got \notin expired /\ rq[q].got # None
  /\ rq[q].pc = "resend" => access = rq[q].got
  /\ rq[q].pc = "resent" => rq[q].access = rq[q].got

Calm ==
  /\ logins < 2 /\ ~sessionEnded
  /\ user.pc = "out" => logins = 0
  /\ user.pc # "loading"
  /\ user.pc \in {"saveUser", "in"} => refresh # None
  /\ \A q \in Requests : FreshAt(q)

CalmInv == mishap = {} => Calm

ExpiredGiven == expired \subseteq Given

LEMMA InitUsable == Init => UsableInv /\ CalmInv /\ ExpiredGiven
  BY DEF Init, UsableInv, CalmInv, ExpiredGiven, Usable, UserHas, EndedHas, Stored, RequestHas,
     NoneSent, Works, Calm, FreshAt, New, LoggedOut, Staying, Replacing

LEMMA GotoKeeps ==
  ASSUME TypeInv, NEW q \in Requests, NEW stage \in Stages, Goto(q, stage)
  PROVE  /\ rq'[q].pc = stage
         /\ stage # "done" => /\ rq'[q].refresh = rq[q].refresh /\ rq'[q].got = rq[q].got
                              /\ rq'[q].access = rq[q].access
         /\ \A o \in Requests \ {q} : rq'[o] = rq[o]
  <1>1. /\ rq'[q] = IF stage = "done" THEN Ended ELSE [rq[q] EXCEPT !.pc = stage]
        /\ rq'[q].pc = stage
        /\ \A o \in Requests \ {q} : rq'[o] = rq[o]
    BY GotoFacts DEF TypeInv, TypeOK
  <1>2. rq[q] \in RequestState
    BY DEF TypeInv, TypeOK
  <1>3. QED
    BY <1>1, <1>2 DEF RequestState

(* A request that neither refreshes nor ends the session.                   *)
LEMMA Bystander ==
  ASSUME Usable, NEW q \in Requests, \A o \in Requests \ {q} : rq'[o] = rq[o],
         UNCHANGED <<tokens, store, app, sessionEnded>>,
         rq[q].pc # "idle" \/ user.pc = "in",
         rq[q].pc \notin Replacing \cup {"expel"},
         rq'[q].pc \notin {"find", "revoke"} \cup Replacing
  PROVE  Usable'
  <1>1. RequestHas(q)' /\ EndedHas'
    BY DEF Usable, RequestHas, EndedHas, store, app, Replacing
  <1>2. Stored'
    BY DEF Usable, Stored, Works, store, app
  <1>3. UserHas'
    BY DEF Usable, UserHas, NoneSent, Works, store, app
  <1>4. \A o \in Requests \ {q} : RequestHas(o)'
    BY DEF Usable, RequestHas, Works, store
  <1>5. QED
    BY <1>1, <1>2, <1>3, <1>4 DEF Usable

(* The request whose error is being handled: no other can hold anything.    *)
LEMMA Holder ==
  ASSUME Mutex, Usable, NEW q \in Requests, \A o \in Requests \ {q} : rq'[o] = rq[o],
         rq[q].pc \in Holding, UNCHANGED <<user, logins>>,
         RequestHas(q)', Stored', EndedHas'
  PROVE  Usable'
  <1>1. rq[q].pc # "idle"
    BY DEF Holding
  <1>2. UserHas'
    BY <1>1 DEF Usable, UserHas, NoneSent
  <1>3. ASSUME NEW o \in Requests \ {q} PROVE RequestHas(o)'
    BY <1>3 DEF Mutex, RequestHas, Holding
  <1>4. QED
    BY <1>2, <1>3 DEF Usable

(* A step of that request within a session that has not ended.              *)
LEMMA SessionGoesOn ==
  ASSUME Mutex, Usable, NEW q \in Requests, \A o \in Requests \ {q} : rq'[o] = rq[o],
         rq[q].pc \in {"find", "revoke"} \cup Replacing, UNCHANGED <<app, sessionEnded>>,
         RequestHas(q)', Stored'
  PROVE  Usable'
  <1>1. rq[q].pc \in Holding
    BY DEF Holding, Replacing
  <1>2. ~sessionEnded
    BY DEF Usable, EndedHas
  <1>3. EndedHas'
    BY <1>2 DEF Usable, EndedHas, app
  <1>4. QED
    BY <1>1, <1>3, Holder DEF app

LEMMA AsideUsable ==
  ASSUME TypeInv, OneLogin', Usable, NEW q \in Requests,
         \/ Begin(q) \/ Send(q) \/ Arrive(q) \/ PassOn(q) \/ TakeError(q) \/ NetworkError(q)
         \/ Resend(q) \/ Resent(q) \/ RetryFails(q)
  PROVE  Usable'
  <1>1. UNCHANGED <<tokens, store, app, sessionEnded>>
    BY DEF Begin, Send, Arrive, PassOn, TakeError, NetworkError, Resend, Resent, RetryFails
  <1>2. /\ rq[q].pc # "idle" \/ user.pc = "in"
        /\ rq[q].pc \notin Replacing \cup {"expel"}
    BY DEF Begin, Send, Arrive, PassOn, TakeError, NetworkError, Resend, Resent, RetryFails,
       OneLogin, Trouble, Replacing
  <1>3. \A o \in Requests \ {q} : rq'[o] = rq[o]
    <2>1. RequestAction(q)
      BY DEF RequestAction, Step
    <2>2. QED
      BY <2>1, RequestMoved DEF Moved
  <1>4. rq'[q].pc \in {"send", "sent", "done", "refused", "errored", "read", "resent", "blocked"}
    <2>1. rq[q] \in RequestState /\ rq \in [Requests -> RequestState] /\ Ended.pc = "done"
      BY DEF TypeInv, TypeOK, Ended, New
    <2>2. ASSUME \/ Begin(q) \/ Arrive(q) \/ TakeError(q) \/ NetworkError(q)
                 \/ Resent(q) \/ RetryFails(q)
          PROVE  rq'[q].pc \in {"send", "done", "refused", "errored", "read", "blocked"}
      <3>1. PICK stage \in {"send", "done", "refused", "errored", "read", "blocked"} :
              Goto(q, stage)
        BY <2>2 DEF Begin, Arrive, TakeError, NetworkError, Resent, RetryFails
      <3>2. QED
        BY <3>1, GotoKeeps DEF Stages, Holding
    <2>3. ASSUME Send(q) \/ Resend(q) PROVE rq'[q].pc \in {"sent", "resent"}
      BY <2>1, <2>3 DEF Send, Resend, RequestState
    <2>4. ASSUME PassOn(q) PROVE rq'[q].pc \in {"send", "done"}
      <3> DEFINE more == rq[q].tries + 1
                 again == [rq[q] EXCEPT !.pc = "send", !.tries = more]
      <3>1. again.pc = "send"
        <4> HIDE DEF more
        <4>1. QED
          BY <2>1 DEF RequestState
      <3>2. rq'[q] \in {again, Ended}
        BY <2>1, <2>4 DEF PassOn
      <3> HIDE DEF again
      <3>3. QED
        BY <2>1, <3>1, <3>2
    <2>5. QED
      BY <2>2, <2>3, <2>4
  <1>5. rq'[q].pc \notin {"find", "revoke"} \cup Replacing
    BY <1>4 DEF Replacing
  <1>6. QED
    BY <1>1, <1>2, <1>3, <1>5, Bystander

LEMMA ReadUsable ==
  ASSUME TypeInv, Mutex, Usable, NEW q \in Requests, ReadRefreshToken(q)
  PROVE  Usable'
  <1>1. rq[q] \in RequestState /\ rq \in [Requests -> RequestState]
    BY DEF TypeInv, TypeOK
  <1>2. /\ rq'[q].pc = IF refresh = None THEN "expel" ELSE "find"
        /\ rq'[q].refresh = refresh
        /\ \A o \in Requests \ {q} : rq'[o] = rq[o]
    BY <1>1 DEF ReadRefreshToken, RequestState
  <1>3. rq[q].pc = "read" /\ UNCHANGED <<tokens, store, app, sessionEnded>>
    BY DEF ReadRefreshToken
  <1>4. rq[q].pc \in Holding
    BY <1>3 DEF Holding
  <1>5. RequestHas(q)'
    BY <1>2, <1>3 DEF RequestHas, store
  <1>6. EndedHas'
    BY <1>2, <1>3 DEF Usable, EndedHas, store, app, Replacing
  <1>7. Stored'
    <2>1. ASSUME NEW o \in Requests, rq[o].pc \in Replacing \cup {"expel"} PROVE FALSE
      BY <1>3, <1>4, <2>1 DEF Mutex, Replacing, Holding
    <2>2. QED
      BY <1>3, <2>1 DEF Usable, Stored, Works, store, app
  <1>8. QED
    BY <1>2, <1>3, <1>4, <1>5, <1>6, <1>7, Holder DEF app

LEMMA FindUsable ==
  ASSUME TypeInv, Alone, Mutex, Usable, NEW q \in Requests, FindByTokenHash(q)
  PROVE  Usable'
  <1>1. rq[q].pc = "find" /\ UNCHANGED <<tokens, store, app, sessionEnded>>
    BY DEF FindByTokenHash
  <1>2. PICK stage \in {"revoke", "expel"} : Goto(q, stage)
    BY DEF FindByTokenHash, Answer, Alone
  <1>3. /\ rq'[q].pc = stage /\ rq'[q].refresh = rq[q].refresh
        /\ \A o \in Requests \ {q} : rq'[o] = rq[o]
    BY <1>2, GotoKeeps DEF Stages, Holding
  <1>4. RequestHas(q)'
    BY <1>1, <1>3 DEF Usable, RequestHas, store
  <1>5. Stored'
    <2>1. ASSUME NEW o \in Requests, rq[o].pc \in Replacing \cup {"expel"} PROVE FALSE
      BY <1>1, <2>1 DEF Mutex, Replacing, Holding
    <2>2. QED
      BY <1>1, <2>1 DEF Usable, Stored, Works, store, app
  <1>6. QED
    BY <1>1, <1>3, <1>4, <1>5, SessionGoesOn

LEMMA RevokeUsable ==
  ASSUME TypeInv, Mutex, Usable, NEW q \in Requests, RevokeByID(q)
  PROVE  Usable'
  <1>1. /\ rq[q].pc = "revoke" /\ UNCHANGED <<store, app, sessionEnded>>
        /\ Goto(q, "create")
    BY DEF RevokeByID
  <1>2. /\ rq'[q].pc = "create"
        /\ \A o \in Requests \ {q} : rq'[o] = rq[o]
    BY <1>1, GotoKeeps DEF Stages, Holding
  <1>3. RequestHas(q)' /\ Stored'
    BY <1>2 DEF RequestHas, Stored, Replacing
  <1>4. QED
    BY <1>1, <1>2, <1>3, SessionGoesOn

LEMMA CreateUsable ==
  ASSUME TypeInv, Alone, Mutex, Usable, NEW q \in Requests, CreateToken(q)
  PROVE  Usable' /\ rq'[q].pc = "saveAccess" /\ rq'[q].got = NextPair
  <1>1. rq[q].pc = "create" /\ UNCHANGED <<store, app, sessionEnded>>
    BY DEF CreateToken
  <1> DEFINE next == NextPair
             new == [rq[q] EXCEPT !.got = next, !.pc = "saveAccess"]
             p == rq[q].refresh
  <1>2. rq[q] \in RequestState /\ p \in Pairs \cup {None} /\ rq \in [Requests -> RequestState]
    BY DEF TypeInv, TypeOK, RequestState
  <1>3. new.pc = "saveAccess" /\ new.got = next
    <2> HIDE DEF next
    <2>1. QED
      BY <1>2 DEF RequestState
  <1>4. rq' = [rq EXCEPT ![q] = new] /\ Issue(p)
    BY DEF CreateToken, Alone
  <1> HIDE DEF new, p
  <1>5. /\ rq'[q].pc = "saveAccess" /\ rq'[q].got = NextPair
        /\ \A o \in Requests \ {q} : rq'[o] = rq[o]
    BY <1>2, <1>3, <1>4
  <1>6. tokens'[NextPair] = [parent |-> p, revoked |-> FALSE]
    BY <1>2, <1>4, IssueFacts DEF TypeInv, TypeOK
  <1>7. RequestHas(q)' /\ Stored'
    BY <1>5, <1>6 DEF RequestHas, Works, Stored, Replacing
  <1>8. QED
    BY <1>1, <1>5, <1>7, SessionGoesOn DEF Replacing

LEMMA RefreshFailsUsable ==
  ASSUME TypeInv, Alone, Mutex, Usable, NEW q \in Requests, RefreshFails(q)
  PROVE  Usable'
  <1>1. /\ rq[q].pc \in OnServer /\ UNCHANGED <<store, app, sessionEnded>>
        /\ Goto(q, "expel")
    BY DEF RefreshFails, Answer, Alone
  <1>2. /\ rq'[q].pc = "expel"
        /\ \A o \in Requests \ {q} : rq'[o] = rq[o]
    BY <1>1, GotoKeeps DEF Stages, Holding
  <1>3. RequestHas(q)' /\ Stored'
    BY <1>2 DEF RequestHas, Stored
  <1>4. QED
    BY <1>1, <1>2, <1>3, SessionGoesOn DEF OnServer, Replacing

LEMMA SaveUsable ==
  ASSUME TypeInv, Mutex, Usable, NEW q \in Requests, SaveAccess(q) \/ SaveRefresh(q)
  PROVE  Usable'
  <1>1. /\ rq[q].pc \in {"saveAccess", "saveRefresh"} /\ UNCHANGED <<tokens, app, sessionEnded>>
        /\ Works(rq[q].got)
    BY DEF SaveAccess, SaveRefresh, Usable, RequestHas
  <1>2. CASE SaveAccess(q)
    <2>1. /\ rq'[q].pc = "saveRefresh" /\ rq'[q].got = rq[q].got /\ access' = rq[q].got
          /\ \A o \in Requests \ {q} : rq'[o] = rq[o]
      BY <1>2, GotoKeeps DEF SaveAccess, Stages, Holding
    <2>2. RequestHas(q)' /\ Stored'
      BY <1>1, <2>1 DEF RequestHas, Works, Stored, Replacing
    <2>3. QED
      BY <1>1, <2>1, <2>2, SessionGoesOn DEF Replacing
  <1>3. CASE SaveRefresh(q)
    <2>1. /\ rq'[q].pc = "resend" /\ refresh' = rq[q].got /\ access' = access
          /\ \A o \in Requests \ {q} : rq'[o] = rq[o]
      BY <1>3, GotoKeeps DEF SaveRefresh, Stages, Holding
    <2>2. access = rq[q].got
      BY <1>3 DEF SaveRefresh, Usable, RequestHas
    <2>3. RequestHas(q)' /\ Stored'
      BY <1>1, <2>1, <2>2 DEF RequestHas, Works, Stored
    <2>4. QED
      BY <1>1, <2>1, <2>3, SessionGoesOn DEF Replacing
  <1>4. QED
    BY <1>2, <1>3

LEMMA ExpelUsable ==
  ASSUME TypeInv, Mutex, Usable, NEW q \in Requests, HandleSessionExpired(q)
  PROVE  Usable'
  <1>1. /\ rq[q].pc = "expel" /\ access' = None /\ refresh' = None /\ sessionEnded' = TRUE
        /\ Goto(q, "done") /\ UNCHANGED <<tokens, user, logins>>
    BY DEF HandleSessionExpired
  <1>2. /\ rq'[q].pc = "done"
        /\ \A o \in Requests \ {q} : rq'[o] = rq[o]
    BY <1>1, GotoKeeps DEF Stages
  <1>3. RequestHas(q)' /\ Stored'
    BY <1>1, <1>2 DEF RequestHas, Works, Stored
  <1>4. \A x \in Leavers : leaving'[x].pc \in {"no", "read", "clear"}
    <2>1. leaving \in [Leavers -> LogoutState] /\ q \in Leavers
      BY DEF TypeInv, TypeOK, Leavers
    <2>2. \A x \in Leavers : leaving'[x].pc = "read" \/ leaving'[x] = leaving[x]
      BY <2>1 DEF HandleSessionExpired, LogoutState
    <2>3. QED
      BY <2>2 DEF Usable, EndedHas
  <1>5. \A o \in Requests : rq'[o].pc \notin {"find", "revoke"} \cup Replacing
    BY <1>1, <1>2 DEF Mutex, Holding, Replacing
  <1>6. EndedHas'
    BY <1>1, <1>4, <1>5 DEF EndedHas
  <1>7. rq[q].pc \in Holding
    BY <1>1 DEF Holding
  <1>8. QED
    BY <1>1, <1>2, <1>3, <1>6, <1>7, Holder

LEMMA LoginAnswered ==
  ASSUME NEW u \in UserState, NEW n
  PROVE  /\ [u EXCEPT !.pc = "saveAccess", !.got = n].pc = "saveAccess"
         /\ [u EXCEPT !.pc = "saveAccess", !.got = n].got = n
  BY DEF UserState

LEMMA LoginUsable ==
  ASSUME TypeInv, OneLogin', Usable,
         Login \/ LoginSavesAccess \/ LoginSavesRefresh \/ LoginSavesUser
  PROVE  Usable'
  <1>1. tokens \in Seq(Token)
    BY DEF TypeInv, TypeOK
  <1>2. CASE Login
    <2>1. /\ logins = 0 /\ logins' = 1 /\ Issue(None) /\ UNCHANGED <<store, rq, leaving, sessionEnded>>
          /\ \/ user'.pc = "saveAccess" /\ user'.got = NextPair
             \/ user'.pc = "out"
      <3>1. logins \in Nat /\ logins' = logins + 1 /\ logins' < 2
        BY <1>2 DEF Login, OneLogin, TypeInv, TypeOK
      <3> DEFINE next == NextPair
      <3>2. user \in UserState
        BY DEF TypeInv, TypeOK, UserState
      <3> DEFINE saving == [user EXCEPT !.pc = "saveAccess", !.got = next]
      <3>3. saving.pc = "saveAccess" /\ saving.got = next
        <4> HIDE DEF next
        <4>1. QED
          BY ONLY <3>2, LoginAnswered
      <3>4. /\ user' = saving \/ user' = user
            /\ user.pc = "out" /\ Issue(None) /\ UNCHANGED <<store, rq, leaving, sessionEnded>>
        BY <1>2 DEF Login
      <3> HIDE DEF saving
      <3>5. QED
        BY <3>1, <3>3, <3>4
    <2>2. /\ access = None /\ refresh = None /\ NoneSent
      BY <2>1 DEF Usable, UserHas
    <2>3. NoneSent'
      BY <2>1, <2>2 DEF NoneSent
    <2>4. tokens'[NextPair] = [parent |-> None, revoked |-> FALSE]
      BY <1>1, <2>1, IssueFacts
    <2>5. UserHas'
      BY <2>1, <2>2, <2>3, <2>4 DEF UserHas, store, Works
    <2>6. EndedHas' /\ Stored' /\ \A q \in Requests : RequestHas(q)'
      BY <2>1, <2>2, <2>3 DEF Usable, EndedHas, Stored, RequestHas, NoneSent, Works, store
    <2>7. QED
      BY <2>5, <2>6 DEF Usable
  <1>3. CASE LoginSavesAccess \/ LoginSavesRefresh \/ LoginSavesUser
    <2>1. /\ UNCHANGED <<tokens, rq, leaving, logins, sessionEnded>>
          /\ user.pc \in {"saveAccess", "saveRefresh", "saveUser"}
      BY <1>3 DEF LoginSavesAccess, LoginSavesRefresh, LoginSavesUser
    <2>2. NoneSent /\ logins # 0 /\ NoneSent'
      BY <2>1 DEF Usable, UserHas, NoneSent
    <2>3. \/ /\ access' = user.got /\ Works(user.got)
             /\ user'.pc = "saveRefresh" /\ user'.got = user.got
          \/ /\ refresh' = user.got /\ access' = user.got /\ Works(user.got)
             /\ user'.pc = "saveUser"
          \/ UNCHANGED store /\ user'.pc = "in" /\ access = refresh /\ Works(refresh)
      <3>1. user \in [pc : {"out", "saveAccess", "saveRefresh", "saveUser", "in", "loading"},
                      got : Pairs \cup {None}]
        BY DEF TypeInv, TypeOK
      <3>2. user.pc = "saveUser" => access = refresh /\ Works(refresh)
        BY <2>2 DEF Usable, Stored, NoneSent, Replacing
      <3>3. QED
        BY <1>3, <3>1, <3>2 DEF LoginSavesAccess, LoginSavesRefresh, LoginSavesUser, Usable,
           UserHas, store, LoggedIn
    <2>4. UserHas'
      BY <2>1, <2>2, <2>3 DEF UserHas, Works
    <2>5. EndedHas' /\ \A q \in Requests : RequestHas(q)'
      BY <2>1, <2>2 DEF Usable, EndedHas, RequestHas, NoneSent, Replacing
    <2>6. Stored'
      BY <2>1, <2>3 DEF Stored, Works, store
    <2>7. QED
      BY <2>4, <2>5, <2>6 DEF Usable
  <1>4. QED
    BY <1>2, <1>3

(* A logout follows only an ended session: it finds no token to revoke.     *)
LEMMA LogoutUsable ==
  ASSUME TypeInv, OneLogin', Usable, NEW x \in Leavers,
         Logout \/ LogoutReads(x) \/ LogoutRevokes(x) \/ ClearSession(x)
  PROVE  Usable'
  <1>1. ~Logout
    BY DEF Logout, Trouble, OneLogin
  <1>2. ~LogoutRevokes(x)
    BY DEF LogoutRevokes, Usable, EndedHas
  <1>3. /\ UNCHANGED <<tokens, rq, logins, sessionEnded>> /\ leaving[x].pc # "no"
        /\ \A y \in Leavers \ {x} : leaving'[y] = leaving[y]
    BY <1>1, <1>2 DEF LogoutReads, ClearSession, TypeInv, TypeOK
  <1>4. sessionEnded /\ access = None /\ refresh = None
    BY <1>3 DEF Usable, EndedHas
  <1>5. access' = None /\ refresh' = None
    BY <1>1, <1>2, <1>4 DEF LogoutReads, ClearSession, store
  <1>6. leaving'[x].pc \in {"no", "clear"}
    <2>1. leaving \in [Leavers -> LogoutState]
      BY DEF TypeInv, TypeOK
    <2>2. leaving[x] \in LogoutState
      BY <2>1
    <2>3. CASE LogoutReads(x)
      <3>1. leaving'[x] = [leaving[x] EXCEPT !.refresh = None, !.pc = "clear"]
        BY <1>4, <2>1, <2>3 DEF LogoutReads
      <3>2. QED
        BY <2>2, <3>1 DEF LogoutState
    <2>4. CASE ClearSession(x)
      BY <2>1, <2>4 DEF ClearSession, Staying
    <2>5. QED
      BY <1>1, <1>2, <2>3, <2>4
  <1>7. logins # 0 /\ user.pc \notin {"saveAccess", "saveRefresh", "saveUser"}
    BY <1>4 DEF Usable, UserHas, NoneSent
  <1>8. user'.pc \notin {"saveAccess", "saveRefresh", "saveUser"}
    <2>1. user' = user \/ user' = [user EXCEPT !.pc = "loading"] \/ user' = LoggedOut
      BY <1>1, <1>2 DEF LogoutReads, ClearSession
    <2>2. user \in [pc : {"out", "saveAccess", "saveRefresh", "saveUser", "in", "loading"},
                    got : Pairs \cup {None}]
      BY DEF TypeInv, TypeOK
    <2>3. QED
      BY <1>7, <2>1, <2>2 DEF LoggedOut
  <1>9. UserHas'
    BY <1>3, <1>7, <1>8 DEF UserHas
  <1>10. EndedHas'
    BY <1>3, <1>4, <1>5, <1>6 DEF Usable, EndedHas
  <1>11. Stored' /\ \A q \in Requests : RequestHas(q)'
    BY <1>3, <1>4, <1>5 DEF Usable, EndedHas, Stored, RequestHas, Works, Replacing
  <1>12. QED
    BY <1>9, <1>10, <1>11 DEF Usable

LEMMA TroubleGrows ==
  ASSUME TypeInv, [Next]_vars
  PROVE  mishap \subseteq mishap' /\ logins <= logins' /\ logins \in Nat /\ logins' \in Nat
  <1>1. mishap \subseteq mishap'
    BY RequestMoved DEF Next, RequestAction, Moved, UserStep, Login, LoginSavesAccess,
       LoginSavesRefresh, LoginSavesUser, Logout, LogoutReads, LogoutRevokes, ClearSession,
       Expire, Kill, Trouble, vars
  <1>2. logins' = logins \/ Login
    <2>1. ASSUME NEW q \in Requests, RequestAction(q) PROVE logins' = logins
      BY <2>1 DEF RequestAction, Step, Begin, Send, Arrive, PassOn, TakeError,
         ReadRefreshToken, FindByTokenHash, RevokeByID, CreateToken, SaveAccess, SaveRefresh,
         Resend, Resent, HandleSessionExpired, NetworkError, RefreshFails, RetryFails, app
    <2>2. ASSUME UserStep PROVE logins' = logins \/ Login
      BY <2>2 DEF UserStep, LoginSavesAccess, LoginSavesRefresh, LoginSavesUser, Logout,
         LogoutReads, LogoutRevokes, ClearSession
    <2>3. QED
      BY <2>1, <2>2 DEF Next, RequestAction, Expire, Kill, app, vars
  <1>3. logins \in Nat
    BY DEF TypeInv, TypeOK
  <1>4. QED
    BY <1>1, <1>2, <1>3 DEF Login

LEMMA UsableStep == TypeInv /\ OnceInv /\ UsableInv /\ [Next]_vars => UsableInv'
  <1> SUFFICES ASSUME TypeInv, OnceInv, UsableInv, [Next]_vars, OneLogin'
               PROVE  Usable'
    BY DEF UsableInv
  <1>1. OneLogin
    <2>1. mishap \subseteq mishap' /\ logins <= logins' /\ logins \in Nat /\ logins' \in Nat
      BY TroubleGrows
    <2>2. QED
      BY <2>1 DEF OneLogin
  <1>2. Usable /\ Alone /\ Mutex
    BY <1>1 DEF UsableInv, OnceInv, OneClient, OneLogin
  <1>3. ASSUME NEW q \in Requests, RequestAction(q) PROVE Usable'
    BY <1>2, <1>3, AsideUsable, ReadUsable, FindUsable, RevokeUsable, CreateUsable,
       RefreshFailsUsable, SaveUsable, ExpelUsable DEF RequestAction, Step
  <1>4. ASSUME UserStep PROVE Usable'
    <2>1. "user" \in Leavers
      BY DEF Leavers
    <2>2. QED
      BY <1>2, <1>4, <2>1, LoginUsable, LogoutUsable DEF UserStep
  <1>5. ASSUME (\E n \in 1..Len(tokens) : Expire(n)) \/ UNCHANGED vars
        PROVE  Usable'
    <2>1. UNCHANGED <<tokens, access, refresh, rq, user, leaving, logins, sessionEnded>>
      BY <1>5 DEF Expire, store, app, vars
    <2>2. UserHas'
      BY <1>2, <2>1 DEF Usable, UserHas, NoneSent, Works
    <2>3. EndedHas' /\ Stored'
      BY <1>2, <2>1 DEF Usable, EndedHas, Stored, Works
    <2>4. \A q \in Requests : RequestHas(q)'
      BY <1>2, <2>1 DEF Usable, RequestHas, Works
    <2>5. QED
      BY <2>2, <2>3, <2>4 DEF Usable
  <1>6. ASSUME NEW c \in Clients, Kill(c) PROVE Usable'
    BY <1>6 DEF Kill, Trouble, OneLogin
  <1>7. QED
    BY <1>3, <1>4, <1>5, <1>6 DEF Next, RequestAction

-----------------------------------------------------------------------------
(* Nothing went wrong.                                                      *)

LEMMA GivenGrows ==
  ASSUME TypeInv, [Next]_vars, ExpiredGiven
  PROVE  ExpiredGiven'
  <1>1. \A n \in Given : n \in Given'
    BY NextTokenStep, RowsKept
  <1>2. expired' = expired \/ \E n \in Given : expired' = expired \cup {n}
    <2>1. ASSUME NEW q \in Requests, RequestAction(q) PROVE expired' = expired
      BY <2>1 DEF RequestAction, Step, Begin, Send, Arrive, PassOn, TakeError,
         ReadRefreshToken, FindByTokenHash, RevokeByID, CreateToken, SaveAccess, SaveRefresh,
         Resend, Resent, HandleSessionExpired, NetworkError, RefreshFails, RetryFails
    <2>2. ASSUME UserStep PROVE expired' = expired
      BY <2>2 DEF UserStep, Login, LoginSavesAccess, LoginSavesRefresh, LoginSavesUser, Logout,
         LogoutReads, LogoutRevokes, ClearSession
    <2>3. QED
      BY <2>1, <2>2 DEF Next, RequestAction, Expire, Kill, vars, Given
  <1>3. QED
    BY <1>1, <1>2 DEF ExpiredGiven

(* While a request is under way the user is logged in.                      *)
LEMMA CalmUser ==
  ASSUME TypeInv, Usable, Calm, NEW q \in Requests, rq[q].pc # "idle"
  PROVE  refresh # None /\ user.pc = "in"
  <1>1. user.pc \in {"out", "saveAccess", "saveRefresh", "saveUser", "in", "loading"}
    BY DEF TypeInv, TypeOK
  <1>2. QED
    BY <1>1 DEF Usable, UserHas, NoneSent, Calm

(* A step of a request that leaves the session as it is.                    *)
LEMMA CalmMove ==
  ASSUME Calm, NEW q \in Requests, \A o \in Requests \ {q} : rq'[o] = rq[o],
         UNCHANGED <<expired, refresh, app, sessionEnded>>,
         access' = access \/ (Mutex /\ rq[q].pc \in Holding),
         FreshAt(q)'
  PROVE  Calm'
  <1>1. ASSUME NEW o \in Requests \ {q} PROVE FreshAt(o)'
    BY <1>1 DEF Calm, FreshAt, Mutex, Holding
  <1>2. QED
    BY <1>1 DEF Calm, app

LEMMA CalmRequest ==
  ASSUME TypeInv, [Next]_vars, Alone, Mutex, Usable, Calm, ExpiredGiven, mishap' = {},
         NEW q \in Requests, RequestAction(q)
  PROVE  Calm'
  <1>1. rq[q] \in RequestState /\ rq \in [Requests -> RequestState] /\ FreshAt(q)
    BY DEF TypeInv, TypeOK, Calm
  <1>2. \A o \in Requests \ {q} : rq'[o] = rq[o]
    BY RequestMoved DEF Moved
  <1>3. ~NetworkError(q) /\ ~RefreshFails(q) /\ ~RetryFails(q)
    BY DEF NetworkError, RefreshFails, RetryFails, Trouble
  <1>4. ~PassOn(q) /\ ~HandleSessionExpired(q)
    BY DEF PassOn, HandleSessionExpired, Calm, FreshAt
  <1>5. ASSUME Begin(q) \/ Arrive(q) \/ TakeError(q) PROVE Calm'
    <2>1. PICK stage \in {"send", "done", "refused", "read"} : Goto(q, stage)
      BY <1>5 DEF Begin, Arrive, TakeError
    <2>2. FreshAt(q)'
      BY <2>1, GotoKeeps DEF FreshAt, Stages, Holding
    <2>3. QED
      BY <1>2, <1>5, <2>2, CalmMove DEF Begin, Arrive, TakeError, store
  <1>6. ASSUME Send(q) PROVE Calm'
    <2>1. rq'[q].pc = "sent"
      BY <1>1, <1>6 DEF Send, RequestState
    <2>2. FreshAt(q)'
      BY <2>1 DEF FreshAt
    <2>3. QED
      BY <1>2, <1>6, <2>2, CalmMove DEF Send, store
  <1>7. ASSUME ReadRefreshToken(q) PROVE Calm'
    <2>1. refresh # None
      BY <1>7, CalmUser DEF ReadRefreshToken
    <2>2. rq'[q].pc = "find"
      BY <1>1, <1>7, <2>1 DEF ReadRefreshToken, RequestState
    <2>3. FreshAt(q)'
      BY <2>2 DEF FreshAt
    <2>4. QED
      BY <1>2, <1>7, <2>3, CalmMove DEF ReadRefreshToken, store
  <1>8. ASSUME FindByTokenHash(q) \/ RevokeByID(q) PROVE Calm'
    <2>1. ASSUME FindByTokenHash(q) PROVE ~tokens[rq[q].refresh].revoked
      <3>1. rq[q].pc = "find" /\ rq[q].pc \in Holding
        BY <2>1 DEF FindByTokenHash, Holding
      <3>2. rq[q].refresh = refresh /\ refresh # None /\ user.pc = "in"
        BY <3>1, CalmUser DEF Usable, RequestHas
      <3>3. ASSUME NEW o \in Requests, rq[o].pc \in Replacing \cup {"expel"} PROVE FALSE
        BY <3>1, <3>3 DEF Mutex, Replacing, Holding
      <3>4. Works(refresh)
        BY <3>2, <3>3 DEF Usable, Stored
      <3>5. QED
        BY <3>2, <3>4 DEF Works
    <2>2. Goto(q, IF rq[q].pc = "find" THEN "revoke" ELSE "create")
      BY <1>8, <2>1 DEF FindByTokenHash, RevokeByID
    <2>3. rq'[q].pc \in {"revoke", "create"}
      BY <2>2, GotoKeeps DEF Stages, Holding
    <2>4. FreshAt(q)'
      BY <2>3 DEF FreshAt
    <2>5. QED
      BY <1>2, <1>8, <2>4, CalmMove DEF FindByTokenHash, RevokeByID, store
  <1>9. ASSUME CreateToken(q) PROVE Calm'
    <2>1. rq'[q].pc = "saveAccess" /\ rq'[q].got = NextPair
      BY <1>9, CreateUsable
    <2>2. NextPair \notin Given /\ NextPair \in Pairs /\ expired' = expired
      BY <1>9 DEF CreateToken, NextPair, Given, Pairs, TypeInv, TypeOK
    <2>3. FreshAt(q)'
      BY <2>1, <2>2 DEF FreshAt, ExpiredGiven
    <2>4. QED
      BY <1>2, <1>9, <2>3, CalmMove DEF CreateToken, store
  <1>10. ASSUME SaveAccess(q) PROVE Calm'
    <2>1. rq'[q].pc = "saveRefresh" /\ rq'[q].got = rq[q].got
      BY <1>10, GotoKeeps DEF SaveAccess, Stages, Holding
    <2>2. FreshAt(q)'
      BY <1>1, <1>10, <2>1 DEF SaveAccess, FreshAt
    <2>3. rq[q].pc \in Holding /\ UNCHANGED <<expired, refresh, app, sessionEnded>>
      BY <1>10 DEF SaveAccess, Holding
    <2>4. QED
      BY <1>2, <2>2, <2>3, CalmMove
  <1>11. ASSUME SaveRefresh(q) PROVE Calm'
    <2>1. /\ rq[q].pc = "saveRefresh" /\ rq[q].got # None /\ access = rq[q].got
          /\ refresh' = rq[q].got /\ UNCHANGED <<expired, access, app, sessionEnded>>
      BY <1>1, <1>11 DEF SaveRefresh, FreshAt, Usable, RequestHas
    <2>2. rq'[q].pc = "resend" /\ rq'[q].got = rq[q].got
      BY <1>11, GotoKeeps DEF SaveRefresh, Stages, Holding
    <2>3. FreshAt(q)'
      BY <1>1, <2>1, <2>2 DEF FreshAt
    <2>4. \A o \in Requests \ {q} : FreshAt(o)'
      BY <1>2, <2>1 DEF Calm, FreshAt
    <2>5. QED
      BY <2>1, <2>3, <2>4 DEF Calm, app
  <1>12. ASSUME Resend(q) PROVE Calm'
    <2>1. rq'[q].pc = "resent" /\ rq'[q].access = access /\ rq'[q].got = rq[q].got
      BY <1>1, <1>12 DEF Resend, RequestState
    <2>2. FreshAt(q)'
      BY <1>1, <1>12, <2>1 DEF Resend, FreshAt
    <2>3. QED
      BY <1>2, <1>12, <2>2, CalmMove DEF Resend, store
  <1>13. ASSUME Resent(q) PROVE Calm'
    <2>1. Accepted(rq[q].access)
      BY <1>1, <1>13 DEF Resent, FreshAt, Accepted
    <2>2. rq'[q].pc = "done"
      BY <1>13, <2>1, GotoKeeps DEF Resent, Stages
    <2>3. FreshAt(q)'
      BY <2>2 DEF FreshAt
    <2>4. QED
      BY <1>2, <1>13, <2>3, CalmMove DEF Resent, store
  <1>14. QED
    BY <1>3, <1>4, <1>5, <1>6, <1>7, <1>8, <1>9, <1>10, <1>11, <1>12, <1>13
       DEF RequestAction, Step

LEMMA CalmLogin ==
  ASSUME TypeInv, Usable, Calm, mishap' = {}, UserStep
  PROVE  Calm'
  <1>1. user \in UserState
    BY DEF TypeInv, TypeOK, UserState
  <1>2. \A x \in Leavers : leaving[x].pc = "no"
    BY DEF Usable, EndedHas, Calm
  <1>3. Login \/ LoginSavesAccess \/ LoginSavesRefresh \/ LoginSavesUser
    BY <1>2 DEF UserStep, Logout, LogoutReads, LogoutRevokes, ClearSession, Trouble
  <1>4. UNCHANGED <<expired, rq, sessionEnded>>
    BY <1>3 DEF Login, LoginSavesAccess, LoginSavesRefresh, LoginSavesUser
  <1>5. logins \in Nat /\ NoneSent
    BY <1>3 DEF Login, LoginSavesAccess, LoginSavesRefresh, LoginSavesUser, Usable, UserHas,
       Calm, TypeInv, TypeOK
  <1>6. \A q \in Requests : FreshAt(q)'
    BY <1>4, <1>5 DEF FreshAt, NoneSent
  <1>7. ASSUME Login PROVE Calm'
    <2> DEFINE next == NextPair
               saving == [user EXCEPT !.pc = "saveAccess", !.got = next]
    <2>1. logins' = 1
      BY <1>7 DEF Login, Calm
    <2>2. user' = saving
      BY <1>7 DEF Login, Trouble
    <2>3. saving.pc = "saveAccess"
      <3> HIDE DEF next
      <3>1. QED
        BY ONLY <1>1, LoginAnswered
    <2> HIDE DEF saving
    <2>4. QED
      BY <1>4, <1>6, <2>1, <2>2, <2>3 DEF Calm
  <1>8. ASSUME LoginSavesAccess \/ LoginSavesRefresh \/ LoginSavesUser PROVE Calm'
    <2>1. user'.pc \in {"saveRefresh", "saveUser", "in"} /\ logins' = logins
      BY <1>1, <1>8 DEF LoginSavesAccess, LoginSavesRefresh, LoginSavesUser, UserState, LoggedIn
    <2>2. user'.pc \in {"saveUser", "in"} => refresh' # None
      <3>1. user.pc = "saveRefresh" => user.got \in Pairs
        BY DEF TypeInv, PairsGiven, LoginGiven, Given, Pairs
      <3>2. QED
        BY <1>1, <1>8, <3>1 DEF LoginSavesAccess, LoginSavesRefresh, LoginSavesUser, UserState,
           store, Calm
    <2>3. QED
      BY <1>4, <1>6, <2>1, <2>2 DEF Calm
  <1>9. QED
    BY <1>3, <1>7, <1>8

LEMMA CalmStep ==
  TypeInv /\ OnceInv /\ UsableInv /\ CalmInv /\ ExpiredGiven /\ [Next]_vars => CalmInv'
  <1> SUFFICES ASSUME TypeInv, OnceInv, UsableInv, CalmInv, ExpiredGiven, [Next]_vars,
                      mishap' = {}
               PROVE  Calm'
    BY DEF CalmInv
  <1>1. mishap = {}
    BY TroubleGrows
  <1>2. Calm /\ Usable /\ Alone /\ Mutex
    BY <1>1 DEF CalmInv, Calm, UsableInv, OnceInv, OneClient, OneLogin
  <1>3. ASSUME NEW n \in 1..Len(tokens), Expire(n) PROVE Calm'
    <2>1. /\ UNCHANGED <<store, rq, app, sessionEnded>> /\ expired' = expired \cup {n}
          /\ \A q \in Requests : rq[q].got = n => rq[q].pc = "blocked"
      BY <1>3 DEF Expire, Fresh
    <2>2. \A q \in Requests : FreshAt(q)'
      BY <1>2, <2>1 DEF Calm, FreshAt, store
    <2>3. QED
      BY <1>2, <2>1, <2>2 DEF Calm, app, store
  <1>4. ASSUME NEW c \in Clients, Kill(c) PROVE Calm'
    BY <1>4 DEF Kill, Trouble
  <1>5. ASSUME UNCHANGED vars PROVE Calm'
    BY <1>2, <1>5 DEF vars, Calm, FreshAt
  <1>6. QED
    BY <1>2, <1>3, <1>4, <1>5, CalmRequest, CalmLogin DEF Next, RequestAction

LEMMA SessionAlways == Spec => [](OnceInv /\ UsableInv /\ CalmInv)
  BY SafeRotation, InitOnce, OnceStep, InitUsable, UsableStep, CalmStep, GivenGrows, PTL DEF Spec

(* A user for whom nothing went wrong is never thrown out, however many     *)
(* requests find their access token expired at the same time: each refresh  *)
(* finds the token that the one before it stored.                           *)
THEOREM NobodyExpelled == Spec => []NotExpelled
  <1>1. CalmInv => NotExpelled
    BY DEF CalmInv, Calm, NotExpelled
  <1>2. QED
    BY <1>1, SessionAlways, PTL

(* Between refreshes the stored pair is one pair whose refresh token works, *)
(* or there is none, also when refreshes fail half way: of a first login,   *)
(* with no logout, kill or request in the background.                       *)
THEOREM SessionStaysUsable == Spec => []SessionUsable
  <1>1. UsableInv => SessionUsable
    <2> SUFFICES ASSUME UsableInv, Settled, mishap \subseteq {"network", "retry"}, logins < 2
                 PROVE  access = refresh /\ (refresh # None => ~tokens[refresh].revoked)
      BY DEF SessionUsable
    <2>1. Usable
      BY DEF UsableInv, OneLogin
    <2>2. user.pc # "saveRefresh" /\ \A q \in Requests : rq[q].pc \notin Replacing \cup {"expel"}
      BY DEF Settled, Holding, Replacing
    <2>3. QED
      BY <2>1, <2>2 DEF Usable, Stored, Works
  <1>2. QED
    BY <1>1, SessionAlways, PTL
=============================================================================
