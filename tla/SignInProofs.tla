---------------------------- MODULE SignInProofs ----------------------------
(***************************************************************************)
(* The safety of signing in, proved for any number of pubkeys, nonces,     *)
(* clients, concurrent calls and failures.                                 *)
(***************************************************************************)
EXTENDS SignIn, TLAPS

(* Lemmas about calls.                                                     *)

\* The parts of the invariant that do not mention sessions.
Protocol ==
  /\ CallsRely /\ CallsAreAlone /\ FreshIsUnused
  /\ StoreIsUntaken /\ TokensAreEarned /\ ChallengeStaysUsable

Underway == [at : Stages, client : Clients, pubkey : Pubkeys, nonce : Nonces]

\* What the type invariant says of a call that is under way.
LEMMA CallFields ==
  ASSUME TypeOK, NEW c \in Calls, call[c] # None
  PROVE  /\ call[c].client \in Clients /\ call[c].pubkey \in Pubkeys
         /\ call[c].at \in Stages => call[c].nonce \in Nonces /\ call[c] \in Underway
  BY DEF TypeOK, Call, Early, Stages, Underway

\* A call that starts or goes on is one of Call, and the others stay.
LEMMA NewCallIsTyped ==
  ASSUME TypeOK, NEW c \in Calls, NEW v \in Call, call' = [call EXCEPT ![c] = v]
  PROVE  /\ call' \in [Calls -> Call \cup {None}]
         /\ call'[c] = v /\ v # None
         /\ \A d \in Calls \ {c} : call'[d] = call[d]
  BY NoneIsNothing DEF TypeOK

\* Going on within the steps that have a nonce changes the step alone.
LEMMA GoOnKeeps ==
  ASSUME TypeOK, NEW c \in Calls, call[c] # None, call[c].at \in Stages,
         NEW stage \in Stages, GoOn(c, stage)
  PROVE  /\ call' \in [Calls -> Call \cup {None}]
         /\ call'[c] # None
         /\ call'[c].at = stage /\ call'[c].nonce = call[c].nonce
         /\ call'[c].pubkey = call[c].pubkey
         /\ \A d \in Calls \ {c} : call'[d] = call[d]
<1>1. call[c] \in Underway
  BY CallFields
<1>2. [call[c] EXCEPT !.at = stage] \in Underway
  BY <1>1 DEF Underway
<1>3. Underway \subseteq Call
  BY DEF Underway, Call
<1>4. call' = [call EXCEPT ![c] = [call[c] EXCEPT !.at = stage]]
  BY DEF GoOn
<1>5. /\ [call[c] EXCEPT !.at = stage].at = stage
      /\ [call[c] EXCEPT !.at = stage].nonce = call[c].nonce
      /\ [call[c] EXCEPT !.at = stage].pubkey = call[c].pubkey
  BY <1>1 DEF Underway
<1>6. QED
  BY <1>2, <1>3, <1>4, <1>5, NewCallIsTyped

\* A call that ends leaves the others.
LEMMA ReturnKeeps ==
  ASSUME TypeOK, NEW c \in Calls, Return(c)
  PROVE  /\ call' \in [Calls -> Call \cup {None}]
         /\ call'[c] = None
         /\ \A d \in Calls \ {c} : call'[d] = call[d]
  BY DEF TypeOK, Return

\* A call that ends changes nothing of the protocol.
LEMMA CallEnds ==
  ASSUME TypeOK, Protocol, NEW c \in Calls, Return(c), UNCHANGED <<authVars, ghostVars>>
  PROVE  Protocol'
<1>1. call'[c] = None /\ \A d \in Calls \ {c} : call'[d] = call[d]
  BY ReturnKeeps
<1>2. QED
  BY <1>1
  DEF authVars, tokenVars, ghostVars, Protocol, CallsRely, Relies, At,
      CallsAreAlone, FreshIsUnused, Fresh, Stages,
     StoreIsUntaken, TokensAreEarned, ChallengeStaysUsable

\* A call that starts with a signed message, or with a session, changes nothing
\* of the protocol.
LEMMA CallStarts ==
  ASSUME TypeOK, Protocol, NEW c \in Calls, NEW v \in Call,
         call' = [call EXCEPT ![c] = v], UNCHANGED <<authVars, ghostVars>>,
         \/ v.at = "challenge"
         \/ v.at = "verify" /\ v.nonce \in Nonces /\ signature[v.nonce] # "none"
         \/ /\ v.at = "write" /\ v.nonce \in Nonces
            /\ issued[v.nonce] = 1 /\ subject[v.nonce] = v.pubkey
  PROVE  Protocol'
<1>1. call'[c] = v /\ v # None /\ \A d \in Calls \ {c} : call'[d] = call[d]
  BY NewCallIsTyped
<1>2. CallsRely'
  BY <1>1 DEF CallsRely, Relies, At, authVars, tokenVars, ghostVars, Protocol
<1>3. CallsAreAlone'
  BY <1>1 DEF CallsAreAlone, At, Protocol
<1>4. FreshIsUnused'
  BY <1>1
  DEF FreshIsUnused, Fresh, At, Stages, CallsRely, Relies, TokensAreEarned,
     authVars, tokenVars, ghostVars, Protocol
<1>5. StoreIsUntaken'
  BY <1>1 DEF StoreIsUntaken, authVars, ghostVars, Protocol
<1>6. TokensAreEarned'
  BY <1>1 DEF TokensAreEarned, authVars, tokenVars, ghostVars, Protocol
<1>7. ChallengeStaysUsable'
  BY <1>1 DEF ChallengeStaysUsable, authVars, ghostVars, Protocol
<1>8. QED
  BY <1>2, <1>3, <1>4, <1>5, <1>6, <1>7 DEF Protocol

\* A call that goes on keeps the protocol when it may rely on what its new step
\* asks for and is alone there.
LEMMA CallGoesOn ==
  ASSUME TypeOK, Protocol, NEW c \in Calls, call[c] # None, call[c].at \in Stages,
         NEW stage \in Stages, GoOn(c, stage), Relies(c)',
         stage \notin {"sign", "check"}, UNCHANGED <<authVars, ghostVars>>
  PROVE  Protocol'
<1>1. /\ call'[c] # None /\ call'[c].at = stage /\ call'[c].nonce = call[c].nonce
      /\ \A d \in Calls \ {c} : call'[d] = call[d]
  BY GoOnKeeps
<1>2. CallsRely'
  BY <1>1 DEF CallsRely, Relies, At, authVars, tokenVars, ghostVars, Protocol
<1>3. CallsAreAlone'
  BY <1>1 DEF CallsAreAlone, At, Protocol
<1>4. FreshIsUnused'
  BY <1>1
  DEF FreshIsUnused, Fresh, At, Stages, CallsRely, Relies, TokensAreEarned,
     authVars, tokenVars, ghostVars, Protocol
<1>5. StoreIsUntaken'
  BY <1>1 DEF StoreIsUntaken, authVars, ghostVars, Protocol
<1>6. TokensAreEarned'
  BY <1>1 DEF TokensAreEarned, authVars, tokenVars, ghostVars, Protocol
<1>7. ChallengeStaysUsable'
  BY <1>1 DEF ChallengeStaysUsable, authVars, ghostVars, Protocol
<1>8. QED
  BY <1>2, <1>3, <1>4, <1>5, <1>6, <1>7 DEF Protocol

\* What nothing touches stays.
LEMMA ProtocolStays ==
  ASSUME Protocol, UNCHANGED <<authVars, call, ghostVars>>
  PROVE  Protocol'
  BY
  DEF authVars, tokenVars, ghostVars, Protocol, CallsRely, Relies, At,
      CallsAreAlone, FreshIsUnused, Fresh, Stages,
     StoreIsUntaken, TokensAreEarned, ChallengeStaysUsable

\* Sessions stay whole while no token is issued and none is stored.
LEMMA SessionsStay ==
  ASSUME SessionsKept, UNCHANGED <<tokenVars, kept, session>>
  PROVE  SessionsKept'
  BY DEF SessionsKept, Whole, tokenVars

-----------------------------------------------------------------------------
(* The invariant is inductive.                                             *)

\* Nothing has happened yet.
LEMMA InitIsSafe == Init => IInv
<1> SUFFICES ASSUME Init PROVE IInv
  OBVIOUS
<1>1. TypeOK
  BY SignInConstants DEF Init, TypeOK
<1>2. Protocol
  BY
  DEF Init, Protocol, CallsRely, Relies, At, CallsAreAlone, FreshIsUnused,
      Fresh, Stages,
     StoreIsUntaken, TokensAreEarned, ChallengeStaysUsable
<1>3. SessionsKept
  BY DEF Init, SessionsKept
<1>4. QED
  BY <1>1, <1>2, <1>3 DEF IInv, Protocol

\* A call that ends with no effect.
LEMMA EndsKeep ==
  ASSUME IInv, NEW c \in Calls,
         ChallengeFails(c) \/ Decline(c) \/ Authenticate(c) \/ Lost(c)
  PROVE  IInv'
<1>0. TypeOK /\ Protocol /\ SessionsKept
  BY DEF IInv, Protocol
<1>1. /\ Return(c) /\ faults' \in 0..MaxFaults
      /\ UNCHANGED <<authVars, late, dead, session, kept, ghostVars>>
  BY <1>0, SignInConstants
  DEF ChallengeFails, Decline, Authenticate, Lost, Fault, TypeOK
<1>2. TypeOK'
  BY <1>0, <1>1, ReturnKeeps DEF TypeOK, authVars, tokenVars, ghostVars
<1>3. Protocol'
  BY <1>0, <1>1, CallEnds
<1>4. SessionsKept'
  BY <1>0, <1>1, SessionsStay DEF authVars
<1>5. QED
  BY <1>2, <1>3, <1>4 DEF IInv, Protocol

\* connect() starts a call without a nonce.
LEMMA ConnectKeeps ==
  ASSUME IInv, NEW c \in Calls, NEW cl \in Clients, NEW pk \in Pubkeys, Connect(c, cl, pk)
  PROVE  IInv'
<1>0. TypeOK /\ Protocol /\ SessionsKept
  BY DEF IInv, Protocol
<1> DEFINE v == [at |-> "challenge", client |-> cl, pubkey |-> pk]
<1>1. v \in Call /\ call' = [call EXCEPT ![c] = v]
  BY <1>0 DEF Connect, Call, Early, Stages, TypeOK, Session
<1>2. TypeOK'
  BY <1>0, <1>1, NewCallIsTyped
  DEF Connect, TypeOK, authVars, tokenVars, ghostVars
<1>3. Protocol'
  BY <1>0, <1>1, CallStarts DEF Connect, TypeOK, SessionsKept, Whole, Session
<1>4. SessionsKept'
  BY <1>0, SessionsStay DEF Connect, authVars, tokenVars, ghostVars
<1>5. QED
  BY <1>2, <1>3, <1>4 DEF IInv, Protocol

\* verify() starts with a signed message.
LEMMA VerifyKeeps ==
  ASSUME IInv, NEW c \in Calls, NEW cl \in Clients,
         NEW n \in Nonces, NEW pk \in Pubkeys, Verify(c, cl, n, pk)
  PROVE  IInv'
<1>0. TypeOK /\ Protocol /\ SessionsKept
  BY DEF IInv, Protocol
<1> DEFINE v == [at |-> "verify", client |-> cl, pubkey |-> pk, nonce |-> n]
<1>1. v \in Call /\ call' = [call EXCEPT ![c] = v]
  BY <1>0 DEF Verify, Call, Early, Stages, TypeOK, Session
<1>2. TypeOK'
  BY <1>0, <1>1, NewCallIsTyped
  DEF Verify, TypeOK, authVars, tokenVars, ghostVars
<1>3. Protocol'
  BY <1>0, <1>1, CallStarts DEF Verify, TypeOK, SessionsKept, Whole, Session
<1>4. SessionsKept'
  BY <1>0, SessionsStay DEF Verify, authVars, tokenVars, ghostVars
<1>5. QED
  BY <1>2, <1>3, <1>4 DEF IInv, Protocol

\* A write starts with a session, which is whole.
LEMMA WriteKeeps ==
  ASSUME IInv, NEW c \in Calls, NEW cl \in Clients, Write(c, cl)
  PROVE  IInv'
<1>0. TypeOK /\ Protocol /\ SessionsKept
  BY DEF IInv, Protocol
<1> DEFINE v == [at |-> "write", client |-> cl,
              pubkey |-> session[cl].pubkey, nonce |-> session[cl].token]
<1>1. v \in Call /\ call' = [call EXCEPT ![c] = v]
  BY <1>0 DEF Write, Call, Early, Stages, TypeOK, Session
<1>2. TypeOK'
  BY <1>0, <1>1, NewCallIsTyped
  DEF Write, TypeOK, authVars, tokenVars, ghostVars
<1>3. Protocol'
  BY <1>0, <1>1, CallStarts DEF Write, TypeOK, SessionsKept, Whole, Session
<1>4. SessionsKept'
  BY <1>0, SessionsStay DEF Write, authVars, tokenVars, ghostVars
<1>5. QED
  BY <1>2, <1>3, <1>4 DEF IInv, Protocol

\* The nonce of a challenge is one that nothing names.
LEMMA ChallengeKeeps ==
  ASSUME IInv, NEW c \in Calls, Challenge(c)
  PROVE  IInv'
<1>0. TypeOK /\ Protocol /\ SessionsKept
  BY DEF IInv, Protocol
<1> DEFINE v(n) == [at |-> "sign", client |-> call[c].client,
                 pubkey |-> call[c].pubkey, nonce |-> n]
<1>1. PICK n \in Fresh :
        /\ message' = [message EXCEPT ![n] = call[c].pubkey]
        /\ store' = store \cup {<<call[c].pubkey, n>>}
        /\ call' = [call EXCEPT ![c] = v(n)]
  BY DEF Challenge, Put
<1>2. /\ call[c] # None /\ call[c].at = "challenge"
      /\ call[c].client \in Clients /\ call[c].pubkey \in Pubkeys /\ n \in Nonces
      /\ UNCHANGED <<signature, issued, subject, late, dead, session, kept, faults, reaped, taken>>
  BY <1>0, CallFields DEF Challenge, At, Fresh, tokenVars, ghostVars
<1>3. v(n) \in Call
  BY <1>2 DEF Call, Stages
<1>4. /\ call' \in [Calls -> Call \cup {None}] /\ call'[c] = v(n) /\ v(n) # None
      /\ \A d \in Calls \ {c} : call'[d] = call[d]
  BY <1>0, <1>1, <1>3, NewCallIsTyped
<1>5. TypeOK'
  BY <1>0, <1>1, <1>2, <1>4 DEF TypeOK
<1>6. /\ message[n] = None /\ signature[n] = "none" /\ n \notin taken
      /\ \A d \in Calls, stage \in Stages : At(d, stage) => call[d].nonce # n
      /\ message'[n] = call[c].pubkey /\ message'[n] # None
      /\ \A m \in Nonces \ {n} : message'[m] = message[m]
  BY <1>0, <1>1, <1>2, NoneIsNothing DEF Protocol, FreshIsUnused, Fresh, TypeOK
<1>7. CallsRely'
  <2>1. SUFFICES ASSUME NEW d \in Calls PROVE Relies(d)'
    BY DEF CallsRely
  <2>2. CASE d = c
    BY <1>2, <1>4, <1>6, <2>2 DEF Relies, At
  <2>3. CASE d # c /\ call[d] = None
    BY <1>4, <2>3 DEF Relies, At
  <2>4. CASE d # c /\ call[d] # None
    <3>1. Relies(d) /\ call'[d] = call[d]
      BY <1>0, <1>4, <2>4 DEF Protocol, CallsRely
    <3>2. call[d].at \in Stages => call[d].nonce \in Nonces \ {n}
      BY <1>0, <1>6, <2>4, CallFields DEF At
    <3>3. QED
      BY <1>2, <1>6, <2>4, <3>1, <3>2 DEF Relies, At, Stages
  <2>5. QED
    BY <2>2, <2>3, <2>4
<1>8. CallsAreAlone'
  BY <1>0, <1>4, <1>6 DEF Protocol, CallsAreAlone, At, Stages
<1>9. FreshIsUnused'
  BY <1>0, <1>2, <1>4, <1>6 DEF Protocol, FreshIsUnused, Fresh, At
<1>10. StoreIsUntaken'
  <2>1. ASSUME NEW key \in store PROVE message'[key[2]] = key[1] /\ key[2] \notin taken
    <3>1. key[1] \in Pubkeys /\ key[2] \in Nonces /\ message[key[2]] = key[1] /\ key[2] \notin taken
      BY <1>0, <2>1 DEF Protocol, StoreIsUntaken, TypeOK
    <3>2. QED
      BY <1>6, <3>1, NoneIsNothing
  <2>2. QED
    BY <1>1, <1>2, <1>6, <2>1 DEF StoreIsUntaken
<1>11. TokensAreEarned'
  BY <1>0, <1>2, <1>6 DEF Protocol, TokensAreEarned
<1>12. ChallengeStaysUsable'
  BY <1>0, <1>1, <1>2, <1>6 DEF Protocol, ChallengeStaysUsable
<1>13. SessionsKept'
  BY <1>0, <1>2, SessionsStay DEF tokenVars
<1>14. QED
  BY <1>5, <1>7, <1>8, <1>9, <1>10, <1>11, <1>12, <1>13 DEF Protocol, IInv

\* A message is signed once, and by nobody else's call.
LEMMA SignKeeps ==
  ASSUME IInv, NEW c \in Calls, Sign(c)
  PROVE  IInv'
<1>0. TypeOK /\ Protocol /\ SessionsKept
  BY DEF IInv, Protocol
<1> DEFINE n == call[c].nonce
<1>1. PICK made \in {"good", "bad"} : signature' = [signature EXCEPT ![n] = made]
  BY DEF Sign
<1>2. /\ call[c] # None /\ call[c].at = "sign" /\ GoOn(c, "verify") /\ n \in Nonces
      /\ UNCHANGED <<message, store, issued, subject, late, dead, session, kept, faults, reaped, taken>>
  BY <1>0, CallFields DEF Sign, At, Stages, tokenVars, ghostVars
<1>3. /\ call' \in [Calls -> Call \cup {None}]
      /\ call'[c] # None /\ call'[c].at = "verify" /\ call'[c].nonce = n
      /\ \A d \in Calls \ {c} : call'[d] = call[d]
  BY <1>0, <1>2, GoOnKeeps DEF Stages
<1>4. TypeOK'
  BY <1>0, <1>1, <1>2, <1>3 DEF TypeOK
<1>5. /\ signature[n] = "none" /\ signature'[n] # "none" /\ message[n] # None
      /\ \A m \in Nonces \ {n} : signature'[m] = signature[m]
  BY <1>0, <1>1, <1>2, NoneIsNothing, CallFields
  DEF Protocol, CallsRely, Relies, At, TypeOK
<1>6. \A d \in Calls \ {c} : At(d, "sign") => call[d].nonce # n
  BY <1>0, <1>2 DEF Protocol, CallsAreAlone, At
<1>7. CallsRely'
  <2>1. SUFFICES ASSUME NEW d \in Calls PROVE Relies(d)'
    BY DEF CallsRely
  <2>2. CASE d = c
    BY <1>2, <1>3, <1>5, <2>2 DEF Relies, At
  <2>3. CASE d # c
    <3>1. Relies(d) /\ call'[d] = call[d]
      BY <1>0, <1>3, <2>3 DEF Protocol, CallsRely
    <3>2. call[d] # None /\ call[d].at \in Stages => call[d].nonce \in Nonces
      BY <1>0, CallFields
    <3>3. QED
      BY <1>2, <1>5, <1>6, <2>3, <3>1, <3>2 DEF Relies, At, Stages
  <2>4. QED
    BY <2>2, <2>3
<1>8. CallsAreAlone'
  BY <1>0, <1>3 DEF Protocol, CallsAreAlone, At
<1>9. FreshIsUnused'
  BY <1>0, <1>2, <1>3, <1>5 DEF Protocol, FreshIsUnused, Fresh, At, Stages
<1>10. StoreIsUntaken' /\ ChallengeStaysUsable'
  BY <1>0, <1>2 DEF Protocol, StoreIsUntaken, ChallengeStaysUsable
<1>11. TokensAreEarned'
  BY <1>0, <1>2, <1>5 DEF Protocol, TokensAreEarned
<1>12. SessionsKept'
  BY <1>0, <1>2, SessionsStay DEF tokenVars
<1>13. QED
  BY <1>4, <1>7, <1>8, <1>9, <1>10, <1>11, <1>12 DEF Protocol, IInv

\* A request goes on to take the nonce of a message that names its pubkey.
LEMMA ReadMessageKeeps ==
  ASSUME IInv, NEW c \in Calls, ReadMessage(c)
  PROVE  IInv'
<1>0. TypeOK /\ Protocol /\ SessionsKept
  BY DEF IInv, Protocol
<1>1. /\ call[c] # None /\ call[c].at = "verify" /\ call[c].nonce \in Nonces
      /\ UNCHANGED <<authVars, late, dead, session, kept, faults, ghostVars>>
  BY <1>0, CallFields DEF ReadMessage, At, Stages
<1>2. CASE Return(c)
  <2>1. TypeOK'
    BY <1>0, <1>1, <1>2, ReturnKeeps DEF TypeOK, authVars, tokenVars, ghostVars
  <2>2. Protocol'
    BY <1>0, <1>1, <1>2, CallEnds
  <2>3. QED
    BY <1>0, <1>1, <2>1, <2>2, SessionsStay DEF authVars, IInv, Protocol
<1>3. CASE GoOn(c, "take") /\ message[call[c].nonce] = call[c].pubkey
  <2>1. /\ call' \in [Calls -> Call \cup {None}]
        /\ call'[c] # None /\ call'[c].at = "take" /\ call'[c].nonce = call[c].nonce
        /\ call'[c].pubkey = call[c].pubkey
    BY <1>0, <1>1, <1>3, GoOnKeeps DEF Stages
  <2>2. TypeOK'
    BY <1>0, <1>1, <2>1 DEF TypeOK, authVars, tokenVars, ghostVars
  <2>3. signature[call[c].nonce] # "none"
    BY <1>0, <1>1 DEF Protocol, CallsRely, Relies, At
  <2>4. Relies(c)'
    BY <1>1, <1>3, <2>1, <2>3 DEF Relies, At, authVars
  <2>5. Protocol'
    BY <1>0, <1>1, <1>3, <2>4, CallGoesOn DEF Stages
  <2>6. QED
    BY <1>0, <1>1, <2>2, <2>5, SessionsStay DEF authVars, IInv, Protocol
<1>4. QED
  BY <1>2, <1>3 DEF ReadMessage, MayTake

\* GETDEL removes the key of a message that has no token for good.
LEMMA GetdelKeeps ==
  ASSUME IInv, NEW c \in Calls, At(c, "take"), Key(c) \in store, Getdel(c),
         UNCHANGED <<message, signature, tokenVars, late, dead, session, kept, reaped>>,
         faults' \in 0..MaxFaults, Return(c) \/ GoOn(c, "check")
  PROVE  IInv'
<1>0. TypeOK /\ Protocol /\ SessionsKept
  BY DEF IInv, Protocol
<1> DEFINE n == call[c].nonce
<1>1. /\ call[c] # None /\ call[c].at = "take" /\ n \in Nonces
      /\ message[n] = call[c].pubkey /\ message[n] # None /\ signature[n] # "none"
      /\ n \notin taken /\ issued[n] = 0
      /\ store' = store \ {<<message[n], n>>} /\ taken' = taken \cup {n}
  <2>1. call[c] # None /\ call[c].at = "take" /\ n \in Nonces /\ call[c].pubkey \in Pubkeys
    BY <1>0, CallFields DEF At, Stages
  <2>2. message[n] = call[c].pubkey /\ signature[n] # "none"
    BY <1>0, <2>1 DEF Protocol, CallsRely, Relies, At
  <2>3. n \notin taken
    BY <1>0 DEF Protocol, StoreIsUntaken, Key
  <2>4. issued[n] = 0
    BY <1>0, <2>1, <2>3 DEF Protocol, TokensAreEarned
  <2>5. QED
    BY <2>1, <2>2, <2>3, <2>4, NoneIsNothing DEF Getdel, Key
<1>2. /\ call' \in [Calls -> Call \cup {None}]
      /\ \A d \in Calls \ {c} : call'[d] = call[d]
      /\ \/ call'[c] = None
         \/ /\ call'[c] # None /\ call'[c].at = "check" /\ call'[c].nonce = n
            /\ call'[c].pubkey = call[c].pubkey
  <2>1. CASE Return(c)
    BY <1>0, <2>1, ReturnKeeps
  <2>2. CASE GoOn(c, "check")
    BY <1>0, <1>1, <2>2, GoOnKeeps DEF Stages
  <2>3. QED
    BY <2>1, <2>2
<1>3. TypeOK'
  BY <1>0, <1>1, <1>2 DEF TypeOK, tokenVars
<1>4. CallsRely'
  <2>1. SUFFICES ASSUME NEW d \in Calls PROVE Relies(d)'
    BY DEF CallsRely
  <2>2. CASE d = c
    BY <1>1, <1>2, <2>2 DEF Relies, At, tokenVars
  <2>3. CASE d # c
    <3>1. Relies(d) /\ call'[d] = call[d]
      BY <1>0, <1>2, <2>3 DEF Protocol, CallsRely
    <3>2. QED
      BY <1>1, <3>1 DEF Relies, At, tokenVars
  <2>4. QED
    BY <2>2, <2>3
<1>5. CallsAreAlone'
  <2>1. \A d \in Calls : At(d, "check") => call[d].nonce # n
    BY <1>0, <1>1 DEF Protocol, CallsRely, Relies
  <2>2. QED
    BY <1>0, <1>2, <2>1 DEF Protocol, CallsAreAlone, At
<1>6. FreshIsUnused'
  BY <1>0, <1>1, <1>2 DEF Protocol, FreshIsUnused, Fresh, At, Stages
<1>7. StoreIsUntaken'
  <2>1. SUFFICES ASSUME NEW key \in store, key # <<message[n], n>>
                 PROVE  message[key[2]] = key[1] /\ key[2] \notin taken /\ key[2] # n
    BY <1>1 DEF StoreIsUntaken
  <2>2. message[key[2]] = key[1] /\ key[2] \notin taken /\ key = <<key[1], key[2]>>
    BY <1>0, <2>1 DEF Protocol, StoreIsUntaken, TypeOK
  <2>3. QED
    BY <2>1, <2>2
<1>8. TokensAreEarned'
  BY <1>0, <1>1 DEF Protocol, TokensAreEarned, tokenVars
<1>9. ChallengeStaysUsable'
  BY <1>0, <1>1 DEF Protocol, ChallengeStaysUsable
<1>10. SessionsKept'
  BY <1>0, SessionsStay
<1>11. QED
  BY <1>3, <1>4, <1>5, <1>6, <1>7, <1>8, <1>9, <1>10 DEF Protocol, IInv

\* A nonce is taken, or the command fails before or after it has run.
LEMMA TakesKeep ==
  ASSUME IInv, NEW c \in Calls, TakeNonce(c) \/ TakeFails(c)
  PROVE  IInv'
<1>0. TypeOK /\ Protocol /\ SessionsKept
  BY DEF IInv, Protocol
<1>1. /\ At(c, "take") /\ faults' \in 0..MaxFaults
      /\ UNCHANGED <<message, signature, tokenVars, late, dead, session, kept, reaped>>
  BY <1>0, SignInConstants DEF TakeNonce, TakeFails, Fault, TypeOK
<1>2. CASE Key(c) \in store /\ Getdel(c) /\ (Return(c) \/ GoOn(c, "check"))
  BY <1>1, <1>2, GetdelKeeps
<1>3. CASE Return(c) /\ UNCHANGED <<store, taken>>
  <2>1. TypeOK'
    BY <1>0, <1>1, <1>3, ReturnKeeps DEF TypeOK, tokenVars
  <2>2. Protocol'
    BY <1>0, <1>1, <1>3, CallEnds DEF authVars, ghostVars
  <2>3. QED
    BY <1>0, <1>1, <2>1, <2>2, SessionsStay DEF IInv, Protocol
<1>4. QED
  BY <1>2, <1>3 DEF TakeNonce, TakeFails

\* The call that has taken the nonce issues the only token.
LEMMA IssueTokenKeeps ==
  ASSUME IInv, NEW c \in Calls, IssueToken(c)
  PROVE  IInv'
<1>0. TypeOK /\ Protocol /\ SessionsKept
  BY DEF IInv, Protocol
<1> DEFINE n == call[c].nonce
<1>1. /\ call[c] # None /\ call[c].at = "check" /\ n \in Nonces /\ call[c].pubkey \in Pubkeys
      /\ message[n] = call[c].pubkey /\ n \in taken /\ issued[n] = 0
      /\ UNCHANGED <<message, signature, store, late, dead, session, kept, faults, ghostVars>>
  BY <1>0, CallFields DEF IssueToken, At, Stages, Protocol, CallsRely, Relies
<1>2. CASE Return(c) /\ UNCHANGED tokenVars
  <2>1. TypeOK'
    BY <1>0, <1>1, <1>2, ReturnKeeps DEF TypeOK, tokenVars, ghostVars
  <2>2. Protocol'
    BY <1>0, <1>1, <1>2, CallEnds DEF authVars
  <2>3. QED
    BY <1>0, <1>1, <1>2, <2>1, <2>2, SessionsStay DEF IInv, Protocol
<1>3. CASE /\ signature[n] = "good" /\ GoOn(c, "answer")
           /\ issued' = [issued EXCEPT ![n] = @ + 1]
           /\ subject' = [subject EXCEPT ![n] = call[c].pubkey]
  <2>1. /\ call' \in [Calls -> Call \cup {None}]
        /\ call'[c] # None /\ call'[c].at = "answer" /\ call'[c].nonce = n
        /\ call'[c].pubkey = call[c].pubkey
        /\ \A d \in Calls \ {c} : call'[d] = call[d]
    BY <1>0, <1>1, <1>3, GoOnKeeps DEF Stages
  <2>2. /\ issued'[n] = 1 /\ subject'[n] = call[c].pubkey
        /\ \A m \in Nonces \ {n} : issued'[m] = issued[m] /\ subject'[m] = subject[m]
    BY <1>0, <1>1, <1>3 DEF TypeOK
  <2>3. TypeOK'
    BY <1>0, <1>1, <1>3, <2>1 DEF TypeOK, ghostVars
  <2>4. CallsRely'
    <3>1. SUFFICES ASSUME NEW d \in Calls PROVE Relies(d)'
      BY DEF CallsRely
    <3>2. CASE d = c
      BY <1>1, <2>1, <2>2, <3>2 DEF Relies, At
    <3>3. CASE d # c
      <4>1. Relies(d) /\ call'[d] = call[d]
        BY <1>0, <2>1, <3>3 DEF Protocol, CallsRely
      <4>2. At(d, "check") => call[d].nonce # n
        BY <1>0, <1>1, <3>3 DEF Protocol, CallsAreAlone, At
      <4>3. \A stage \in {"answer", "write"} : At(d, stage) => call[d].nonce # n
        BY <1>1, <4>1 DEF Relies
      <4>4. call[d] # None /\ call[d].at \in Stages => call[d].nonce \in Nonces
        BY <1>0, CallFields
      <4>5. QED
        BY <1>1, <2>2, <4>1, <4>2, <4>3, <4>4 DEF Relies, At, Stages, ghostVars
    <3>4. QED
      BY <3>2, <3>3
  <2>5. CallsAreAlone' /\ FreshIsUnused' /\ StoreIsUntaken' /\ ChallengeStaysUsable'
    BY <1>0, <1>1, <2>1
    DEF Protocol, CallsAreAlone, FreshIsUnused, Fresh, StoreIsUntaken,
        ChallengeStaysUsable, At, Stages, ghostVars
  <2>6. TokensAreEarned'
    BY <1>0, <1>1, <1>3, <2>2 DEF Protocol, TokensAreEarned, ghostVars
  <2>7. SessionsKept'
    <3>1. \A s \in Session : Whole(s) => Whole(s)'
      BY <1>1, <2>2 DEF Whole, Session
    <3>2. QED
      BY <1>0, <1>1, <3>1 DEF SessionsKept, TypeOK
  <2>8. QED
    BY <2>3, <2>4, <2>5, <2>6, <2>7 DEF Protocol, IInv
<1>4. QED
  BY <1>2, <1>3 DEF IssueToken, VerifySignature

\* The session a client stores is that of the token it was sent.
LEMMA StoreSessionKeeps ==
  ASSUME IInv, NEW c \in Calls, StoreSession(c)
  PROVE  IInv'
<1>0. TypeOK /\ Protocol /\ SessionsKept
  BY DEF IInv, Protocol
<1> DEFINE new == [token |-> call[c].nonce, pubkey |-> call[c].pubkey]
<1>1. /\ new \in Session /\ Whole(new) /\ Return(c) /\ call[c].client \in Clients
      /\ UNCHANGED <<authVars, late, dead, faults, ghostVars>>
      /\ session' = [session EXCEPT ![call[c].client] = new] /\ kept' = kept \cup {new}
  BY <1>0, CallFields
  DEF StoreSession, At, Stages, Session, Whole, Protocol, CallsRely, Relies
<1>2. TypeOK'
  BY <1>0, <1>1, ReturnKeeps DEF TypeOK, authVars, tokenVars, ghostVars
<1>3. Protocol'
  BY <1>0, <1>1, CallEnds
<1>4. SessionsKept'
  <2>1. \A s \in Session : Whole(s) => Whole(s)'
    BY <1>1 DEF Whole, authVars, tokenVars
  <2>2. QED
    BY <1>0, <1>1, <2>1 DEF SessionsKept, TypeOK
<1>5. QED
  BY <1>2, <1>3, <1>4 DEF IInv, Protocol

\* A restored session is one the application has kept.
LEMMA SessionChangesKeep ==
  ASSUME IInv, NEW cl \in Clients, SetSession(cl) \/ Disconnect(cl)
  PROVE  IInv'
<1>0. TypeOK /\ Protocol /\ SessionsKept
  BY DEF IInv, Protocol
<1>1. PICK s \in kept \cup {None} : session' = [session EXCEPT ![cl] = s]
  BY DEF SetSession, Disconnect
<1>2. UNCHANGED <<authVars, late, dead, kept, call, faults, ghostVars>>
  BY DEF SetSession, Disconnect
<1>3. TypeOK'
  BY <1>0, <1>1, <1>2 DEF TypeOK, authVars, tokenVars, ghostVars
<1>4. Protocol'
  BY <1>0, <1>2, ProtocolStays
<1>5. SessionsKept'
  <2>1. \A t : Whole(t)' <=> Whole(t)
    BY <1>2 DEF Whole, authVars, tokenVars
  <2>2. QED
    BY <1>0, <1>1, <1>2, <2>1 DEF SessionsKept, TypeOK
<1>6. QED
  BY <1>3, <1>4, <1>5 DEF IInv, Protocol

\* The clocks take nothing from the invariant.
LEMMA ClocksKeep ==
  ASSUME IInv,
         \/ \E n \in Nonces : MessageExpires(n) \/ TokenExpires(n)
         \/ \E key \in store : KeyExpires(key)
  PROVE  IInv'
<1>0. TypeOK /\ Protocol /\ SessionsKept
  BY DEF IInv, Protocol
<1>1. CASE \E n \in Nonces : MessageExpires(n) \/ TokenExpires(n)
  <2>1. /\ UNCHANGED <<authVars, session, kept, call, faults, ghostVars>>
        /\ late' \subseteq Nonces /\ dead' \subseteq Nonces
    BY <1>0, <1>1 DEF MessageExpires, TokenExpires, TypeOK
  <2>2. TypeOK'
    BY <1>0, <2>1 DEF TypeOK, authVars, tokenVars, ghostVars
  <2>3. Protocol'
    BY <1>0, <2>1, ProtocolStays
  <2>4. QED
    BY <1>0, <2>1, <2>2, <2>3, SessionsStay DEF authVars, IInv, Protocol
<1>2. ASSUME NEW key \in store, KeyExpires(key) PROVE IInv'
  <2>1. /\ store' = store \ {key} /\ reaped' = reaped \cup {key[2]} /\ key[2] \in Nonces
        /\ UNCHANGED <<message, signature, tokenVars, late, dead, session, kept, call, faults, taken>>
    BY <1>0, <1>2 DEF KeyExpires, TypeOK
  <2>2. TypeOK'
    BY <1>0, <2>1 DEF TypeOK, tokenVars
  <2>3. CallsRely' /\ CallsAreAlone' /\ FreshIsUnused' /\ TokensAreEarned'
    BY <1>0, <2>1 DEF Protocol, tokenVars, CallsRely, Relies, At, CallsAreAlone,
       FreshIsUnused, Fresh, TokensAreEarned
  <2>4. StoreIsUntaken'
    BY <1>0, <2>1 DEF Protocol, StoreIsUntaken
  <2>5. ChallengeStaysUsable'
    BY <1>0, <2>1 DEF Protocol, ChallengeStaysUsable
  <2>6. QED
    BY <1>0, <2>1, <2>2, <2>3, <2>4, <2>5, SessionsStay DEF Protocol, IInv
<1>3. QED
  BY <1>1, <1>2

\* Every step keeps the invariant.
LEMMA NextIsSafe == IInv /\ [Next]_vars => IInv'
<1> SUFFICES ASSUME IInv, [Next]_vars PROVE IInv'
  OBVIOUS
<1>1. ASSUME NEW c \in Calls, NEW cl \in Clients,
             \/ \E pk \in Pubkeys : Connect(c, cl, pk)
             \/ \E n \in Nonces, pk \in Pubkeys : Verify(c, cl, n, pk)
             \/ Write(c, cl)
      PROVE  IInv'
  BY <1>1, ConnectKeeps, VerifyKeeps, WriteKeeps
<1>2. ASSUME NEW c \in Calls,
             \/ Challenge(c) \/ ChallengeFails(c) \/ Sign(c) \/ Decline(c)
             \/ ReadMessage(c) \/ TakeNonce(c) \/ TakeFails(c) \/ IssueToken(c)
             \/ StoreSession(c) \/ Authenticate(c) \/ Lost(c)
      PROVE  IInv'
  BY <1>2, ChallengeKeeps, EndsKeep, SignKeeps, ReadMessageKeeps, TakesKeep,
     IssueTokenKeeps, StoreSessionKeeps
<1>3. CASE UNCHANGED vars
  <2>1. TypeOK /\ Protocol /\ SessionsKept
    BY DEF IInv, Protocol
  <2>2. TypeOK'
    BY <1>3, <2>1 DEF vars, authVars, tokenVars, ghostVars, TypeOK
  <2>3. Protocol'
    BY <1>3, <2>1, ProtocolStays DEF vars
  <2>4. SessionsKept'
    BY <1>3, <2>1, SessionsStay DEF vars, authVars
  <2>5. QED
    BY <2>2, <2>3, <2>4 DEF IInv, Protocol
<1>4. QED
  BY <1>1, <1>2, <1>3, SessionChangesKeep, ClocksKeep DEF Next

-----------------------------------------------------------------------------
(* The theorems.                                                           *)

\* What each call relies on, and what the tokens and keys are backed by, holds
\* in every state, whatever overlaps, fails or is lost.
THEOREM Invariance == Spec => []IInv
  BY InitIsSafe, NextIsSafe, PTL DEF Spec

\* Every variable keeps its type.
THEOREM TypeCorrect == Spec => []TypeOK
<1>1. IInv => TypeOK
  BY DEF IInv
<1>2. QED
  BY <1>1, Invariance, PTL

\* A signed message never yields a second token, for any number of concurrent
\* verifications and failed commands.
THEOREM ChallengesAreSpent == Spec => []OneTokenPerChallenge
<1>1. IInv => OneTokenPerChallenge
  <2>1. SUFFICES ASSUME IInv, NEW n \in Nonces
                 PROVE  /\ issued[n] <= 1
                        /\ issued[n] = 1 => /\ signature[n] = "good" /\ subject[n] = message[n]
                                            /\ <<message[n], n>> \notin store
    BY DEF OneTokenPerChallenge
  <2>2. \A key \in store : key[2] \notin taken
    BY <2>1 DEF IInv, StoreIsUntaken
  <2>3. n \in taken => <<message[n], n>> \notin store
    BY <2>2
  <2>4. QED
    BY <2>1, <2>3 DEF IInv, TokensAreEarned
<1>2. QED
  BY <1>1, Invariance, PTL

\* A client's pubkey is the one its token makes the API act for.
THEOREM SessionsStayWhole == Spec => []SessionsAreWhole
<1>1. IInv => SessionsAreWhole
  BY DEF IInv, SessionsKept, SessionsAreWhole, CallsRely, Relies, AuthPubkey
<1>2. QED
  BY <1>1, Invariance, PTL

\* No challenge and no request makes another challenge unusable.
THEOREM ChallengesStayUsable == Spec => []ChallengeStaysUsable
<1>1. IInv => ChallengeStaysUsable
  BY DEF IInv
<1>2. QED
  BY <1>1, Invariance, PTL
=============================================================================
