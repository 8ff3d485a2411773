------------------------------- MODULE SignIn -------------------------------
(***************************************************************************)
(* Signing in: AuthService and RedisNonceStore of apps/api, the TipClient  *)
(* of packages/sdk, and the network between them.  The calls of one client *)
(* are asynchronous and overlap, an application may verify a signed        *)
(* message again, and every request reaches any API process: all they      *)
(* share is Redis.                                                         *)
(*                                                                         *)
(*   message   the pubkey the sign-in message with this nonce names        *)
(*   signature what the wallet made of the message                         *)
(*   store     the keys in Redis, each of a pubkey and a nonce             *)
(*   late      the messages whose expirationTime is over                   *)
(*   issued    how many tokens were issued for the message                 *)
(*   subject   whom that token names: its sub claim                        *)
(*   dead      the tokens that have expired                                *)
(*   session   the session in the memory of each TipClient                 *)
(*   kept      the sessions the application has saved for setSession()     *)
(*   call      where each asynchronous call of a client is                 *)
(*   faults    failed requests and commands, bounded by MaxFaults          *)
(*                                                                         *)
(* A nonce stands for the message that holds it and for the token issued   *)
(* for it.                                                                 *)
(* History variables: reaped, the keys Redis removed by itself, and taken, *)
(* the nonces some GETDEL has deleted.                                     *)
(***************************************************************************)
EXTENDS Integers, FiniteSets

CONSTANTS
  Pubkeys,
  Nonces,      \* bound: as many as a behaviour has challenges
  Clients,     \* TipClient instances
  Calls,       \* calls that may be under way at once
  None,        \* no message, no session, no call
  MaxFaults    \* bound on failed requests and commands

ASSUME SignInConstants == MaxFaults \in Nat

VARIABLES message, signature, store, late, issued, subject, dead, session,
          kept, call, faults, reaped, taken

Session == [token : Nonces, pubkey : Pubkeys]

\* The steps of a call; a call that has a nonce is about its message.
Early == {"challenge"}
Stages == {"sign", "verify", "take", "check", "answer", "write"}
Call ==
  [at : Early, client : Clients, pubkey : Pubkeys]
    \cup [at : Stages, client : Clients, pubkey : Pubkeys, nonce : Nonces]

ASSUME NoneIsNothing ==
  /\ None \notin Pubkeys
  /\ None \notin Session
  /\ None \notin Call

tokenVars == <<issued, subject>>
authVars  == <<message, signature, store, tokenVars>>
ghostVars == <<reaped, taken>>
vars == <<authVars, late, dead, session, kept, call, faults, ghostVars>>

Init ==
  /\ message = [n \in Nonces |-> None]
  /\ signature = [n \in Nonces |-> "none"]
  /\ store = {}
  /\ late = {}
  /\ issued = [n \in Nonces |-> 0]
  /\ subject = [n \in Nonces |-> None]
  /\ dead = {}
  /\ session = [cl \in Clients |-> None]
  /\ kept = {}
  /\ call = [c \in Calls |-> None]
  /\ faults = 0
  /\ reaped = {}
  /\ taken = {}

-----------------------------------------------------------------------------
Fault == faults < MaxFaults /\ faults' = faults + 1

At(c, stage) == call[c] # None /\ call[c].at = stage

GoOn(c, stage) == call' = [call EXCEPT ![c].at = stage]

\* The call ends: with its result, with an error answer, or with none.
Return(c) == call' = [call EXCEPT ![c] = None]

\* randomBytes never returns the same nonce twice.
Fresh == {n \in Nonces : message[n] = None}

-----------------------------------------------------------------------------
(* connect(): challenge, sign, verify.                                     *)

Connect(c, cl, pk) ==
  /\ call[c] = None
  /\ call' = [call EXCEPT ![c] = [at |-> "challenge", client |-> cl, pubkey |-> pk]]
  /\ UNCHANGED <<authVars, late, dead, session, kept, faults, ghostVars>>

\* Mutation: a new challenge replaces the last one of the pubkey.
Put_OnePerPubkey(n, pk) == {key \in store : key[1] # pk} \cup {<<pk, n>>}

\* RedisNonceStore.put: nonces of one pubkey live side by side.
Put(n, pk) == store \cup {<<pk, n>>}

\* AuthService.challenge(), and the client gets the message.
Challenge(c) ==
  /\ At(c, "challenge")
  /\ \E n \in Fresh :
       /\ message' = [message EXCEPT ![n] = call[c].pubkey]
       /\ store' = Put(n, call[c].pubkey)
       /\ call' = [call EXCEPT ![c] = [at |-> "sign", client |-> @.client,
                                       pubkey |-> @.pubkey, nonce |-> n]]
  /\ UNCHANGED <<signature, tokenVars, late, dead, session, kept, faults, ghostVars>>

\* put() throws; if the key was written, nobody has a message for it.
ChallengeFails(c) ==
  /\ At(c, "challenge") /\ Fault
  /\ Return(c)
  /\ UNCHANGED <<authVars, late, dead, session, kept, ghostVars>>

\* The wallet signs, with the key the application named or with another.
Sign(c) ==
  /\ At(c, "sign")
  /\ \E made \in {"good", "bad"} :
       signature' = [signature EXCEPT ![call[c].nonce] = made]
  /\ GoOn(c, "verify")
  /\ UNCHANGED <<message, store, tokenVars, late, dead, session, kept, faults, ghostVars>>

\* The user declines, or closes the wallet.
Decline(c) ==
  /\ At(c, "sign")
  /\ Return(c)
  /\ UNCHANGED <<authVars, late, dead, session, kept, faults, ghostVars>>

\* verify() called by the application, with a message it has a signature of
\* and one of its users' pubkeys.
Verify(c, cl, n, pk) ==
  /\ call[c] = None
  /\ signature[n] # "none"
  /\ call' = [call EXCEPT ![c] = [at |-> "verify", client |-> cl,
                                  pubkey |-> pk, nonce |-> n]]
  /\ UNCHANGED <<authVars, late, dead, session, kept, faults, ghostVars>>

-----------------------------------------------------------------------------
(* AuthService.verify(), one step for each await.                          *)

\* The message must name the pubkey of the request and not be over; it is well
\* formed, since challenge() wrote it.
MayTake(n, pk) == message[n] = pk /\ n \notin late

\* The key a request takes: key() in RedisNonceStore.
Key(c) == <<call[c].pubkey, call[c].nonce>>

ReadMessage(c) ==
  /\ At(c, "verify")
  /\ IF MayTake(call[c].nonce, call[c].pubkey) THEN GoOn(c, "take") ELSE Return(c)
  /\ UNCHANGED <<authVars, late, dead, session, kept, faults, ghostVars>>

\* Mutation: GET, with the DEL left to a later step.
TakeNonce_Get(c) ==
  /\ At(c, "take")
  /\ IF Key(c) \in store THEN GoOn(c, "check") ELSE Return(c)
  /\ UNCHANGED <<authVars, late, dead, session, kept, faults, ghostVars>>

Getdel(c) ==
  /\ store' = store \ {Key(c)}
  /\ taken' = taken \cup {call[c].nonce}

\* GETDEL: the nonce is consumed before the signature is looked at.
TakeNonce(c) ==
  /\ At(c, "take")
  /\ IF Key(c) \in store
       THEN Getdel(c) /\ GoOn(c, "check")
       ELSE UNCHANGED <<store, taken>> /\ Return(c)
  /\ UNCHANGED <<message, signature, tokenVars, late, dead, session, kept, faults, reaped>>

\* The command fails, times out after it has run, or is sent again by the
\* Redis client after it has run: the caller is refused.
TakeFails(c) ==
  /\ At(c, "take") /\ Fault
  /\ \/ UNCHANGED <<store, taken>>
     \/ Key(c) \in store /\ Getdel(c)
  /\ Return(c)
  /\ UNCHANGED <<message, signature, tokenVars, late, dead, session, kept, reaped>>

VerifySignature(n) == signature[n] = "good"

\* verifySignature() and jwt.signAsync().
IssueToken(c) ==
  LET n == call[c].nonce IN
  /\ At(c, "check")
  /\ IF VerifySignature(n)
       THEN /\ issued' = [issued EXCEPT ![n] = @ + 1]
            /\ subject' = [subject EXCEPT ![n] = call[c].pubkey]
            /\ GoOn(c, "answer")
       ELSE UNCHANGED tokenVars /\ Return(c)
  /\ UNCHANGED <<message, signature, store, late, dead, session, kept, faults, ghostVars>>

\* Mutation: the pubkey of an earlier session stays.
StoreSession_KeepsPubkey(c) ==
  LET old == session[call[c].client]
      new == [token |-> call[c].nonce,
              pubkey |-> IF old = None THEN call[c].pubkey ELSE old.pubkey] IN
  /\ At(c, "answer")
  /\ session' = [session EXCEPT ![call[c].client] = new]
  /\ kept' = kept \cup {new}
  /\ Return(c)
  /\ UNCHANGED <<authVars, late, dead, faults, ghostVars>>

\* TipClient.verify() goes on: whichever call answers last has the session.
StoreSession(c) ==
  LET new == [token |-> call[c].nonce, pubkey |-> call[c].pubkey] IN
  /\ At(c, "answer")
  /\ session' = [session EXCEPT ![call[c].client] = new]
  /\ kept' = kept \cup {new}
  /\ Return(c)
  /\ UNCHANGED <<authVars, late, dead, faults, ghostVars>>

\* External: the network loses a request or its answer; at "check", signAsync()
\* throws when the nonce is gone already.
Lost(c) ==
  /\ \E stage \in {"challenge", "verify", "check", "answer", "write"} : At(c, stage)
  /\ Fault
  /\ Return(c)
  /\ UNCHANGED <<authVars, late, dead, session, kept, ghostVars>>

-----------------------------------------------------------------------------
(* The session of a client.                                                *)

SetSession(cl) ==
  /\ \E s \in kept : session' = [session EXCEPT ![cl] = s]
  /\ UNCHANGED <<authVars, late, dead, kept, call, faults, ghostVars>>

\* Mutation: the session's pubkey is not cleared with its token.
Disconnect_TokenOnly(cl) ==
  /\ session[cl] # None
  /\ session' = [session EXCEPT ![cl].token = None]
  /\ UNCHANGED <<authVars, late, dead, kept, call, faults, ghostVars>>

Disconnect(cl) ==
  /\ session' = [session EXCEPT ![cl] = None]
  /\ UNCHANGED <<authVars, late, dead, kept, call, faults, ghostVars>>

\* register(), updateWallet() and updateProfile() take the token of the
\* session when they are called, and throw when there is none.
Write(c, cl) ==
  /\ call[c] = None
  /\ session[cl] # None
  /\ call' = [call EXCEPT ![c] = [at |-> "write", client |-> cl,
                pubkey |-> session[cl].pubkey, nonce |-> session[cl].token]]
  /\ UNCHANGED <<authVars, late, dead, session, kept, faults, ghostVars>>

\* Whom JwtAuthGuard takes the caller for.
AuthPubkey(token) == IF token \in dead THEN None ELSE subject[token]

\* JwtAuthGuard lets the request through or refuses it; the client keeps its
\* session either way.
Authenticate(c) ==
  /\ At(c, "write")
  /\ Return(c)
  /\ UNCHANGED <<authVars, late, dead, session, kept, faults, ghostVars>>

-----------------------------------------------------------------------------
(* External: three clocks.                                                 *)

MessageExpires(n) ==
  /\ message[n] # None
  /\ late' = late \cup {n}
  /\ UNCHANGED <<authVars, dead, session, kept, call, faults, ghostVars>>

KeyExpires(key) ==
  /\ key \in store
  /\ store' = store \ {key}
  /\ reaped' = reaped \cup {key[2]}
  /\ UNCHANGED <<message, signature, tokenVars, late, dead, session, kept, call, faults, taken>>

TokenExpires(n) ==
  /\ issued[n] > 0
  /\ dead' = dead \cup {n}
  /\ UNCHANGED <<authVars, late, session, kept, call, faults, ghostVars>>

-----------------------------------------------------------------------------
Next ==
  \/ \E c \in Calls :
       \/ \E cl \in Clients :
            \/ \E pk \in Pubkeys : Connect(c, cl, pk)
            \/ \E n \in Nonces, pk \in Pubkeys : Verify(c, cl, n, pk)
            \/ Write(c, cl)
       \/ Challenge(c) \/ ChallengeFails(c) \/ Sign(c) \/ Decline(c)
       \/ ReadMessage(c) \/ TakeNonce(c) \/ TakeFails(c) \/ IssueToken(c)
       \/ StoreSession(c) \/ Authenticate(c) \/ Lost(c)
  \/ \E cl \in Clients : SetSession(cl) \/ Disconnect(cl)
  \/ \E n \in Nonces : MessageExpires(n) \/ TokenExpires(n)
  \/ \E key \in store : KeyExpires(key)

Spec == Init /\ [][Next]_vars

-----------------------------------------------------------------------------
(* Properties.                                                             *)

\* The variables have the values their meanings allow.
TypeOK ==
  /\ message \in [Nonces -> Pubkeys \cup {None}]
  /\ signature \in [Nonces -> {"none", "good", "bad"}]
  /\ store \subseteq Pubkeys \X Nonces
  /\ late \subseteq Nonces
  /\ issued \in [Nonces -> Nat]
  /\ subject \in [Nonces -> Pubkeys \cup {None}]
  /\ dead \subseteq Nonces
  /\ session \in [Clients -> Session \cup {None}]
  /\ kept \subseteq Session
  /\ call \in [Calls -> Call \cup {None}]
  /\ faults \in 0..MaxFaults
  /\ reaped \subseteq Nonces
  /\ taken \subseteq Nonces

\* However many requests verify one signed message, from any client and at any
\* API process, and however their steps interleave, at most one token is issued
\* for it, to the pubkey it names and only if the signature is good, and the
\* message can issue no other: AuthService.verify(), RedisNonceStore.take().
OneTokenPerChallenge ==
  \A n \in Nonces :
    /\ issued[n] <= 1
    /\ issued[n] = 1 =>
         /\ signature[n] = "good"
         /\ subject[n] = message[n]
         /\ <<message[n], n>> \notin store

\* Whatever signs in, is restored or is disconnected meanwhile, the pubkey that
\* a TipClient reports is the one its token makes JwtAuthGuard act for: in its
\* session, in every session an application has kept, and in every write that
\* is on its way.
Whole(s) == issued[s.token] = 1 /\ subject[s.token] = s.pubkey

SessionsAreWhole ==
  /\ \A s \in kept : Whole(s)
  /\ \A cl \in Clients : session[cl] # None => Whole(session[cl])
  /\ \A c \in Calls : At(c, "write") => AuthPubkey(call[c].nonce) \in {call[c].pubkey, None}

\* A challenge stays usable until its own nonce is consumed or Redis reaps it:
\* no other challenge of the same pubkey, and no request about another message,
\* invalidates it (the comment of RedisNonceStore on concurrent live nonces).
ChallengeStaysUsable ==
  \A n \in Nonces :
    message[n] # None /\ n \notin reaped \cup taken => <<message[n], n>> \in store

\* The parts of the inductive invariant of SignInProofs.

\* What call c relies on at each step.
Relies(c) ==
  LET n == call[c].nonce
      pk == call[c].pubkey IN
  /\ At(c, "sign") => message[n] = pk /\ signature[n] = "none"
  /\ At(c, "verify") => signature[n] # "none"
  /\ At(c, "take") => message[n] = pk /\ signature[n] # "none"
  /\ At(c, "check") => /\ message[n] = pk /\ signature[n] # "none"
                      /\ n \in taken /\ issued[n] = 0
  /\ \A stage \in {"answer", "write"} :
       At(c, stage) => issued[n] = 1 /\ subject[n] = pk

CallsRely == \A c \in Calls : Relies(c)

\* One call asks the wallet to sign a message, and one got its nonce.
CallsAreAlone ==
  \A c, d \in Calls, stage \in {"sign", "check"} :
    At(c, stage) /\ At(d, stage) /\ call[c].nonce = call[d].nonce => c = d

\* Nothing names a nonce that no challenge has used.
FreshIsUnused ==
  \A n \in Fresh :
    /\ signature[n] = "none" /\ n \notin taken
    /\ \A c \in Calls, stage \in Stages : At(c, stage) => call[c].nonce # n

\* A key in Redis is the message's, and was never consumed.
StoreIsUntaken == \A key \in store : message[key[2]] = key[1] /\ key[2] \notin taken

TokensAreEarned ==
  \A n \in Nonces :
    issued[n] = 0 \/ (/\ issued[n] = 1 /\ n \in taken
                      /\ signature[n] = "good" /\ subject[n] = message[n])

SessionsKept ==
  /\ \A s \in kept : Whole(s)
  /\ \A cl \in Clients : session[cl] # None => Whole(session[cl])

\* Why a message issues one token: its key is gone for good once taken, the one
\* call that took it has a nonce with no token, and a signature never changes.
IInv ==
  /\ TypeOK
  /\ CallsRely /\ CallsAreAlone /\ FreshIsUnused
  /\ StoreIsUntaken /\ TokensAreEarned /\ SessionsKept
  /\ ChallengeStaysUsable
=============================================================================
