------------------------------ MODULE Sessions ------------------------------
(* The sessions of one marketplace account: SessionBroker
   (src/goliath/marketplace/broker.py), which stores, hands out and revokes
   them, the eBay logins and refreshes of EbayOAuthService
   (src/goliath/marketplace/ebay_auth.py) that store them, and the operations
   that report a failed authentication (MarketplaceGateway._require_reauth).

   Rows are loaded and written by primary key, with no version: two
   transactions under way at once do not see each other. *)
EXTENDS Naturals, Sequences, FiniteSets

CONSTANTS Logins,        \* callers of callback and refresh
          Users,         \* operations that use the account
          MaxSessions,   \* bound: session references stored
          MaxStates,     \* bound: logins initiated
          MaxRevocations \* bound: revocations

VARIABLES account,       \* MarketplaceAccount.status
          session,       \* SessionReference rows, in order of creation
          oauthState,    \* OAuthStateRecord rows: consumed or not
          spent,         \* eBay: states whose code has been exchanged
          login,         \* what each login or refresh does
          revoking,      \* a revocation has revoked, and not yet marked, the account
          user,          \* the session each operation was given
          revocations,   \* history: revocations so far
          twins,         \* history: sessions stored over a load that was stale
          presented,     \* history: by state, times its code was sent to eBay
          overlapped     \* history: states two callbacks had loaded at once

row == <<account, session, oauthState>>
history == <<revocations, twins, presented, overlapped>>
vars == <<row, spent, login, revoking, user, history>>

AccountStatus == {"disconnected", "connecting", "healthy", "active",
                  "authentication_required", "revoked"}
Session == [revoked : BOOLEAN, expired : BOOLEAN,
            era : Nat]   \* revocations when it was stored

NoLogin == [phase |-> "idle", state |-> 0, previous |-> 0, seen |-> 0]

Init ==
    /\ account = "disconnected" /\ session = <<>> /\ oauthState = <<>>
    /\ spent = {} /\ revoking = FALSE
    /\ login = [c \in Logins |-> NoLogin]
    /\ user = [u \in Users |-> 0]
    /\ revocations = 0 /\ twins = 0
    /\ presented = [n \in 1..MaxStates |-> 0] /\ overlapped = {}

\* get_active: the newest one not revoked, unless it has expired; 0 for none.
Unrevoked == {s \in DOMAIN session : ~session[s].revoked}
Active ==
    IF Unrevoked = {} THEN 0
    ELSE LET newest == CHOOSE s \in Unrevoked : \A o \in Unrevoked : o <= s IN
         IF session[newest].expired THEN 0 ELSE newest

-----------------------------------------------------------------------------
(* Login and refresh *)

Initiate ==
    /\ Len(oauthState) < MaxStates
    /\ oauthState' = Append(oauthState, "issued")
    /\ account' = "connecting"
    /\ UNCHANGED <<session, spent, login, revoking, user, history>>

\* consume, called by callback, loads the state; it may come twice, with the
\* same code.
Callback(c) ==
    /\ login[c] = NoLogin
    /\ \E n \in DOMAIN oauthState :
         /\ oauthState[n] = "issued"
         /\ login' = [login EXCEPT ![c] = [NoLogin EXCEPT !.phase = "consuming",
                                                          !.state = n]]
         /\ overlapped' = IF \E o \in Logins : /\ login[o].phase = "consuming"
                                               /\ login[o].state = n
                          THEN overlapped \cup {n} ELSE overlapped
    /\ UNCHANGED <<row, spent, revoking, user, revocations, twins, presented>>

StateExpires(n) ==
    /\ oauthState[n] = "issued"
    /\ oauthState' = [oauthState EXCEPT ![n] = "expired"]
    /\ UNCHANGED <<account, session, spent, login, revoking, user, history>>

\* Seeded fault: consume does not write the state.
ConsumeNothing(c) ==
    /\ login[c].phase = "consuming"
    /\ login' = [login EXCEPT ![c].phase = "exchanging"]
    /\ UNCHANGED <<row, spent, revoking, user, history>>

\* consume writes the state it found unused, whatever it has become.
ConsumeState(c) ==
    /\ login[c].phase = "consuming"
    /\ oauthState' = [oauthState EXCEPT ![login[c].state] = "consumed"]
    /\ login' = [login EXCEPT ![c].phase = "exchanging"]
    /\ UNCHANGED <<account, session, spent, revoking, user, history>>

\* refresh takes the credential of the active session.
ReadCredential(c) ==
    /\ login[c] = NoLogin /\ Active # 0
    /\ login' = [login EXCEPT ![c].phase = "exchanging"]
    /\ UNCHANGED <<row, spent, revoking, user, history>>

\* _token_request sends the code, or the refresh token; eBay exchanges a code
\* once, and may refuse anything.
Exchange(c) ==
    LET n == login[c].state IN
    /\ login[c].phase = "exchanging"
    /\ presented' = [m \in DOMAIN presented |->
                       IF m = n THEN presented[m] + 1 ELSE presented[m]]
    /\ \/ login' = [login EXCEPT ![c] = NoLogin] /\ UNCHANGED spent
       \/ /\ n \notin spent
          /\ spent' = spent \cup ({n} \ {0})
          /\ login' = [login EXCEPT ![c] = [NoLogin EXCEPT !.phase = "identifying"]]
    /\ UNCHANGED <<row, revoking, user, revocations, twins, overlapped>>

\* A scope that was not granted, or another seller's token, asks for a new login.
Identify(c) ==
    /\ login[c].phase = "identifying"
    /\ \/ login' = [login EXCEPT ![c].phase = "storing"] /\ UNCHANGED account
       \/ login' = [login EXCEPT ![c] = NoLogin]
          /\ account' \in {account, "authentication_required"}
    /\ UNCHANGED <<session, oauthState, spent, revoking, user, history>>

\* store_session loads the session it will replace.
LoadPrevious(c) ==
    /\ login[c].phase = "storing"
    /\ login' = [login EXCEPT ![c].phase = "committing", ![c].previous = Active,
                              ![c].seen = Len(session)]
    /\ UNCHANGED <<row, spent, revoking, user, history>>

Replace(previous) ==
    Append([s \in DOMAIN session |->
              IF s = previous THEN [session[s] EXCEPT !.revoked = TRUE] ELSE session[s]],
           [revoked |-> FALSE, expired |-> FALSE, era |-> revocations])

\* Nobody but this login has stored or revoked a session since it loaded it.
LoadedCurrent(c) ==
    /\ login[c].seen = Len(session)
    /\ login[c].previous # 0 => ~session[login[c].previous].revoked

StoreSession(c) ==
    /\ login[c].phase = "committing" /\ Len(session) < MaxSessions
    /\ session' = Replace(login[c].previous)
    /\ account' = "healthy"
    /\ twins' = IF LoadedCurrent(c) THEN twins ELSE twins + 1
    /\ login' = [login EXCEPT ![c] = [NoLogin EXCEPT !.phase = "confirming"]]
    /\ UNCHANGED <<oauthState, spent, revoking, user, revocations, presented, overlapped>>

\* revoke finds the previous session revoked meanwhile and raises.
StoreConflict(c) ==
    /\ login[c].phase = "committing" /\ login[c].previous # 0
    /\ session[login[c].previous].revoked
    /\ login' = [login EXCEPT ![c] = NoLogin]
    /\ UNCHANGED <<row, spent, revoking, user, history>>

Confirm(c) ==
    /\ login[c].phase = "confirming"
    /\ account' = "active"
    /\ login' = [login EXCEPT ![c] = NoLogin]
    /\ UNCHANGED <<session, oauthState, spent, revoking, user, history>>

\* Its open transaction is rolled back.
LoginDies(c) ==
    /\ login[c].phase # "idle"
    /\ login' = [login EXCEPT ![c] = NoLogin]
    /\ UNCHANGED <<row, spent, revoking, user, history>>

-----------------------------------------------------------------------------
(* Use and revocation *)

SessionExpires(s) ==
    /\ ~session[s].expired
    /\ session' = [session EXCEPT ![s].expired = TRUE]
    /\ UNCHANGED <<account, oauthState, spent, login, revoking, user, history>>

\* acquire_adapter refuses an account that is to log in again, and no other.
Acquire(u) ==
    /\ user[u] = 0 /\ account # "authentication_required" /\ Active # 0
    /\ user' = [user EXCEPT ![u] = Active]
    /\ UNCHANGED <<row, spent, login, revoking, history>>

\* The operation ends; the marketplace may have refused its session.
OperationEnds(u) ==
    /\ user[u] # 0
    /\ user' = [user EXCEPT ![u] = 0]
    /\ account' \in {account, "authentication_required"}
    /\ UNCHANGED <<session, oauthState, spent, login, revoking, history>>

RevokeSession ==
    /\ ~revoking /\ revocations < MaxRevocations
    /\ session' = [s \in DOMAIN session |->
         IF s = Active THEN [session[s] EXCEPT !.revoked = TRUE] ELSE session[s]]
    /\ account' = "authentication_required"
    /\ revocations' = revocations + 1
    /\ revoking' = TRUE
    /\ UNCHANGED <<oauthState, spent, login, user, twins, presented, overlapped>>

\* EbayOAuthService.revoke goes on in a transaction of its own; a revocation
\* through the broker alone ends here.
MarkRevoked ==
    /\ revoking /\ revoking' = FALSE
    /\ account' \in {account, "revoked"}
    /\ UNCHANGED <<session, oauthState, spent, login, user, history>>

Next ==
    \/ Initiate \/ RevokeSession \/ MarkRevoked
    \/ \E n \in DOMAIN oauthState : StateExpires(n)
    \/ \E c \in Logins : \/ Callback(c) \/ ConsumeState(c) \/ ReadCredential(c)
                         \/ Exchange(c) \/ Identify(c) \/ LoadPrevious(c)
                         \/ StoreSession(c) \/ StoreConflict(c) \/ Confirm(c)
                         \/ LoginDies(c)
    \/ \E s \in DOMAIN session : SessionExpires(s)
    \/ \E u \in Users : Acquire(u) \/ OperationEnds(u)

Spec == Init /\ [][Next]_vars

-----------------------------------------------------------------------------
(* Properties *)

\* Rows and callers have their types.
TypeOK ==
    /\ account \in AccountStatus /\ session \in Seq(Session)
    /\ oauthState \in Seq({"issued", "consumed", "expired"})
    /\ spent \subseteq DOMAIN oauthState /\ revoking \in BOOLEAN
    /\ \A c \in Logins : /\ login[c].state \in {0} \cup DOMAIN oauthState
                         /\ login[c].previous \in {0} \cup DOMAIN session
    /\ user \in [Users -> 0..Len(session)]
    /\ revocations \in Nat /\ twins \in Nat
    /\ presented \in [1..MaxStates -> Nat] /\ overlapped \subseteq 1..MaxStates

\* A revocation leaves no usable session that was stored before it, unless logins
\* or refreshes were stored over one another.  The code of a login is sent to eBay
\* once, however often its callback comes, also when a caller dies and the state
\* expires meanwhile, unless two callbacks had both loaded the unused state.
RevokedForGood ==
    /\ twins = 0 => \A s \in Unrevoked :
                       session[s].expired \/ session[s].era = revocations
    /\ \A n \in (1..MaxStates) \ overlapped : presented[n] <= 1
=============================================================================
