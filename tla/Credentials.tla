----------------------------- MODULE Credentials -----------------------------
(***************************************************************************)
(* One provider's OAuth credential and the calls that share it             *)
(* (src/ai/auth, models.rs): requests and catalogue refreshes that         *)
(* exchange an old token for a new one, logins and logouts, each under the *)
(* provider's lock, and the provider's server, which takes a refresh token *)
(* once.  Tokens are numbered as the server issues them.                   *)
(***************************************************************************)
EXTENDS Naturals, FiniteSets

CONSTANTS Requests, Catalogues, Logins, Logouts, Nobody,
          MaxTokens      \* bound

Refreshers == Requests \cup Catalogues
Clients    == Refreshers \cup Logins \cup Logouts

\* A client is one call: it does not refresh and log in.
ASSUME ClientsAssumption ==
    Nobody \notin Clients /\ Refreshers \cap Logins = {} /\ MaxTokens \in Nat

VARIABLES credential,    \* the stored token, or 0
          age,           \* of each token: fresh, soon (within five minutes) or expired
          live,          \* the tokens that the server still takes
          issued,        \* how many there are
          at,            \* where a client is: new, waiting, refreshing, rotated, settled
          token,         \* the token that a client has in its hands
          holder,        \* who has the provider's lock
          cut,           \* the clients whose signal is cancelled
          lost           \* whether a token that the server issued did not arrive

credentialVars == <<credential, age, live, issued, at, token, holder, cut, lost>>

CredentialInit ==
    /\ credential \in {0, 1}
    /\ age \in {a \in [1..MaxTokens -> {"fresh", "soon", "expired"}] : \A v \in 2..MaxTokens : a[v] = "fresh"}
    /\ credential = 0 => age[1] = "fresh"
    /\ live = {1} /\ issued = 1
    /\ at = [c \in Clients |-> "new"] /\ token = [c \in Clients |-> 0]
    /\ holder = Nobody /\ cut = {} /\ lost = FALSE

\* A request wants five more minutes, a catalogue any.
Needs(c, v) == v # 0 /\ (age[v] = "expired" \/ (c \in Requests /\ age[v] = "soon"))

Goes(c, where) == at' = [at EXCEPT ![c] = where]
Holds(c, v)    == token' = [token EXCEPT ![c] = v]
Settles(c)     == Goes(c, "settled") /\ Holds(c, 0) /\ cut' = cut \ {c}

\* read: the first look at the token, without the lock.
Look(c) ==
    /\ c \in Refreshers /\ at[c] = "new"
    /\ IF Needs(c, credential)
       THEN Goes(c, "waiting") /\ Holds(c, credential) /\ UNCHANGED cut
       ELSE Settles(c)
    /\ UNCHANGED <<credential, age, live, issued, holder, lost>>

\* Mutant: the token of the first look is exchanged.
PresentedStale(c) == token[c]

\* The token that is looked at again, and exchanged, under the lock.
Presented(c) == credential

\* modify: the lock, and the closure up to its exchange of the token.
Enter(c) ==
    /\ c \in Refreshers /\ at[c] = "waiting" /\ holder = Nobody /\ c \notin cut
    /\ IF Needs(c, Presented(c))
       THEN Goes(c, "refreshing") /\ Holds(c, Presented(c)) /\ holder' = c /\ UNCHANGED cut
       ELSE Settles(c) /\ UNCHANGED holder
    /\ UNCHANGED <<credential, age, live, issued, lost>>

NewToken(how) ==
    /\ issued < MaxTokens /\ issued' = issued + 1
    /\ age' = [age EXCEPT ![issued + 1] = how]

\* The server takes a token that it has not taken yet, and answers with another.
Rotate(c) ==
    /\ at[c] = "refreshing" /\ token[c] \in live
    /\ \E how \in {"fresh", "soon"} : NewToken(how)
    /\ live' = (live \ {token[c]}) \cup {issued + 1}
    /\ Holds(c, issued + 1) /\ Goes(c, "rotated")
    /\ UNCHANGED <<credential, holder, cut, lost>>

\* The rotated token is in the store before the lock is free.
Stores(c) ==
    /\ at[c] = "rotated" /\ c \notin cut
    /\ credential' = token[c]
    /\ holder' = Nobody /\ Settles(c)
    /\ UNCHANGED <<age, live, issued, lost>>

\* The exchange fails, is too late, or its client is gone: nothing is stored, and an
\* answer that was on its way is lost.
ExchangeFails(c) ==
    /\ at[c] \in {"refreshing", "rotated"}
    /\ lost' = (lost \/ at[c] = "rotated")
    /\ holder' = Nobody /\ Settles(c)
    /\ UNCHANGED <<credential, age, live, issued>>

\* A client whose signal is cancelled before it has the lock.
GivesUp(c) ==
    /\ c \in cut /\ at[c] = "waiting"
    /\ Settles(c)
    /\ UNCHANGED <<credential, age, live, issued, holder, lost>>

CancelClient(c) ==
    /\ c \in Refreshers /\ at[c] \in {"waiting", "refreshing", "rotated"} /\ c \notin cut
    /\ cut' = cut \cup {c}
    /\ UNCHANGED <<credential, age, live, issued, at, token, holder, lost>>

\* login: the user's consent first, then the store.
LogIn(c) ==
    /\ c \in Logins /\ at[c] = "new"
    /\ NewToken("fresh") /\ live' = live \cup {issued + 1}
    /\ Holds(c, issued + 1) /\ Goes(c, "waiting")
    /\ UNCHANGED <<credential, holder, cut, lost>>

StoreLogin(c) ==
    /\ c \in Logins /\ at[c] = "waiting" /\ holder = Nobody
    /\ credential' = token[c] /\ Settles(c)
    /\ UNCHANGED <<age, live, issued, holder, lost>>

\* Mutant: the entry is deleted without the lock.
LogOutAtOnce(c) ==
    /\ c \in Logouts /\ at[c] = "new"
    /\ credential' = 0 /\ Settles(c)
    /\ UNCHANGED <<age, live, issued, holder, lost>>

\* logout: delete waits for the lock.
LogOut(c) ==
    /\ c \in Logouts /\ at[c] = "new" /\ holder = Nobody
    /\ credential' = 0 /\ Settles(c)
    /\ UNCHANGED <<age, live, issued, holder, lost>>

\* Time passes for the token that is stored.
Ages ==
    /\ credential # 0 /\ age[credential] # "expired"
    /\ age' = [age EXCEPT ![credential] = IF @ = "fresh" THEN "soon" ELSE "expired"]
    /\ UNCHANGED <<credential, live, issued, at, token, holder, cut, lost>>

\* What the runtime owes a request: its turn, and the end of its exchange, which has
\* fifteen seconds.
Proceeds(c) == Look(c) \/ Enter(c) \/ GivesUp(c) \/ Stores(c) \/ ExchangeFails(c)

CredentialNext ==
    \/ \E c \in Clients :
         \/ Look(c) \/ Enter(c) \/ Rotate(c) \/ Stores(c) \/ ExchangeFails(c) \/ GivesUp(c)
         \/ CancelClient(c) \/ LogIn(c) \/ StoreLogin(c) \/ LogOut(c)
    \/ Ages

CredentialFairness == \A c \in Requests : WF_credentialVars(Proceeds(c))

CredentialSpec == CredentialInit /\ [][CredentialNext]_credentialVars

(******************************** Properties *******************************)

\* The stored token, and any token on its way to the server, is one that the server
\* still takes, as long as no answer was lost on its way: concurrent requests
\* exchange a token once, and none presents the token of another's exchange.
TokenUsable ==
    ~lost =>
        /\ credential # 0 =>
              \/ credential \in live
              \/ \E c \in Refreshers : at[c] = "rotated" /\ holder = c
        /\ \A c \in Refreshers : at[c] = "refreshing" => token[c] \in live

\* After a logout only a login brings a credential back: no exchange that was under
\* way stores its token over it.
LogoutStays ==
    [][(credential = 0 /\ credential' # 0) => \E c \in Logins : at[c] # at'[c]]_credentialVars

\* A request settles, whatever the server does, unless a catalogue's exchange, which
\* has no time limit, keeps the lock.
RequestsSettle ==
    \A c \in Requests :
        (at[c] = "waiting") ~>
            \/ at[c] = "settled"
            \/ \E k \in Catalogues : at[k] \in {"refreshing", "rotated"}
=============================================================================
