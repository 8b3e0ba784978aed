---------------------------- MODULE ServicesProofs ----------------------------
(***************************************************************************)
(* What the services around the agent never do, whatever the number of     *)
(* their callers: credentials, Codex connections, model catalogues and the *)
(* two ways to log in.  They share no state; each part first states the    *)
(* invariant that its steps keep.                                          *)
(***************************************************************************)
EXTENDS Credentials, CodexSockets, BrowserLogin, ModelRegistry, DeviceLogin,
        SequenceTheorems, TLAPS

(****************************** Credentials ******************************)

Stages == {"new", "waiting", "refreshing", "rotated", "settled"}

Exchanging(c) == at[c] \in {"refreshing", "rotated"}

\* Who holds the lock, and the tokens there are.
CredentialTypes ==
    /\ issued \in Nat \ {0}
    /\ credential \in 0..issued /\ live \subseteq 1..issued
    /\ at \in [Clients -> Stages] /\ token \in [Clients -> 0..issued]
    /\ cut \subseteq Clients /\ lost \in BOOLEAN

\* The lock is held for an exchange, by a refresher.
LockHeld ==
    /\ \A c \in Clients : Exchanging(c) <=> holder = c
    /\ \A c \in Clients \ Refreshers : at[c] \in {"new", "waiting", "settled"}

\* What the one that exchanges has in its hands.
InHand ==
    \A c \in Refreshers : Exchanging(c) =>
        /\ credential # 0
        /\ at[c] = "refreshing" => token[c] = credential
        /\ at[c] = "rotated" => token[c] \in live /\ token[c] # credential

\* The token of a login that waits for the lock is nobody else's.
LoggedIn ==
    \A c \in Logins : at[c] = "waiting" =>
        /\ token[c] \in live /\ token[c] # credential
        /\ \A d \in Logins : (d # c /\ at[d] = "waiting") => token[d] # token[c]
        /\ \A d \in Refreshers : at[d] = "rotated" => token[d] # token[c]

StoredLives ==
    (~lost /\ credential # 0 /\ \A c \in Refreshers : at[c] # "rotated") => credential \in live

CredentialInv == CredentialTypes /\ LockHeld /\ InHand /\ LoggedIn /\ StoredLives

-----------------------------------------------------------------------------
LEMMA CredentialInitInv == CredentialInit => CredentialInv
<1> SUFFICES ASSUME CredentialInit PROVE CredentialInv
    OBVIOUS
<1>1. CredentialTypes
  <2>1. issued = 1 /\ credential \in {0, 1} /\ live = {1}
      BY DEF CredentialInit
  <2>2. issued \in Nat \ {0} /\ credential \in 0..issued /\ live \subseteq 1..issued
      BY <2>1
  <2>3. at \in [Clients -> Stages] /\ token \in [Clients -> 0..issued]
      BY <2>1 DEF CredentialInit, Stages
  <2> QED BY <2>2, <2>3 DEF CredentialInit, CredentialTypes
<1>2. LockHeld /\ InHand /\ LoggedIn
    BY ClientsAssumption DEF CredentialInit, LockHeld, InHand, LoggedIn, Exchanging, Clients, Refreshers
<1>3. StoredLives
    BY DEF CredentialInit, StoredLives
<1> QED BY <1>1, <1>2, <1>3 DEF CredentialInv

LEMMA NextInv == CredentialInv /\ [CredentialNext]_credentialVars => CredentialInv'
<1> SUFFICES ASSUME CredentialInv, [CredentialNext]_credentialVars PROVE CredentialInv'
    OBVIOUS
<1> USE ClientsAssumption DEF CredentialInv, CredentialTypes, LockHeld, InHand, LoggedIn, StoredLives,
        Stages, Exchanging, Goes, Holds, Settles, Refreshers, Clients
<1>1. ASSUME NEW c \in Clients, Look(c)
      PROVE  CredentialInv'
  <2>1. CredentialTypes'
      BY <1>1 DEF Look
  <2>2. LockHeld'
      BY <1>1 DEF Look
  <2>3. InHand'
      BY <1>1 DEF Look
  <2>4. LoggedIn'
      BY <1>1 DEF Look
  <2>5. StoredLives'
      BY <1>1 DEF Look
  <2> QED BY <2>1, <2>2, <2>3, <2>4, <2>5
<1>2. ASSUME NEW c \in Clients, Enter(c)
      PROVE  CredentialInv'
    BY <1>2 DEF Enter, Presented, Needs
<1>3. ASSUME NEW c \in Clients, Rotate(c)
      PROVE  CredentialInv'
  <2>1. CredentialTypes'
    <3>1. issued' = issued + 1 /\ issued' \in Nat \ {0} /\ 0..issued \subseteq 0..issued'
        BY <1>3 DEF Rotate, NewToken
    <3>2. live' \subseteq 1..issued'
      <4>1. live' = (live \ {token[c]}) \cup {issued + 1}
          BY <1>3 DEF Rotate
      <4>2. 1..issued \subseteq 1..issued' /\ issued + 1 \in 1..issued'
          BY <3>1
      <4> QED BY <4>1, <4>2
    <3>3. token' \in [Clients -> 0..issued'] /\ at' \in [Clients -> Stages]
        BY <1>3, <3>1 DEF Rotate
    <3> QED BY <1>3, <3>1, <3>2, <3>3 DEF Rotate
  <2>2. LockHeld'
      BY <1>3 DEF Rotate, NewToken
  <2>3. InHand'
      BY <1>3 DEF Rotate, NewToken
  <2>4. LoggedIn'
      BY <1>3 DEF Rotate, NewToken
  <2>5. StoredLives'
      BY <1>3 DEF Rotate, NewToken
  <2> QED BY <2>1, <2>2, <2>3, <2>4, <2>5
<1>4. ASSUME NEW c \in Clients, Stores(c)
      PROVE  CredentialInv'
    BY <1>4 DEF Stores
<1>5. ASSUME NEW c \in Clients, ExchangeFails(c)
      PROVE  CredentialInv'
  <2>1. CredentialTypes'
      BY <1>5 DEF ExchangeFails
  <2>2. LockHeld'
      BY <1>5 DEF ExchangeFails
  <2>3. InHand'
      BY <1>5 DEF ExchangeFails
  <2>4. LoggedIn'
      BY <1>5 DEF ExchangeFails
  <2>5. StoredLives'
      BY <1>5 DEF ExchangeFails
  <2> QED BY <2>1, <2>2, <2>3, <2>4, <2>5
<1>6. ASSUME NEW c \in Clients, GivesUp(c)
      PROVE  CredentialInv'
    BY <1>6 DEF GivesUp
<1>7. ASSUME NEW c \in Clients, CancelClient(c)
      PROVE  CredentialInv'
    BY <1>7 DEF CancelClient
<1>8. ASSUME NEW c \in Clients, LogIn(c)
      PROVE  CredentialInv'
    BY <1>8 DEF LogIn, NewToken
<1>9. ASSUME NEW c \in Clients, StoreLogin(c)
      PROVE  CredentialInv'
    BY <1>9 DEF StoreLogin
<1>10. ASSUME NEW c \in Clients, LogOut(c)
      PROVE  CredentialInv'
    BY <1>10 DEF LogOut
<1>11. CASE Ages
    BY <1>11 DEF Ages
<1>12. CASE UNCHANGED credentialVars
    BY <1>12 DEF credentialVars
<1> QED BY <1>1, <1>2, <1>3, <1>4, <1>5, <1>6, <1>7, <1>8, <1>9, <1>10, <1>11, <1>12 DEF CredentialNext

\* A refresh presents a token that the server still takes, unless an answer of the server
\* was lost, for any number of callers that find the credential expired at once and log
\* in or out in between.
THEOREM PresentsLiveTokens == CredentialSpec => []TokenUsable
<1>1. CredentialInv => TokenUsable
    BY DEF CredentialInv, CredentialTypes, LockHeld, InHand, StoredLives, TokenUsable, Exchanging, Refreshers, Clients
<1> QED BY <1>1, CredentialInitInv, NextInv, PTL DEF CredentialSpec

\* Where no credential is stored only a login stores one: no refresh that was under way
\* when a logout came brings the credential back.
THEOREM LogoutsLast == CredentialSpec => LogoutStays
<1>1. CredentialInv /\ [CredentialNext]_credentialVars
        => [(credential = 0 /\ credential' # 0) => \E c \in Logins : at[c] # at'[c]]_credentialVars
  <2> SUFFICES ASSUME CredentialInv, CredentialNext, credential = 0, credential' # 0
               PROVE  \E c \in Logins : at[c] # at'[c]
      OBVIOUS
  <2>1. PICK c \in Clients : Stores(c) \/ StoreLogin(c)
      BY DEF CredentialNext, Look, Enter, Rotate, ExchangeFails, GivesUp, CancelClient, LogIn, LogOut, Ages
  <2>2. ~Stores(c)
      BY DEF CredentialInv, CredentialTypes, LockHeld, InHand, Stores, Exchanging, Stages
  <2> QED BY <2>1, <2>2 DEF StoreLogin, Settles, Goes, CredentialInv, CredentialTypes
<1> QED BY <1>1, CredentialInitInv, NextInv, PTL DEF CredentialSpec, LogoutStays

(*************************** Codex connections ***************************)

CodexTurns ==
    Settled \cup {"new", "panicked", "acquire", "connect", "reuse", "send", "wait", "save", "release",
                  "schedule", "clear", "discard", "judge", "sse"}

Texts       == {Says(r) : r \in Asks} \cup {Answers(r) : r \in Asks}
Frames      == [of : Asks, base : Asks \cup {NoAsk}, input : Seq(Texts)]
Connections == [open : BOOLEAN, alive : BOOLEAN, known : SUBSET Asks, frames : Seq(Frames)]
CodexReplies == [asked : Seq(Texts), id : Asks \cup {NoAsk}]
Entries     == [socket : Sockets, busy : BOOLEAN, aged : BOOLEAN, timer : Asks \cup {NoAsk},
                reply : CodexReplies]
Memories    == [cached : BOOLEAN, started : BOOLEAN, aborted : BOOLEAN,
                why : {"none", "transport", "previous_response_not_found", "connection_limit", "api"},
                retried : SUBSET {"none", "transport", "previous_response_not_found", "connection_limit", "api"}]

RequestTypes ==
    /\ turn \in [Asks -> CodexTurns]
    /\ asked \in [Asks -> Seq(Texts)] /\ heard \in [Asks -> Seq(Texts)]
    /\ uses \in [Asks -> Sockets \cup {NoSocket}]
    /\ went \in [Asks -> Memories]
    /\ got \in [Asks -> Asks \cup {NoAsk}]

CodexTypes ==
    /\ RequestTypes
    /\ sockets \in [Sockets -> Connections]
    /\ entry \in Entries \cup {NoEntry}

\* A request that was answered, in the context of all that it asked.
Heard(q) == turn[q] # "new" /\ heard[q] = asked[q]

\* A frame that stands for all that r asks.
Stands(f, r) ==
    /\ f.of = r
    /\ \/ f.base = NoAsk /\ f.input = asked[r]
       \/ /\ f.base # NoAsk /\ Heard(f.base)
          /\ Append(asked[f.base], Answers(f.base)) \o f.input = asked[r]

\* The connection that a request uses: the cache knows that it is in use, and nobody has
\* closed it before the answer is complete.
OwnSocket(r) ==
    OnSocket(r) =>
        /\ uses[r] \in Sockets
        /\ entry.socket = uses[r] => went[r].cached /\ entry.busy
        /\ turn[r] \in {"reuse", "send", "wait", "save"} => sockets[uses[r]].open

\* What is in it, and what has come of it.
OwnFrames(r) ==
    /\ turn[r] \in {"reuse", "send", "save", "release"} => sockets[uses[r]].frames = <<>>
    /\ turn[r] = "wait" =>
          Len(sockets[uses[r]].frames) = 1 /\ Stands(sockets[uses[r]].frames[1], r)
    /\ got[r] # NoAsk => got[r] = r /\ Heard(r)
    /\ turn[r] = "save" => got[r] = r

Alone == \A q, r \in Asks : (OnSocket(q) /\ OnSocket(r) /\ uses[q] = uses[r]) => q = r

\* What the cache keeps: an answer in full, and a connection without another's frames.
EntryKept ==
    entry # NoEntry =>
        /\ ~entry.busy => sockets[entry.socket].frames = <<>>
        /\ entry.reply # NoReply =>
              entry.reply.id # NoAsk /\ Heard(entry.reply.id) /\ entry.reply.asked = asked[entry.reply.id]

CodexCore ==
    /\ CodexTypes
    /\ \A r \in Asks : OwnSocket(r) /\ OwnFrames(r)
    /\ Alone /\ EntryKept

CodexInv == ~crossed => CodexCore

LEMMA CodexInitInv == CodexInit => CodexInv
<1> SUFFICES ASSUME CodexInit PROVE CodexCore
    BY DEF CodexInv
<1>1. CodexTypes
    BY CodexAssumption DEF CodexInit, CodexTypes, RequestTypes, CodexTurns, Connections, Memories, Fresh, NotOpen, Frames
<1>2. \A r \in Asks : turn[r] = "new" /\ got[r] = NoAsk
    BY DEF CodexInit
<1> QED BY <1>1, <1>2 DEF CodexInit, CodexCore, OwnSocket, OwnFrames, Alone, EntryKept, OnSocket

-----------------------------------------------------------------------------
\* What a sequence is made of.
LEMMA OnlyOne ==
    ASSUME NEW S, NEW s \in Seq(S), Len(s) = 1
    PROVE  Head(s) = s[1] /\ s[1] \in S /\ Tail(s) = <<>>
<1>1. s # <<>>
    OBVIOUS
<1>2. Tail(s) \in Seq(S) /\ Len(Tail(s)) = 0
    BY <1>1, HeadTailProperties
<1>3. Tail(s) = <<>>
    BY <1>2, EmptySeq
<1>4. Head(s) = s[1] /\ s[1] \in S
    BY ElementOfSeq
<1> QED BY <1>3, <1>4

\* What the cache may be.
LEMMA EntryShape ==
    ASSUME CodexTypes
    PROVE  \/ entry = NoEntry /\ entry.socket = NoSocket /\ entry.socket \notin Sockets
           \/ entry # NoEntry /\ entry \in Entries /\ entry.socket \in Sockets
BY CodexAssumption DEF CodexTypes, NoEntry, Entries

\* A step that takes no answer away.
AnswersStay ==
    \A q \in Asks :
        /\ turn[q] # "new" => turn'[q] # "new" /\ asked'[q] = asked[q]
        /\ Heard(q) => heard'[q] = asked[q]

\* A step of r, which leaves the others and their connections alone.
OthersStay(r) ==
    /\ AnswersStay
    /\ \A q \in Asks \ {r} :
          /\ turn'[q] = turn[q] /\ uses'[q] = uses[q] /\ went'[q].cached = went[q].cached /\ got'[q] = got[q]
          /\ OnSocket(q) =>
                /\ sockets'[uses[q]].open = sockets[uses[q]].open
                /\ sockets'[uses[q]].frames = sockets[uses[q]].frames
                /\ entry'.socket = uses[q] => entry.socket = uses[q] /\ entry'.busy

LEMMA HeardStays ==
    ASSUME AnswersStay, NEW q \in Asks, Heard(q)
    PROVE  Heard(q)'
BY DEF AnswersStay, Heard

LEMMA StandsStays ==
    ASSUME AnswersStay, NEW f \in Frames, NEW r \in Asks, Stands(f, r), turn[r] # "new"
    PROVE  Stands(f, r)'
<1>1. asked'[r] = asked[r]
    BY DEF AnswersStay
<1>2. CASE f.base = NoAsk
    BY <1>1, <1>2 DEF Stands
<1>3. CASE f.base # NoAsk
  <2>1. f.base \in Asks /\ Heard(f.base)
      BY <1>3 DEF Frames, Stands
  <2>2. asked'[f.base] = asked[f.base] /\ Heard(f.base)'
      BY <2>1, HeardStays DEF AnswersStay, Heard
  <2> QED BY <1>1, <1>3, <2>2 DEF Stands
<1> QED BY <1>2, <1>3

LEMMA FramesStay ==
    ASSUME CodexTypes, AnswersStay, NEW q \in Asks, OwnFrames(q), OnSocket(q) => uses[q] \in Sockets,
           turn'[q] = turn[q], uses'[q] = uses[q], got'[q] = got[q],
           OnSocket(q) => sockets'[uses[q]].frames = sockets[uses[q]].frames
    PROVE  OwnFrames(q)'
<1>1. ASSUME turn[q] = "wait"
      PROVE  Len(sockets'[uses'[q]].frames) = 1 /\ Stands(sockets[uses[q]].frames[1], q)'
  <2>1. sockets'[uses[q]].frames = sockets[uses[q]].frames /\ uses[q] \in Sockets
      BY <1>1 DEF OnSocket
  <2>2. Len(sockets[uses[q]].frames) = 1 /\ Stands(sockets[uses[q]].frames[1], q)
      BY <1>1 DEF OwnFrames
  <2>3. sockets[uses[q]].frames \in Seq(Frames)
      BY <2>1 DEF CodexTypes, Connections
  <2>4. sockets[uses[q]].frames[1] \in Frames
      BY <2>2, <2>3
  <2>5. sockets'[uses'[q]].frames[1] = sockets[uses[q]].frames[1]
      BY <2>1
  <2>6. \A g \in Frames : Stands(g, q) => Stands(g, q)'
      BY <1>1, StandsStays
  <2> QED BY <2>1, <2>2, <2>4, <2>5, <2>6 DEF Stands, Heard
<1>2. turn[q] \in {"reuse", "send", "save", "release"} => sockets'[uses[q]].frames = <<>>
    BY DEF OwnFrames, OnSocket
<1>3. got[q] # NoAsk => Heard(q)'
    BY HeardStays DEF OwnFrames
<1> QED BY <1>1, <1>2, <1>3 DEF OwnFrames

LEMMA OneMoves ==
    ASSUME CodexCore, NEW r \in Asks, OthersStay(r), CodexTypes', EntryKept',
           OwnSocket(r)', OwnFrames(r)',
           \A q \in Asks \ {r} : (OnSocket(r)' /\ OnSocket(q)) => uses'[r] # uses[q]
    PROVE  CodexCore'
<1>1. ASSUME NEW q \in Asks \ {r}
      PROVE  OwnSocket(q)' /\ OwnFrames(q)' /\ (OnSocket(q)' <=> OnSocket(q))
  <2>1. /\ turn'[q] = turn[q] /\ uses'[q] = uses[q] /\ went'[q].cached = went[q].cached /\ got'[q] = got[q]
        /\ OwnSocket(q) /\ OwnFrames(q) /\ CodexTypes /\ AnswersStay
      BY <1>1 DEF OthersStay, CodexCore
  <2>2. OnSocket(q)' <=> OnSocket(q)
      BY <2>1 DEF OnSocket
  <2>3. OnSocket(q) =>
          /\ sockets'[uses[q]].open = sockets[uses[q]].open
          /\ sockets'[uses[q]].frames = sockets[uses[q]].frames
          /\ entry'.socket = uses[q] => entry.socket = uses[q] /\ entry'.busy
      BY <1>1 DEF OthersStay
  <2>4. OwnSocket(q)'
      BY <2>1, <2>2, <2>3 DEF OwnSocket, OnSocket
  <2>5. OwnFrames(q)'
      BY <2>1, <2>3, FramesStay DEF OwnSocket
  <2> QED BY <2>2, <2>4, <2>5
<1>2. Alone'
  <2>1. \A q \in Asks \ {r} : uses'[q] = uses[q]
      BY DEF OthersStay
  <2>2. Alone
      BY DEF CodexCore
  <2> QED BY <1>1, <2>1, <2>2 DEF Alone
<1> QED BY <1>1, <1>2 DEF CodexCore

\* A request remembers something else.
LEMMA Remembers ==
    ASSUME CodexTypes, NEW r \in Asks, NEW m \in Memories, went' = [went EXCEPT ![r] = m]
    PROVE  /\ went' \in [Asks -> Memories] /\ went'[r] = m
           /\ \A q \in Asks \ {r} : went'[q] = went[q]
BY DEF CodexTypes, RequestTypes

LEMMA Closing ==
    ASSUME CodexTypes, NEW s \in Sockets
    PROVE  /\ Shut(sockets, s) \in [Sockets -> Connections]
           /\ Shut(sockets, s)[s].frames = <<>>
           /\ \A x \in Sockets : x # s => Shut(sockets, s)[x] = sockets[x]
<1>1. NotOpen \in Connections /\ NotOpen.frames = <<>>
    BY DEF NotOpen, Connections
<1> QED BY <1>1 DEF CodexTypes, Shut

\* The cache keeps its connection and its answer, forgets the answer, or forgets both.
LEMMA EntryStays ==
    ASSUME CodexTypes, CodexTypes', EntryKept, AnswersStay,
           \/ entry' = NoEntry
           \/ /\ entry # NoEntry /\ entry'.socket = entry.socket
              /\ entry'.reply \in {entry.reply, NoReply}
              /\ ~entry'.busy => sockets'[entry.socket].frames = <<>>
    PROVE  EntryKept'
<1> SUFFICES ASSUME entry' # NoEntry PROVE EntryKept'
    BY DEF EntryKept
<1>1. ASSUME entry'.reply # NoReply
      PROVE  /\ entry'.reply.id # NoAsk /\ turn'[entry'.reply.id] # "new"
             /\ heard'[entry'.reply.id] = asked'[entry'.reply.id]
             /\ entry'.reply.asked = asked'[entry'.reply.id]
  <2>1. entry'.reply = entry.reply /\ entry # NoEntry /\ entry \in Entries
      BY <1>1, EntryShape
  <2>2. /\ entry.reply.id \in Asks /\ entry.reply.id # NoAsk /\ Heard(entry.reply.id)
        /\ entry.reply.asked = asked[entry.reply.id]
      BY <1>1, <2>1 DEF EntryKept, Entries, CodexReplies
  <2>3. PICK q \in Asks : q = entry.reply.id
      BY <2>2
  <2>4. heard'[q] = asked[q] /\ asked'[q] = asked[q] /\ turn'[q] # "new"
      BY <2>2, <2>3 DEF AnswersStay, Heard
  <2>5. entry'.reply.id = q
      BY <2>1, <2>3
  <2> QED BY <1>1, <2>1, <2>2, <2>3, <2>4, <2>5
<1>2. ~entry'.busy => sockets'[entry'.socket].frames = <<>>
    OBVIOUS
<1> QED BY <1>1, <1>2 DEF EntryKept, Heard

LEMMA AskCodexSafe ==
    ASSUME CodexCore, NEW r \in Asks, AskCodex(r), ~crossed'
    PROVE  CodexCore'
<1>0. /\ CodexTypes /\ OwnSocket(r) /\ OwnFrames(r) /\ EntryKept /\ went[r] \in Memories
      /\ \A q \in Asks : OwnSocket(q)
    BY DEF CodexCore, CodexTypes, RequestTypes
<1> USE CodexAssumption DEF CodexTurns, Settled
<1>a. turn[r] = "new" /\ \E t \in {"sse", "acquire"} : turn' = [turn EXCEPT ![r] = t]
    BY DEF AskCodex, Turns
<1>b. PICK a \in Seq(Texts) : asked' = [asked EXCEPT ![r] = a]
  <2>1. CASE asked' = [asked EXCEPT ![r] = <<Says(r)>>]
    <3>1. <<Says(r)>> \in Seq(Texts)
        BY DEF Texts
    <3> QED BY <2>1, <3>1
  <2>2. ASSUME NEW q \in Asks, asked' = [asked EXCEPT ![r] = asked[q] \o <<Answers(q), Says(r)>>]
        PROVE  \E a \in Seq(Texts) : asked' = [asked EXCEPT ![r] = a]
    <3>1. <<Answers(q), Says(r)>> \in Seq(Texts) /\ asked[q] \in Seq(Texts)
        BY <1>0 DEF Texts, CodexTypes, RequestTypes
    <3>2. asked[q] \o <<Answers(q), Says(r)>> \in Seq(Texts)
        BY <3>1
    <3> QED BY <2>2, <3>2
  <2> QED BY <2>1, <2>2 DEF AskCodex
<1>c. UNCHANGED <<uses, went, got, heard, sockets, entry>>
    BY DEF AskCodex
<1>1. CodexTypes'
    BY <1>0, <1>a, <1>b, <1>c DEF CodexTypes, RequestTypes
<1>2. OthersStay(r)
    BY <1>0, <1>a, <1>b, <1>c DEF CodexTypes, RequestTypes, OthersStay, AnswersStay, OnSocket, OwnSocket, Heard
<1>3. EntryKept'
    BY <1>0, <1>1, <1>2, <1>c, EntryStays, EntryShape DEF OthersStay, EntryKept
<1>4. OwnSocket(r)'
    BY <1>0, EntryShape DEF AskCodex, Turns, Happens, OwnSocket, OnSocket, CodexTypes, RequestTypes, Memories, Connections, Entries
<1>5. OwnFrames(r)'
    BY <1>0, <1>2, HeardStays, EntryShape DEF AskCodex, Turns, Happens, OwnFrames, OnSocket, OthersStay, CodexTypes, RequestTypes, Connections
<1>6. \A q \in Asks \ {r} : (OnSocket(r)' /\ OnSocket(q)) => uses'[r] # uses[q]
    BY <1>0 DEF AskCodex, Turns, Happens, OnSocket, OwnSocket, CodexCore, Alone, CodexTypes, RequestTypes
<1> QED BY <1>1, <1>2, <1>3, <1>4, <1>5, <1>6, OneMoves

LEMMA AcquireSafe ==
    ASSUME CodexCore, NEW r \in Asks, Acquire(r), ~crossed'
    PROVE  CodexCore'
<1>0. /\ CodexTypes /\ OwnSocket(r) /\ OwnFrames(r) /\ EntryKept /\ went[r] \in Memories
      /\ \A q \in Asks : OwnSocket(q)
    BY DEF CodexCore, CodexTypes, RequestTypes
<1> USE CodexAssumption DEF CodexTurns, Settled
<1>a. /\ turn[r] = "acquire" /\ turn' = [turn EXCEPT ![r] = turn'[r]] /\ turn'[r] \in {"connect", "reuse"}
      /\ uses' = [uses EXCEPT ![r] = entry.socket]
      /\ UNCHANGED <<asked, got, heard>>
    BY <1>0 DEF Acquire, Turns, CodexTypes, RequestTypes
<1>b. went' \in [Asks -> Memories] /\ \A q \in Asks \ {r} : went'[q] = went[q]
  <2>1. PICK b \in BOOLEAN : went' = [went EXCEPT ![r].cached = b]
      BY DEF Acquire
  <2>2. [went[r] EXCEPT !.cached = b] \in Memories
      BY <1>0 DEF Memories
  <2>3. went' = [went EXCEPT ![r] = [went[r] EXCEPT !.cached = b]]
      BY <2>1
  <2> QED BY <1>0, <2>2, <2>3, Remembers
<1>c. /\ entry' \in Entries \cup {NoEntry}
      /\ entry' # NoEntry => /\ entry # NoEntry /\ entry'.socket = entry.socket /\ entry'.reply = entry.reply
                             /\ entry.busy => entry'.busy
                             /\ UNCHANGED sockets
    BY <1>0, EntryShape DEF Acquire, Entries
<1>d. UNCHANGED sockets \/ (entry # NoEntry /\ ~entry.busy /\ sockets' = Shut(sockets, entry.socket))
    BY DEF Acquire
<1>e. turn'[r] = "reuse" =>
        /\ entry # NoEntry /\ ~entry.busy /\ entry'.busy /\ entry'.socket = entry.socket
        /\ went'[r].cached /\ sockets[entry.socket].open /\ UNCHANGED sockets
  <2> SUFFICES ASSUME turn'[r] = "reuse"
               PROVE  /\ entry # NoEntry /\ ~entry.busy /\ entry'.busy /\ entry'.socket = entry.socket
                      /\ went'[r].cached /\ sockets[entry.socket].open /\ UNCHANGED sockets
      OBVIOUS
  <2>1. ~(turn' = [turn EXCEPT ![r] = "connect"])
      BY <1>0 DEF CodexTypes, RequestTypes
  <2>2. /\ entry # NoEntry /\ ~entry.busy /\ sockets[entry.socket].open
        /\ went' = [went EXCEPT ![r].cached = TRUE]
        /\ entry' = [entry EXCEPT !.timer = NoAsk, !.busy = TRUE] /\ UNCHANGED sockets
      BY <2>1 DEF Acquire, Turns
  <2>3. entry \in Entries
      BY <1>0, <2>2, EntryShape
  <2>4. entry'.busy /\ entry'.socket = entry.socket
      BY <2>2, <2>3 DEF Entries
  <2>5. went'[r].cached
      BY <1>0, <2>2 DEF CodexTypes, RequestTypes, Memories
  <2> QED BY <2>2, <2>4, <2>5
<1>1. CodexTypes'
  <2>1. sockets' \in [Sockets -> Connections]
      BY <1>0, <1>d, EntryShape, Closing DEF CodexTypes
  <2> QED BY <1>0, <1>a, <1>b, <1>c, <2>1, EntryShape DEF CodexTypes, RequestTypes
<1>2. OthersStay(r)
  <2>1. ASSUME NEW q \in Asks \ {r}, OnSocket(q)
        PROVE  /\ sockets'[uses[q]] = sockets[uses[q]]
               /\ entry'.socket = uses[q] => entry.socket = uses[q] /\ entry'.busy
    <3>1. uses[q] \in Sockets /\ (entry.socket = uses[q] => entry.busy)
        BY <1>0, <2>1 DEF OwnSocket
    <3>2. sockets'[uses[q]] = sockets[uses[q]]
        BY <1>0, <1>d, <3>1, EntryShape, Closing
    <3>3. entry'.socket = uses[q] => entry' # NoEntry
        BY <3>1 DEF NoEntry
    <3> QED BY <1>c, <3>1, <3>2, <3>3
  <2>2. AnswersStay
      BY <1>0, <1>a DEF AnswersStay, Heard, CodexTypes, RequestTypes
  <2> QED BY <1>0, <1>a, <1>b, <2>1, <2>2 DEF OthersStay, CodexTypes, RequestTypes
<1>3. EntryKept'
    BY <1>0, <1>1, <1>2, <1>c, EntryStays DEF OthersStay, EntryKept
<1>4. OwnSocket(r)'
  <2>1. OnSocket(r)' => turn'[r] = "reuse" /\ uses'[r] = entry.socket
      BY <1>0, <1>a DEF OnSocket, CodexTypes, RequestTypes
  <2> QED BY <1>0, <1>e, <2>1, EntryShape DEF OwnSocket
<1>5. OwnFrames(r)'
  <2>1. turn'[r] = "reuse" => sockets'[uses'[r]].frames = <<>>
      BY <1>0, <1>a, <1>e DEF EntryKept, CodexTypes, RequestTypes
  <2>2. got[r] # NoAsk => Heard(r)'
      BY <1>0, <1>2, HeardStays DEF OwnFrames, OthersStay
  <2> QED BY <1>0, <1>a, <2>1, <2>2 DEF OwnFrames
<1>6. \A q \in Asks \ {r} : (OnSocket(r)' /\ OnSocket(q)) => uses'[r] # uses[q]
  <2>1. OnSocket(r)' => ~entry.busy /\ uses'[r] = entry.socket
      BY <1>0, <1>a, <1>e DEF OnSocket, CodexTypes, RequestTypes
  <2> QED BY <1>0, <2>1 DEF OwnSocket
<1> QED BY <1>1, <1>2, <1>3, <1>4, <1>5, <1>6, OneMoves

LEMMA FetchReusedSafe ==
    ASSUME CodexCore, NEW r \in Asks, FetchReused(r), ~crossed'
    PROVE  CodexCore'
<1>0. /\ CodexTypes /\ OwnSocket(r) /\ OwnFrames(r) /\ EntryKept /\ went[r] \in Memories
      /\ \A q \in Asks : OwnSocket(q)
    BY DEF CodexCore, CodexTypes, RequestTypes
<1> USE CodexAssumption DEF CodexTurns, Settled
<1>1. CodexTypes'
    BY <1>0, EntryShape DEF FetchReused, Turns, CodexTypes, RequestTypes, Memories, Entries, Connections, CodexReplies
<1>2. OthersStay(r)
    BY <1>0, EntryShape DEF FetchReused, Turns, OthersStay, AnswersStay, OnSocket, OwnSocket, CodexTypes, RequestTypes, Memories, Heard
<1>3. EntryKept'
    BY <1>0, <1>1, <1>2, EntryStays, EntryShape DEF FetchReused, Turns, OthersStay, EntryKept, CodexTypes
<1>4. OwnSocket(r)'
    BY <1>0, EntryShape DEF FetchReused, Turns, OwnSocket, OnSocket, CodexTypes, RequestTypes, Memories, Connections, Entries
<1>5. OwnFrames(r)'
    BY <1>0, <1>2, HeardStays, EntryShape DEF FetchReused, Turns, OwnFrames, OnSocket, OthersStay, CodexTypes, RequestTypes, Connections
<1>6. \A q \in Asks \ {r} : (OnSocket(r)' /\ OnSocket(q)) => uses'[r] # uses[q]
    BY <1>0 DEF FetchReused, Turns, OnSocket, OwnSocket, CodexCore, Alone, CodexTypes, RequestTypes
<1> QED BY <1>1, <1>2, <1>3, <1>4, <1>5, <1>6, OneMoves

LEMMA ConnectedSafe ==
    ASSUME CodexCore, NEW r \in Asks, Connected(r), ~crossed'
    PROVE  CodexCore'
<1>0. /\ CodexTypes /\ OwnSocket(r) /\ OwnFrames(r) /\ EntryKept /\ went[r] \in Memories
      /\ \A q \in Asks : OwnSocket(q)
    BY DEF CodexCore, CodexTypes, RequestTypes
<1> USE CodexAssumption DEF CodexTurns, Settled
<1>a. PICK s \in Sockets :
        /\ Free(s) /\ uses' = [uses EXCEPT ![r] = s] /\ sockets' = [sockets EXCEPT ![s] = OpenSocket]
        /\ entry' = IF went[r].cached
                    THEN [socket |-> s, busy |-> TRUE, aged |-> FALSE, timer |-> NoAsk, reply |-> NoReply]
                    ELSE entry
    BY DEF Connected
<1>b. OpenSocket \in Connections /\ OpenSocket.open /\ OpenSocket.frames = <<>>
    BY DEF OpenSocket, Connections
<1>c. /\ turn[r] = "connect" /\ turn' = [turn EXCEPT ![r] = "send"]
      /\ UNCHANGED <<asked, went, got, heard>>
    BY DEF Connected, Turns
<1>d. NoReply \in CodexReplies
    BY DEF NoReply, CodexReplies
<1>1. CodexTypes'
  <2>1. entry' \in Entries \cup {NoEntry}
      BY <1>0, <1>a, <1>d DEF Entries, CodexTypes
  <2> QED BY <1>0, <1>a, <1>b, <1>c, <2>1 DEF CodexTypes, RequestTypes
<1>2. OthersStay(r)
  <2>1. ASSUME NEW q \in Asks \ {r}, OnSocket(q)
        PROVE  sockets'[uses[q]] = sockets[uses[q]] /\ uses[q] # s /\ uses[q] \in Sockets
      BY <1>0, <1>a, <2>1 DEF Free, OwnSocket, CodexTypes
  <2>2. ASSUME NEW q \in Asks \ {r}, OnSocket(q), entry'.socket = uses[q]
        PROVE  entry.socket = uses[q] /\ entry'.busy
      BY <1>0, <1>a, <2>1, <2>2 DEF OwnSocket
  <2>3. AnswersStay
      BY <1>0, <1>c DEF AnswersStay, Heard, CodexTypes, RequestTypes
  <2> QED BY <1>0, <1>a, <1>c, <2>1, <2>2, <2>3 DEF OthersStay, CodexTypes, RequestTypes
<1>3. EntryKept'
  <2>1. CASE went[r].cached
      BY <1>a, <2>1 DEF EntryKept
  <2>2. CASE ~went[r].cached
    <3>1. entry' = entry /\ (entry # NoEntry => sockets'[entry.socket] = sockets[entry.socket])
        BY <1>0, <1>a, <2>2, EntryShape DEF Free, CodexTypes
    <3> QED BY <1>0, <1>1, <1>2, <3>1, EntryStays DEF OthersStay, EntryKept
  <2> QED BY <2>1, <2>2
<1>4. OwnSocket(r)'
  <2>1. uses'[r] = s /\ turn'[r] = "send" /\ went'[r] = went[r] /\ sockets'[s] = OpenSocket /\ entry.socket # s
      BY <1>0, <1>a, <1>c DEF CodexTypes, RequestTypes, Free
  <2>2. entry'.socket = s => went'[r].cached /\ entry'.busy
      BY <1>a, <2>1
  <2> QED BY <1>b, <2>1, <2>2 DEF OwnSocket
<1>5. OwnFrames(r)'
  <2>1. uses'[r] = s /\ turn'[r] = "send" /\ sockets'[s] = OpenSocket
      BY <1>0, <1>a, <1>c DEF CodexTypes, RequestTypes
  <2>2. got[r] # NoAsk => Heard(r)'
      BY <1>0, <1>2, HeardStays DEF OwnFrames, OthersStay
  <2> QED BY <1>0, <1>b, <1>c, <2>1, <2>2 DEF OwnFrames
<1>6. \A q \in Asks \ {r} : (OnSocket(r)' /\ OnSocket(q)) => uses'[r] # uses[q]
    BY <1>0, <1>a DEF Free, CodexTypes, RequestTypes
<1> QED BY <1>1, <1>2, <1>3, <1>4, <1>5, <1>6, OneMoves

LEMMA ConnectFailsSafe ==
    ASSUME CodexCore, NEW r \in Asks, ConnectFails(r), ~crossed'
    PROVE  CodexCore'
<1>0. /\ CodexTypes /\ OwnSocket(r) /\ OwnFrames(r) /\ EntryKept /\ went[r] \in Memories
      /\ \A q \in Asks : OwnSocket(q)
    BY DEF CodexCore, CodexTypes, RequestTypes
<1> USE CodexAssumption DEF CodexTurns, Settled
<1>1. CodexTypes'
    BY <1>0, EntryShape DEF ConnectFails, Turns, Failing, Happens, CodexTypes, RequestTypes, Memories, Entries, Connections, CodexReplies
<1>2. OthersStay(r)
    BY <1>0, EntryShape DEF ConnectFails, Turns, Failing, Happens, OthersStay, AnswersStay, OnSocket, OwnSocket, CodexTypes, RequestTypes, Memories, Heard
<1>3. EntryKept'
    BY <1>0, <1>1, <1>2, EntryStays, EntryShape DEF ConnectFails, Turns, Failing, Happens, OthersStay, EntryKept, CodexTypes
<1>4. OwnSocket(r)'
    BY <1>0, EntryShape DEF ConnectFails, Turns, Failing, Happens, OwnSocket, OnSocket, CodexTypes, RequestTypes, Memories, Connections, Entries
<1>5. OwnFrames(r)'
    BY <1>0, <1>2, HeardStays, EntryShape DEF ConnectFails, Turns, Failing, Happens, OwnFrames, OnSocket, OthersStay, CodexTypes, RequestTypes, Connections
<1>6. \A q \in Asks \ {r} : (OnSocket(r)' /\ OnSocket(q)) => uses'[r] # uses[q]
    BY <1>0 DEF ConnectFails, Turns, Failing, Happens, OnSocket, OwnSocket, CodexCore, Alone, CodexTypes, RequestTypes
<1> QED BY <1>1, <1>2, <1>3, <1>4, <1>5, <1>6, OneMoves

LEMMA SendFrameSafe ==
    ASSUME CodexCore, NEW r \in Asks, SendFrame(r), ~crossed'
    PROVE  CodexCore'
<1>0. /\ CodexTypes /\ OwnSocket(r) /\ OwnFrames(r) /\ EntryKept /\ went[r] \in Memories
      /\ \A q \in Asks : OwnSocket(q)
    BY DEF CodexCore, CodexTypes, RequestTypes
<1> USE CodexAssumption DEF CodexTurns, Settled
<1>a. /\ turn[r] = "send" /\ turn' = [turn EXCEPT ![r] = "wait"]
      /\ UNCHANGED <<asked, uses, went, got, heard>>
    BY DEF SendFrame, Turns
<1>b. uses[r] \in Sockets /\ sockets[uses[r]] \in Connections /\ sockets[uses[r]].frames = <<>>
    BY <1>0, <1>a DEF OwnSocket, OwnFrames, OnSocket, CodexTypes
<1>c. PICK f \in Frames : Stands(f, r) /\ sockets' = [sockets EXCEPT ![uses[r]].frames = Append(@, f)]
  <2> DEFINE reply == IF went[r].cached /\ entry # NoEntry THEN entry.reply ELSE NoReply
             n     == Len(Baseline(reply))
             long  == [of |-> r, base |-> NoAsk, input |-> asked[r]]
             short == [of |-> r, base |-> reply.id, input |-> SubSeq(asked[r], n + 1, Len(asked[r]))]
  <2>1. sockets' = [sockets EXCEPT ![uses[r]].frames = Append(@, IF Continues(r, reply) THEN short ELSE long)]
      BY DEF SendFrame
  <2>2. asked[r] \in Seq(Texts)
      BY <1>0 DEF CodexTypes, RequestTypes
  <2>3. CASE ~Continues(r, reply)
    <3>1. long \in Frames /\ Stands(long, r)
        BY <2>2 DEF Frames, Stands
    <3> QED BY <2>1, <2>3, <3>1
  <2>4. CASE Continues(r, reply)
    <3>1. reply # NoReply /\ n <= Len(asked[r]) /\ SubSeq(asked[r], 1, n) = Baseline(reply)
        BY <2>4 DEF Continues
    <3>2. entry # NoEntry /\ reply = entry.reply
        BY <3>1
    <3>3. reply.id \in Asks /\ reply.id # NoAsk /\ Heard(reply.id) /\ reply.asked = asked[reply.id]
        BY <1>0, <3>1, <3>2, EntryShape DEF EntryKept, Entries, CodexReplies
    <3>4. Baseline(reply) = Append(asked[reply.id], Answers(reply.id)) /\ n \in Nat
      <4>1. asked[reply.id] \in Seq(Texts) /\ Answers(reply.id) \in Texts
          BY <1>0, <3>3 DEF CodexTypes, RequestTypes, Texts
      <4> HIDE DEF reply
      <4> QED BY <3>3, <4>1 DEF Baseline
    <3> HIDE DEF reply, n
    <3>5. /\ SubSeq(asked[r], 1, n) \o SubSeq(asked[r], n + 1, Len(asked[r])) = asked[r]
          /\ SubSeq(asked[r], n + 1, Len(asked[r])) \in Seq(Texts)
      <4>1. n \in 1 - 1 .. Len(asked[r]) /\ Len(asked[r]) \in n .. Len(asked[r]) /\ 1 \in 1 .. Len(asked[r]) + 1
          BY <2>2, <3>1, <3>4
      <4>2. SubSeq(asked[r], 1, n) \o SubSeq(asked[r], n + 1, Len(asked[r])) = SubSeq(asked[r], 1, Len(asked[r]))
          BY <2>2, <4>1, ConcatAdjacentSubSeq
      <4>3. SubSeq(asked[r], 1, Len(asked[r])) = asked[r]
          BY <2>2, SubSeqFull
      <4>4. \A i \in n + 1 .. Len(asked[r]) : asked[r][i] \in Texts
          BY <2>2, <3>4
      <4>5. SubSeq(asked[r], n + 1, Len(asked[r])) \in Seq(Texts)
          BY <2>2, <3>4, <4>4, SubSeqProperties
      <4> QED BY <4>2, <4>3, <4>5
    <3>6. short \in Frames /\ Stands(short, r)
        BY <3>1, <3>3, <3>4, <3>5 DEF Frames, Stands
    <3> QED BY <2>1, <2>4, <3>6
  <2> QED BY <2>3, <2>4
<1>d. \/ entry' = entry
      \/ entry # NoEntry /\ entry' = [entry EXCEPT !.reply = NoReply]
    BY DEF SendFrame
<1>e. NoReply \in CodexReplies
    BY DEF NoReply, CodexReplies
<1>f. sockets'[uses[r]].frames = <<f>> /\ sockets'[uses[r]].open = sockets[uses[r]].open
    BY <1>0, <1>b, <1>c DEF CodexTypes, Connections
<1>g. \A x \in Sockets : x # uses[r] => sockets'[x] = sockets[x]
    BY <1>0, <1>c DEF CodexTypes
<1>h. entry'.socket = entry.socket /\ entry'.busy = entry.busy
    BY <1>d, EntryShape, <1>0 DEF Entries
<1>1. CodexTypes'
  <2>1. entry' \in Entries \cup {NoEntry}
      BY <1>0, <1>d, <1>e, EntryShape DEF Entries, CodexTypes
  <2>2. sockets' \in [Sockets -> Connections]
    <3>1. Append(sockets[uses[r]].frames, f) \in Seq(Frames)
        BY <1>b, <1>c DEF Connections
    <3> QED BY <1>0, <1>b, <1>c, <3>1 DEF CodexTypes, Connections
  <2> QED BY <1>0, <1>a, <2>1, <2>2 DEF CodexTypes, RequestTypes
<1>2. OthersStay(r)
  <2>1. ASSUME NEW q \in Asks \ {r}, OnSocket(q)
        PROVE  uses[q] \in Sockets /\ uses[q] # uses[r]
      BY <1>0, <1>a, <2>1 DEF OwnSocket, CodexCore, Alone, OnSocket
  <2>2. AnswersStay
      BY <1>0, <1>a DEF AnswersStay, Heard, CodexTypes, RequestTypes
  <2>3. \A q \in Asks \ {r} : OnSocket(q) /\ entry.socket = uses[q] => entry.busy
      BY <1>0 DEF OwnSocket
  <2> QED BY <1>0, <1>a, <1>g, <1>h, <2>1, <2>2, <2>3 DEF OthersStay, CodexTypes, RequestTypes
<1>3. EntryKept'
  <2>1. entry'.reply \in {entry.reply, NoReply}
      BY <1>0, <1>d, EntryShape DEF Entries
  <2>2. entry # NoEntry /\ ~entry'.busy => sockets'[entry.socket].frames = <<>>
      BY <1>0, <1>a, <1>g, <1>h, EntryShape DEF OwnSocket, OnSocket, EntryKept
  <2> QED BY <1>0, <1>1, <1>2, <1>d, <1>h, <2>1, <2>2, EntryStays DEF OthersStay
<1>4. OwnSocket(r)'
    BY <1>0, <1>a, <1>b, <1>f, <1>h DEF OwnSocket, OnSocket, CodexTypes, RequestTypes
<1>5. OwnFrames(r)'
  <2>1. Stands(f, r)'
      BY <1>2, <1>a, <1>c, StandsStays DEF OthersStay
  <2>2. Len(sockets'[uses'[r]].frames) = 1 /\ sockets'[uses'[r]].frames[1] = f
      BY <1>a, <1>f
  <2>3. Stands(sockets[uses[r]].frames[1], r)'
      BY <2>1, <2>2 DEF Stands, Heard
  <2>4. got[r] # NoAsk => got[r] = r /\ Heard(r)'
      BY <1>0, <1>2, HeardStays DEF OwnFrames, OthersStay
  <2>5. turn'[r] = "wait" /\ got'[r] = got[r]
      BY <1>0, <1>a DEF CodexTypes, RequestTypes
  <2> QED BY <2>2, <2>3, <2>4, <2>5 DEF OwnFrames
<1>6. \A q \in Asks \ {r} : (OnSocket(r)' /\ OnSocket(q)) => uses'[r] # uses[q]
    BY <1>0 DEF SendFrame, Turns, OnSocket, OwnSocket, CodexCore, Alone, CodexTypes, RequestTypes
<1> QED BY <1>1, <1>2, <1>3, <1>4, <1>5, <1>6, OneMoves

LEMMA CompletedSafe ==
    ASSUME CodexCore, NEW r \in Asks, Completed(r), ~crossed'
    PROVE  CodexCore'
<1>0. /\ CodexTypes /\ OwnSocket(r) /\ OwnFrames(r) /\ EntryKept /\ went[r] \in Memories
      /\ \A q \in Asks : OwnSocket(q)
    BY DEF CodexCore, CodexTypes, RequestTypes
<1> USE CodexAssumption DEF CodexTurns, Settled
<1>a. /\ turn[r] = "wait" /\ turn' = [turn EXCEPT ![r] = "save"]
      /\ UNCHANGED <<asked, uses, went, entry>>
    BY DEF Completed, Hears
<1>b. /\ uses[r] \in Sockets /\ sockets[uses[r]] \in Connections
      /\ Len(sockets[uses[r]].frames) = 1 /\ sockets[uses[r]].frames \in Seq(Frames)
    BY <1>0, <1>a DEF OwnSocket, OwnFrames, OnSocket, CodexTypes, Connections
<1>c. Tail(sockets[uses[r]].frames) = <<>>
    BY <1>b, OnlyOne
<1> DEFINE f == sockets[uses[r]].frames[1]
           base == IF f.base = NoAsk THEN <<>> ELSE Append(heard[f.base], Answers(f.base))
<1>d. f = Frame(r) /\ f.of = r /\ base \o f.input = asked[r]
  <2>1. f = Frame(r) /\ f \in Frames
      BY <1>b, OnlyOne DEF Frame
  <2>2. Stands(f, r)
      BY <1>0, <1>a DEF OwnFrames
  <2>3. CASE f.base = NoAsk
    <3>1. <<>> \o f.input = f.input
        BY <2>1 DEF Frames
    <3> QED BY <2>1, <2>2, <2>3, <3>1 DEF Stands
  <2>4. CASE f.base # NoAsk
    <3>1. heard[f.base] = asked[f.base]
        BY <2>2, <2>4 DEF Stands, Heard
    <3> QED BY <2>1, <2>2, <2>4, <3>1 DEF Stands
  <2> QED BY <2>3, <2>4
<1>e. /\ heard' = [heard EXCEPT ![r] = asked[r]] /\ got' = [got EXCEPT ![r] = r]
      /\ sockets' = [sockets EXCEPT ![uses[r]].frames = Tail(@), ![uses[r]].known = @ \cup {r}]
  <2>1. f.of = r /\ f = Frame(r) /\ base \o f.input = asked[r]
      BY <1>d
  <2>2. /\ heard' = [heard EXCEPT ![Frame(r).of] =
                        (IF Frame(r).base = NoAsk THEN <<>> ELSE Append(heard[Frame(r).base], Answers(Frame(r).base)))
                            \o Frame(r).input]
        /\ got' = [got EXCEPT ![r] = Frame(r).of]
        /\ sockets' = [sockets EXCEPT ![uses[r]].frames = Tail(@), ![uses[r]].known = @ \cup {Frame(r).of}]
      BY DEF Completed
  <2> QED BY <2>1, <2>2
<1> HIDE DEF f, base
<1>f. /\ sockets'[uses[r]].frames = <<>> /\ sockets'[uses[r]].open = sockets[uses[r]].open
      /\ sockets' \in [Sockets -> Connections]
  <2>1. DOMAIN sockets = Sockets
      BY <1>0 DEF CodexTypes
  <2>2. sockets'[uses[r]] = [sockets[uses[r]] EXCEPT !.frames = <<>>, !.known = @ \cup {r}]
      BY <1>b, <1>c, <1>e, <2>1
  <2>3. sockets'[uses[r]] \in Connections
    <3>1. <<>> \in Seq(Frames)
        OBVIOUS
    <3>2. sockets[uses[r]].known \cup {r} \in SUBSET Asks
        BY <1>b DEF Connections
    <3> QED BY <1>b, <2>2, <3>1, <3>2 DEF Connections
  <2> QED BY <1>0, <1>b, <1>e, <2>1, <2>2, <2>3 DEF CodexTypes, Connections
<1>g. \A x \in Sockets : x # uses[r] => sockets'[x] = sockets[x]
    BY <1>0, <1>e DEF CodexTypes
<1>1. CodexTypes'
    BY <1>0, <1>a, <1>e, <1>f DEF CodexTypes, RequestTypes
<1>2. OthersStay(r)
  <2>1. ASSUME NEW q \in Asks \ {r}, OnSocket(q)
        PROVE  uses[q] \in Sockets /\ uses[q] # uses[r]
      BY <1>0, <1>a, <2>1 DEF OwnSocket, CodexCore, Alone, OnSocket
  <2>2. AnswersStay
      BY <1>0, <1>a, <1>e DEF AnswersStay, Heard, CodexTypes, RequestTypes
  <2>3. \A q \in Asks \ {r} : OnSocket(q) /\ entry.socket = uses[q] => entry.busy
      BY <1>0 DEF OwnSocket
  <2> QED BY <1>0, <1>a, <1>e, <1>g, <2>1, <2>2, <2>3 DEF OthersStay, CodexTypes, RequestTypes
<1>3. EntryKept'
  <2>2. entry # NoEntry /\ ~entry.busy => sockets'[entry.socket].frames = <<>>
      BY <1>0, <1>a, <1>g, EntryShape DEF OwnSocket, OnSocket, EntryKept
  <2> QED BY <1>0, <1>1, <1>2, <1>a, <2>2, EntryStays DEF OthersStay
<1>4. OwnSocket(r)'
    BY <1>0, <1>a, <1>b, <1>f DEF OwnSocket, OnSocket, CodexTypes, RequestTypes
<1>5. OwnFrames(r)'
    BY <1>0, <1>a, <1>b, <1>e, <1>f DEF OwnFrames, Heard, CodexTypes, RequestTypes
<1>6. \A q \in Asks \ {r} : (OnSocket(r)' /\ OnSocket(q)) => uses'[r] # uses[q]
    BY <1>0 DEF Completed, Hears, Recalls, Frame, OnSocket, OwnSocket, CodexCore, Alone, CodexTypes, RequestTypes
<1> QED BY <1>1, <1>2, <1>3, <1>4, <1>5, <1>6, OneMoves

LEMMA ServerRefusesSafe ==
    ASSUME CodexCore, NEW r \in Asks, ServerRefuses(r), ~crossed'
    PROVE  CodexCore'
<1>0. /\ CodexTypes /\ OwnSocket(r) /\ OwnFrames(r) /\ EntryKept /\ went[r] \in Memories
      /\ \A q \in Asks : OwnSocket(q)
    BY DEF CodexCore, CodexTypes, RequestTypes
<1> USE CodexAssumption DEF CodexTurns, Settled
<1>a. /\ turn[r] = "wait" /\ turn' = [turn EXCEPT ![r] = "clear"]
      /\ UNCHANGED <<asked, uses, got, heard, entry>>
    BY DEF ServerRefuses, Hears
<1>b. /\ uses[r] \in Sockets /\ sockets[uses[r]] \in Connections
      /\ Len(sockets[uses[r]].frames) = 1 /\ sockets[uses[r]].frames \in Seq(Frames)
    BY <1>0, <1>a DEF OwnSocket, OwnFrames, OnSocket, CodexTypes, Connections
<1>c. Tail(sockets[uses[r]].frames) = <<>>
    BY <1>b, OnlyOne
<1>d. went' \in [Asks -> Memories] /\ \A q \in Asks : went'[q].cached = went[q].cached
  <2>1. PICK why \in {"previous_response_not_found", "connection_limit", "api"}, b \in BOOLEAN :
            went' = [went EXCEPT ![r].why = why, ![r].started = b]
      BY DEF ServerRefuses, Failing
  <2>2. [went[r] EXCEPT !.why = why, !.started = b] \in Memories
      BY <1>0 DEF Memories
  <2>3. went' = [went EXCEPT ![r] = [went[r] EXCEPT !.why = why, !.started = b]]
      BY <2>1
  <2>4. [went[r] EXCEPT !.why = why, !.started = b].cached = went[r].cached
      BY <1>0 DEF Memories
  <2> QED BY <1>0, <2>2, <2>3, <2>4, Remembers
<1>e. sockets' = [sockets EXCEPT ![uses[r]].frames = Tail(@)]
    BY DEF ServerRefuses
<1>f. /\ sockets'[uses[r]].frames = <<>> /\ sockets'[uses[r]].open = sockets[uses[r]].open
      /\ sockets' \in [Sockets -> Connections]
  <2>1. DOMAIN sockets = Sockets
      BY <1>0 DEF CodexTypes
  <2>2. sockets'[uses[r]] = [sockets[uses[r]] EXCEPT !.frames = <<>>]
      BY <1>b, <1>c, <1>e, <2>1
  <2>3. sockets'[uses[r]] \in Connections
    <3>1. <<>> \in Seq(Frames)
        OBVIOUS
    <3>2. sockets[uses[r]].known \cup {r} \in SUBSET Asks
        BY <1>b DEF Connections
    <3> QED BY <1>b, <2>2, <3>1, <3>2 DEF Connections
  <2> QED BY <1>0, <1>b, <1>e, <2>1, <2>2, <2>3 DEF CodexTypes, Connections
<1>g. \A x \in Sockets : x # uses[r] => sockets'[x] = sockets[x]
    BY <1>0, <1>e DEF CodexTypes
<1>1. CodexTypes'
    BY <1>0, <1>a, <1>d, <1>f DEF CodexTypes, RequestTypes
<1>2. OthersStay(r)
  <2>1. ASSUME NEW q \in Asks \ {r}, OnSocket(q)
        PROVE  uses[q] \in Sockets /\ uses[q] # uses[r]
      BY <1>0, <1>a, <2>1 DEF OwnSocket, CodexCore, Alone, OnSocket
  <2>2. AnswersStay
      BY <1>0, <1>a DEF AnswersStay, Heard, CodexTypes, RequestTypes
  <2>3. \A q \in Asks \ {r} : OnSocket(q) /\ entry.socket = uses[q] => entry.busy
      BY <1>0 DEF OwnSocket
  <2> QED BY <1>0, <1>a, <1>d, <1>g, <2>1, <2>2, <2>3 DEF OthersStay, CodexTypes, RequestTypes
<1>3. EntryKept'
  <2>2. entry # NoEntry /\ ~entry.busy => sockets'[entry.socket].frames = <<>>
      BY <1>0, <1>a, <1>g, EntryShape DEF OwnSocket, OnSocket, EntryKept
  <2> QED BY <1>0, <1>1, <1>2, <1>a, <2>2, EntryStays DEF OthersStay
<1>4. OwnSocket(r)'
    BY <1>0, <1>a, <1>b, <1>d DEF OwnSocket, OnSocket, CodexTypes, RequestTypes
<1>5. OwnFrames(r)'
  <2>1. got[r] # NoAsk => got[r] = r /\ Heard(r)'
      BY <1>0, <1>2, HeardStays DEF OwnFrames, OthersStay
  <2> QED BY <1>0, <1>a, <2>1 DEF OwnFrames, CodexTypes, RequestTypes
<1>6. \A q \in Asks \ {r} : (OnSocket(r)' /\ OnSocket(q)) => uses'[r] # uses[q]
    BY <1>0 DEF ServerRefuses, Hears, Recalls, Frame, Failing, Happens, OnSocket, OwnSocket, CodexCore, Alone, CodexTypes, RequestTypes
<1> QED BY <1>1, <1>2, <1>3, <1>4, <1>5, <1>6, OneMoves

LEMMA InterruptedSafe ==
    ASSUME CodexCore, NEW r \in Asks, Interrupted(r), ~crossed'
    PROVE  CodexCore'
<1>0. /\ CodexTypes /\ OwnSocket(r) /\ OwnFrames(r) /\ EntryKept /\ went[r] \in Memories
      /\ \A q \in Asks : OwnSocket(q)
    BY DEF CodexCore, CodexTypes, RequestTypes
<1> USE CodexAssumption DEF CodexTurns, Settled
<1>a. /\ turn[r] = "wait" /\ turn' = [turn EXCEPT ![r] = "clear"]
      /\ UNCHANGED <<asked, uses, got, heard, entry>>
    BY DEF Interrupted, Turns
<1>b. uses[r] \in Sockets
    BY <1>0, <1>a DEF OwnSocket, OnSocket
<1>d. went' \in [Asks -> Memories] /\ \A q \in Asks : went'[q].cached = went[q].cached
  <2>1. PICK b \in BOOLEAN :
            went' = [went EXCEPT ![r].why = "transport", ![r].started = b]
      BY DEF Interrupted, Failing
  <2>2. [went[r] EXCEPT !.why = "transport", !.started = b] \in Memories
      BY <1>0 DEF Memories
  <2>3. went' = [went EXCEPT ![r] = [went[r] EXCEPT !.why = "transport", !.started = b]]
      BY <2>1
  <2>4. [went[r] EXCEPT !.why = "transport", !.started = b].cached = went[r].cached
      BY <1>0 DEF Memories
  <2> QED BY <1>0, <2>2, <2>3, <2>4, Remembers
<1>e. UNCHANGED sockets \/ sockets' = Shut(sockets, uses[r])
    BY DEF Interrupted
<1>f. sockets' \in [Sockets -> Connections]
    BY <1>0, <1>b, <1>e, Closing DEF CodexTypes
<1>g. \A x \in Sockets : x # uses[r] => sockets'[x] = sockets[x]
    BY <1>0, <1>b, <1>e, Closing
<1>1. CodexTypes'
    BY <1>0, <1>a, <1>d, <1>f DEF CodexTypes, RequestTypes
<1>2. OthersStay(r)
  <2>1. ASSUME NEW q \in Asks \ {r}, OnSocket(q)
        PROVE  uses[q] \in Sockets /\ uses[q] # uses[r]
      BY <1>0, <1>a, <2>1 DEF OwnSocket, CodexCore, Alone, OnSocket
  <2>2. AnswersStay
      BY <1>0, <1>a DEF AnswersStay, Heard, CodexTypes, RequestTypes
  <2>3. \A q \in Asks \ {r} : OnSocket(q) /\ entry.socket = uses[q] => entry.busy
      BY <1>0 DEF OwnSocket
  <2> QED BY <1>0, <1>a, <1>d, <1>g, <2>1, <2>2, <2>3 DEF OthersStay, CodexTypes, RequestTypes
<1>3. EntryKept'
  <2>2. entry # NoEntry /\ ~entry.busy => sockets'[entry.socket].frames = <<>>
      BY <1>0, <1>a, <1>g, EntryShape DEF OwnSocket, OnSocket, EntryKept
  <2> QED BY <1>0, <1>1, <1>2, <1>a, <2>2, EntryStays DEF OthersStay
<1>4. OwnSocket(r)'
    BY <1>0, <1>a, <1>b, <1>d DEF OwnSocket, OnSocket, CodexTypes, RequestTypes
<1>5. OwnFrames(r)'
  <2>1. got[r] # NoAsk => got[r] = r /\ Heard(r)'
      BY <1>0, <1>2, HeardStays DEF OwnFrames, OthersStay
  <2> QED BY <1>0, <1>a, <2>1 DEF OwnFrames, CodexTypes, RequestTypes
<1>6. \A q \in Asks \ {r} : (OnSocket(r)' /\ OnSocket(q)) => uses'[r] # uses[q]
    BY <1>0 DEF Interrupted, Turns, Failing, Happens, Shut, NotOpen, OnSocket, OwnSocket, CodexCore, Alone, CodexTypes, RequestTypes
<1> QED BY <1>1, <1>2, <1>3, <1>4, <1>5, <1>6, OneMoves

LEMMA SaveContinuationSafe ==
    ASSUME CodexCore, NEW r \in Asks, SaveContinuation(r), ~crossed'
    PROVE  CodexCore'
<1>0. /\ CodexTypes /\ OwnSocket(r) /\ OwnFrames(r) /\ EntryKept /\ went[r] \in Memories
      /\ \A q \in Asks : OwnSocket(q)
    BY DEF CodexCore, CodexTypes, RequestTypes
<1> USE CodexAssumption DEF CodexTurns, Settled
<1>1. CodexTypes'
    BY <1>0, EntryShape DEF SaveContinuation, Turns, requestVars, CodexTypes, RequestTypes, Memories, Entries, Connections, CodexReplies
<1>2. OthersStay(r)
    BY <1>0, EntryShape DEF SaveContinuation, Turns, requestVars, OthersStay, AnswersStay, OnSocket, OwnSocket, CodexTypes, RequestTypes, Memories, Heard
<1>3. EntryKept'
  <2>1. CASE UNCHANGED entry
      BY <2>1, <1>0, <1>1, <1>2, EntryStays DEF SaveContinuation, OthersStay, EntryKept
  <2>2. CASE entry # NoEntry /\ entry' = [entry EXCEPT !.reply = [asked |-> asked[r], id |-> got[r]]]
    <3>1. entry \in Entries /\ turn[r] = "save" /\ UNCHANGED sockets
        BY <1>0, <2>2, EntryShape DEF SaveContinuation, Turns
    <3>2. /\ entry'.socket = entry.socket /\ entry'.busy = entry.busy
          /\ entry'.reply = [asked |-> asked[r], id |-> got[r]]
        BY <2>2, <3>1 DEF Entries
    <3>3. got[r] = r /\ Heard(r) /\ r # NoAsk
        BY <1>0, <3>1 DEF OwnFrames, NoAsk
    <3>4. turn'[r] # "new" /\ heard'[r] = asked'[r] /\ asked'[r] = asked[r]
        BY <1>2, <3>3 DEF OthersStay, AnswersStay, Heard
    <3>5. entry'.reply.id = r /\ entry'.reply.asked = asked'[r]
        BY <3>2, <3>3, <3>4
    <3>6. ~entry.busy => sockets[entry.socket].frames = <<>>
        BY <1>0, <2>2 DEF EntryKept
    <3> QED BY <3>1, <3>2, <3>3, <3>4, <3>5, <3>6 DEF EntryKept, Heard
  <2> QED BY <2>1, <2>2 DEF SaveContinuation
<1>4. OwnSocket(r)'
    BY <1>0, EntryShape DEF SaveContinuation, Turns, requestVars, OwnSocket, OnSocket, CodexTypes, RequestTypes, Memories, Connections, Entries
<1>5. OwnFrames(r)'
    BY <1>0, <1>2, HeardStays, EntryShape DEF SaveContinuation, Turns, requestVars, OwnFrames, OnSocket, OthersStay, CodexTypes, RequestTypes, Connections
<1>6. \A q \in Asks \ {r} : (OnSocket(r)' /\ OnSocket(q)) => uses'[r] # uses[q]
    BY <1>0 DEF SaveContinuation, Turns, requestVars, OnSocket, OwnSocket, CodexCore, Alone, CodexTypes, RequestTypes
<1> QED BY <1>1, <1>2, <1>3, <1>4, <1>5, <1>6, OneMoves

LEMMA ReleaseSocketSafe ==
    ASSUME CodexCore, NEW r \in Asks, ReleaseSocket(r), ~crossed'
    PROVE  CodexCore'
<1>0. /\ CodexTypes /\ OwnSocket(r) /\ OwnFrames(r) /\ EntryKept /\ went[r] \in Memories
      /\ \A q \in Asks : OwnSocket(q)
    BY DEF CodexCore, CodexTypes, RequestTypes
<1> USE CodexAssumption DEF CodexTurns, Settled
<1> DEFINE mine == went[r].cached /\ entry.socket = uses[r]
           keep == went[r].cached /\ sockets[uses[r]].open
<1>a. turn[r] = "release" /\ UNCHANGED <<asked, got, heard>>
    BY DEF ReleaseSocket
<1>b. uses[r] \in Sockets /\ sockets[uses[r]].frames = <<>>
    BY <1>0, <1>a DEF OwnSocket, OwnFrames, OnSocket
<1>c. /\ turn' = [turn EXCEPT ![r] = turn'[r]] /\ turn'[r] \in {"schedule", "failed", "answered"}
      /\ went' \in [Asks -> Memories] /\ uses' \in [Asks -> Sockets \cup {NoSocket}]
      /\ \A q \in Asks \ {r} : went'[q] = went[q] /\ uses'[q] = uses[q]
  <2>1. Fresh \in Memories
      BY DEF Fresh, Memories
  <2>2. /\ \E t \in {"schedule", "failed", "answered"} : turn' = [turn EXCEPT ![r] = t]
        /\ UNCHANGED <<went, uses>> \/ (went' = [went EXCEPT ![r] = Fresh] /\ uses' = [uses EXCEPT ![r] = NoSocket])
      BY DEF ReleaseSocket, Turns, Returns, Outcome
  <2> QED BY <1>0, <2>1, <2>2 DEF CodexTypes, RequestTypes
<1>d. \/ mine /\ entry' = [entry EXCEPT !.busy = FALSE, !.timer = NoAsk] /\ UNCHANGED sockets
      \/ UNCHANGED <<entry, sockets>>
      \/ sockets' = Shut(sockets, uses[r]) /\ entry' = (IF mine THEN NoEntry ELSE entry)
    BY DEF ReleaseSocket
<1>e. sockets' \in [Sockets -> Connections]
    BY <1>0, <1>b, <1>d, Closing DEF CodexTypes
<1>f. (\A x \in Sockets : x # uses[r] => sockets'[x] = sockets[x]) /\ sockets'[uses[r]].frames = <<>>
    BY <1>0, <1>b, <1>d, Closing
<1>g. /\ entry' \in Entries \cup {NoEntry}
      /\ entry' # NoEntry =>
            /\ entry # NoEntry /\ entry'.socket = entry.socket /\ entry'.reply = entry.reply
            /\ entry'.busy = entry.busy \/ entry.socket = uses[r]
  <2>1. CASE mine /\ entry' = [entry EXCEPT !.busy = FALSE, !.timer = NoAsk]
    <3>1. entry \in Entries
        BY <1>0, <1>b, <2>1, EntryShape, CodexAssumption
    <3> QED BY <2>1, <3>1, <1>0, EntryShape DEF Entries
  <2>2. CASE entry' \in {entry, NoEntry}
      BY <1>0, <2>2, EntryShape
  <2> QED BY <1>d, <2>1, <2>2
<1> HIDE DEF mine, keep
<1>1. CodexTypes'
    BY <1>0, <1>a, <1>c, <1>e, <1>g DEF CodexTypes, RequestTypes
<1>2. OthersStay(r)
  <2>1. ASSUME NEW q \in Asks \ {r}, OnSocket(q)
        PROVE  uses[q] \in Sockets /\ uses[q] # uses[r]
      BY <1>0, <1>a, <2>1 DEF OwnSocket, CodexCore, Alone, OnSocket
  <2>2. AnswersStay
      BY <1>0, <1>a, <1>c DEF AnswersStay, Heard, CodexTypes, RequestTypes
  <2>3. \A q \in Asks \ {r} : OnSocket(q) /\ entry.socket = uses[q] => entry.busy
      BY <1>0 DEF OwnSocket
  <2>4. ASSUME NEW q \in Asks \ {r}, OnSocket(q), entry'.socket = uses[q]
        PROVE  entry.socket = uses[q] /\ entry'.busy
    <3>1. entry' # NoEntry /\ uses[q] # uses[r]
        BY <2>1, <2>4, CodexAssumption DEF NoEntry
    <3> QED BY <1>g, <2>3, <2>4, <3>1
  <2> QED BY <1>0, <1>a, <1>c, <1>f, <2>1, <2>2, <2>4 DEF OthersStay, CodexTypes, RequestTypes
<1>3. EntryKept'
  <2>1. entry' # NoEntry /\ ~entry'.busy => sockets'[entry.socket].frames = <<>>
      BY <1>0, <1>f, <1>g, EntryShape DEF EntryKept
  <2> QED BY <1>0, <1>1, <1>2, <1>g, <2>1, EntryStays DEF OthersStay
<1>4. OwnSocket(r)'
    BY <1>0, <1>c DEF OwnSocket, OnSocket
<1>5. OwnFrames(r)'
  <2>1. got[r] # NoAsk => got[r] = r /\ Heard(r)'
      BY <1>0, <1>2, HeardStays DEF OwnFrames, OthersStay
  <2> QED BY <1>0, <1>a, <1>c, <2>1 DEF OwnFrames
<1>6. \A q \in Asks \ {r} : (OnSocket(r)' /\ OnSocket(q)) => uses'[r] # uses[q]
    BY <1>c DEF OnSocket
<1> QED BY <1>1, <1>2, <1>3, <1>4, <1>5, <1>6, OneMoves

LEMMA ScheduleSafe ==
    ASSUME CodexCore, NEW r \in Asks, Schedule(r), ~crossed'
    PROVE  CodexCore'
<1>0. /\ CodexTypes /\ OwnSocket(r) /\ OwnFrames(r) /\ EntryKept /\ went[r] \in Memories
      /\ \A q \in Asks : OwnSocket(q)
    BY DEF CodexCore, CodexTypes, RequestTypes
<1> USE CodexAssumption DEF CodexTurns, Settled
<1>1. CodexTypes'
    BY <1>0, EntryShape DEF Schedule, Returns, Outcome, Fresh, CodexTypes, RequestTypes, Memories, Entries, Connections, CodexReplies
<1>2. OthersStay(r)
    BY <1>0, EntryShape DEF Schedule, Returns, Outcome, Fresh, OthersStay, AnswersStay, OnSocket, OwnSocket, CodexTypes, RequestTypes, Memories, Heard
<1>3. EntryKept'
    BY <1>0, <1>1, <1>2, EntryStays, EntryShape DEF Schedule, Returns, Outcome, Fresh, OthersStay, EntryKept, CodexTypes
<1>4. OwnSocket(r)'
    BY <1>0, EntryShape DEF Schedule, Returns, Outcome, Fresh, OwnSocket, OnSocket, CodexTypes, RequestTypes, Memories, Connections, Entries
<1>5. OwnFrames(r)'
    BY <1>0, <1>2, HeardStays, EntryShape DEF Schedule, Returns, Outcome, Fresh, OwnFrames, OnSocket, OthersStay, CodexTypes, RequestTypes, Connections
<1>6. \A q \in Asks \ {r} : (OnSocket(r)' /\ OnSocket(q)) => uses'[r] # uses[q]
    BY <1>0 DEF Schedule, Returns, Outcome, Fresh, OnSocket, OwnSocket, CodexCore, Alone, CodexTypes, RequestTypes
<1> QED BY <1>1, <1>2, <1>3, <1>4, <1>5, <1>6, OneMoves

LEMMA ClearContinuationSafe ==
    ASSUME CodexCore, NEW r \in Asks, ClearContinuation(r), ~crossed'
    PROVE  CodexCore'
<1>0. /\ CodexTypes /\ OwnSocket(r) /\ OwnFrames(r) /\ EntryKept /\ went[r] \in Memories
      /\ \A q \in Asks : OwnSocket(q)
    BY DEF CodexCore, CodexTypes, RequestTypes
<1> USE CodexAssumption DEF CodexTurns, Settled
<1>1. CodexTypes'
  <2>1. NoReply \in CodexReplies
      BY DEF NoReply, CodexReplies
  <2>2. entry' \in Entries \cup {NoEntry}
      BY <1>0, <2>1, EntryShape DEF ClearContinuation, CodexTypes, Entries
  <2> QED BY <1>0, <2>2 DEF ClearContinuation, Turns, requestVars, CodexTypes, RequestTypes
<1>2. OthersStay(r)
    BY <1>0, EntryShape DEF ClearContinuation, Turns, requestVars, OthersStay, AnswersStay, OnSocket, OwnSocket, CodexTypes, RequestTypes, Memories, Heard
<1>3. EntryKept'
    BY <1>0, <1>1, <1>2, EntryStays, EntryShape DEF ClearContinuation, Turns, requestVars, OthersStay, EntryKept, CodexTypes
<1>4. OwnSocket(r)'
    BY <1>0, EntryShape DEF ClearContinuation, Turns, requestVars, OwnSocket, OnSocket, CodexTypes, RequestTypes, Memories, Connections, Entries
<1>5. OwnFrames(r)'
    BY <1>0, <1>2, HeardStays, EntryShape DEF ClearContinuation, Turns, requestVars, OwnFrames, OnSocket, OthersStay, CodexTypes, RequestTypes, Connections
<1>6. \A q \in Asks \ {r} : (OnSocket(r)' /\ OnSocket(q)) => uses'[r] # uses[q]
    BY <1>0 DEF ClearContinuation, Turns, requestVars, OnSocket, OwnSocket, CodexCore, Alone, CodexTypes, RequestTypes
<1> QED BY <1>1, <1>2, <1>3, <1>4, <1>5, <1>6, OneMoves

LEMMA DiscardSafe ==
    ASSUME CodexCore, NEW r \in Asks, Discard(r), ~crossed'
    PROVE  CodexCore'
<1>0. /\ CodexTypes /\ OwnSocket(r) /\ OwnFrames(r) /\ EntryKept /\ went[r] \in Memories
      /\ \A q \in Asks : OwnSocket(q)
    BY DEF CodexCore, CodexTypes, RequestTypes
<1> USE CodexAssumption DEF CodexTurns, Settled
<1>a. /\ turn[r] = "discard" /\ turn' = [turn EXCEPT ![r] = "judge"]
      /\ uses' = [uses EXCEPT ![r] = NoSocket] /\ UNCHANGED <<asked, went, got, heard>>
      /\ entry' \in {entry, NoEntry}
    BY DEF Discard, Turns
<1>b. uses[r] \in Sockets
    BY <1>0, <1>a DEF OwnSocket, OnSocket
<1>e. sockets' = Shut(sockets, uses[r])
    BY DEF Discard
<1>f. sockets' \in [Sockets -> Connections]
    BY <1>0, <1>b, <1>e, Closing DEF CodexTypes
<1>g. \A x \in Sockets : x # uses[r] => sockets'[x] = sockets[x]
    BY <1>0, <1>b, <1>e, Closing
<1>1. CodexTypes'
    BY <1>0, <1>a, <1>f DEF CodexTypes, RequestTypes
<1>2. OthersStay(r)
  <2>1. ASSUME NEW q \in Asks \ {r}, OnSocket(q)
        PROVE  uses[q] \in Sockets /\ uses[q] # uses[r]
      BY <1>0, <1>a, <2>1 DEF OwnSocket, CodexCore, Alone, OnSocket
  <2>2. AnswersStay
      BY <1>0, <1>a DEF AnswersStay, Heard, CodexTypes, RequestTypes
  <2>3. \A q \in Asks \ {r} : OnSocket(q) /\ entry.socket = uses[q] => entry.busy
      BY <1>0 DEF OwnSocket
  <2>4. \A q \in Asks \ {r} : OnSocket(q) /\ entry'.socket = uses[q] => entry.socket = uses[q] /\ entry'.busy
      BY <1>0, <1>a, <2>1, <2>3, CodexAssumption DEF NoEntry
  <2> QED BY <1>0, <1>a, <1>g, <2>1, <2>2, <2>4 DEF OthersStay, CodexTypes, RequestTypes
<1>3. EntryKept'
  <2>2. entry # NoEntry /\ ~entry.busy => sockets'[entry.socket].frames = <<>>
      BY <1>0, <1>a, <1>g, EntryShape DEF OwnSocket, OnSocket, EntryKept
  <2> QED BY <1>0, <1>1, <1>2, <1>a, <2>2, EntryStays DEF OthersStay
<1>4. OwnSocket(r)'
    BY <1>0, <1>a DEF OwnSocket, OnSocket, CodexTypes, RequestTypes
<1>5. OwnFrames(r)'
  <2>1. got[r] # NoAsk => got[r] = r /\ Heard(r)'
      BY <1>0, <1>2, HeardStays DEF OwnFrames, OthersStay
  <2> QED BY <1>0, <1>a, <2>1 DEF OwnFrames, CodexTypes, RequestTypes
<1>6. \A q \in Asks \ {r} : (OnSocket(r)' /\ OnSocket(q)) => uses'[r] # uses[q]
    BY <1>0, <1>a DEF OnSocket, CodexTypes, RequestTypes
<1> QED BY <1>1, <1>2, <1>3, <1>4, <1>5, <1>6, OneMoves

LEMMA JudgeSafe ==
    ASSUME CodexCore, NEW r \in Asks, Judge(r), ~crossed'
    PROVE  CodexCore'
<1>0. /\ CodexTypes /\ OwnSocket(r) /\ OwnFrames(r) /\ EntryKept /\ went[r] \in Memories
      /\ \A q \in Asks : OwnSocket(q)
    BY DEF CodexCore, CodexTypes, RequestTypes
<1> USE CodexAssumption DEF CodexTurns, Settled
<1>1. CodexTypes'
  <2>1. went' \in [Asks -> Memories]
    <3>1. went[r].retried \cup {went[r].why} \in SUBSET {"none", "transport", "previous_response_not_found", "connection_limit", "api"}
        BY <1>0 DEF Memories
    <3>2. CASE went' = [went EXCEPT ![r].retried = @ \cup {went[r].why}, ![r].started = FALSE]
        BY <1>0, <3>1, <3>2 DEF Memories, CodexTypes, RequestTypes
    <3>3. Fresh \in Memories
        BY DEF Memories, Fresh
    <3>4. CASE UNCHANGED went \/ went' = [went EXCEPT ![r] = Fresh]
        BY <1>0, <3>3, <3>4 DEF CodexTypes, RequestTypes
    <3> QED BY <3>2, <3>4 DEF Judge, Returns
  <2> QED BY <1>0, <2>1 DEF Judge, Returns, CodexTypes, RequestTypes
<1>2. OthersStay(r)
    BY <1>0, EntryShape DEF Judge, TriesAgain, Retryable, Returns, Fresh, OthersStay, AnswersStay, OnSocket, OwnSocket, CodexTypes, RequestTypes, Memories, Heard
<1>3. EntryKept'
    BY <1>0, <1>1, <1>2, EntryStays, EntryShape DEF Judge, TriesAgain, Retryable, Returns, Fresh, OthersStay, EntryKept, CodexTypes
<1>4. OwnSocket(r)'
    BY <1>0, EntryShape DEF Judge, TriesAgain, Retryable, Returns, Fresh, OwnSocket, OnSocket, CodexTypes, RequestTypes, Memories, Connections, Entries
<1>5. OwnFrames(r)'
    BY <1>0, <1>2, HeardStays, EntryShape DEF Judge, TriesAgain, Retryable, Returns, Fresh, OwnFrames, OnSocket, OthersStay, CodexTypes, RequestTypes, Connections
<1>6. \A q \in Asks \ {r} : (OnSocket(r)' /\ OnSocket(q)) => uses'[r] # uses[q]
    BY <1>0 DEF Judge, TriesAgain, Retryable, Returns, Fresh, OnSocket, OwnSocket, CodexCore, Alone, CodexTypes, RequestTypes
<1> QED BY <1>1, <1>2, <1>3, <1>4, <1>5, <1>6, OneMoves

LEMMA OverHttpSafe ==
    ASSUME CodexCore, NEW r \in Asks, OverHttp(r), ~crossed'
    PROVE  CodexCore'
<1>0. /\ CodexTypes /\ OwnSocket(r) /\ OwnFrames(r) /\ EntryKept /\ went[r] \in Memories
      /\ \A q \in Asks : OwnSocket(q)
    BY DEF CodexCore, CodexTypes, RequestTypes
<1> USE CodexAssumption DEF CodexTurns, Settled
<1>1. CodexTypes'
    BY <1>0, EntryShape DEF OverHttp, Returns, Fresh, CodexTypes, RequestTypes, Memories, Entries, Connections, CodexReplies
<1>2. OthersStay(r)
    BY <1>0, EntryShape DEF OverHttp, Returns, Fresh, OthersStay, AnswersStay, OnSocket, OwnSocket, CodexTypes, RequestTypes, Memories, Heard
<1>3. EntryKept'
    BY <1>0, <1>1, <1>2, EntryStays, EntryShape DEF OverHttp, Returns, Fresh, OthersStay, EntryKept, CodexTypes
<1>4. OwnSocket(r)'
    BY <1>0, EntryShape DEF OverHttp, Returns, Fresh, OwnSocket, OnSocket, CodexTypes, RequestTypes, Memories, Connections, Entries
<1>5. OwnFrames(r)'
    BY <1>0, <1>2, HeardStays, EntryShape DEF OverHttp, Returns, Fresh, OwnFrames, OnSocket, OthersStay, CodexTypes, RequestTypes, Connections
<1>6. \A q \in Asks \ {r} : (OnSocket(r)' /\ OnSocket(q)) => uses'[r] # uses[q]
    BY <1>0 DEF OverHttp, Returns, Fresh, OnSocket, OwnSocket, CodexCore, Alone, CodexTypes, RequestTypes
<1> QED BY <1>1, <1>2, <1>3, <1>4, <1>5, <1>6, OneMoves

LEMMA CodexAbortSafe ==
    ASSUME CodexCore, NEW r \in Asks, CodexAbort(r), ~crossed'
    PROVE  CodexCore'
<1>0. /\ CodexTypes /\ OwnSocket(r) /\ OwnFrames(r) /\ EntryKept /\ went[r] \in Memories
      /\ \A q \in Asks : OwnSocket(q)
    BY DEF CodexCore, CodexTypes, RequestTypes
<1> USE CodexAssumption DEF CodexTurns, Settled
<1>1. CodexTypes'
    BY <1>0, EntryShape DEF CodexAbort, UnderWay, Happens, CodexTypes, RequestTypes, Memories, Entries, Connections, CodexReplies
<1>2. OthersStay(r)
    BY <1>0, EntryShape DEF CodexAbort, UnderWay, Happens, OthersStay, AnswersStay, OnSocket, OwnSocket, CodexTypes, RequestTypes, Memories, Heard
<1>3. EntryKept'
    BY <1>0, <1>1, <1>2, EntryStays, EntryShape DEF CodexAbort, UnderWay, Happens, OthersStay, EntryKept, CodexTypes
<1>4. OwnSocket(r)'
    BY <1>0, EntryShape DEF CodexAbort, UnderWay, Happens, OwnSocket, OnSocket, CodexTypes, RequestTypes, Memories, Connections, Entries
<1>5. OwnFrames(r)'
  <2>1. /\ turn'[r] = turn[r] /\ uses'[r] = uses[r] /\ got'[r] = got[r] /\ UNCHANGED sockets
        /\ OnSocket(r) => uses[r] \in Sockets
      BY <1>0 DEF CodexAbort, OwnSocket
  <2> QED BY <1>0, <1>2, <2>1, FramesStay DEF OthersStay
<1>6. \A q \in Asks \ {r} : (OnSocket(r)' /\ OnSocket(q)) => uses'[r] # uses[q]
    BY <1>0 DEF CodexAbort, UnderWay, Happens, OnSocket, OwnSocket, CodexCore, Alone, CodexTypes, RequestTypes
<1> QED BY <1>1, <1>2, <1>3, <1>4, <1>5, <1>6, OneMoves

-----------------------------------------------------------------------------
\* A step of nobody's request, which leaves the connections in use alone.
LEMMA NobodyMoves ==
    ASSUME CodexCore, UNCHANGED <<turn, requestVars>>, CodexTypes', EntryKept',
           \A q \in Asks : OnSocket(q) =>
              /\ sockets'[uses[q]].open = sockets[uses[q]].open
              /\ sockets'[uses[q]].frames = sockets[uses[q]].frames
              /\ entry'.socket = uses[q] => entry.socket = uses[q] /\ entry'.busy
    PROVE  CodexCore'
<1>1. UNCHANGED <<turn, asked, uses, went, got, heard>>
    BY DEF requestVars
<1>2. AnswersStay
    BY <1>1 DEF AnswersStay, Heard
<1>3. ASSUME NEW q \in Asks
      PROVE  OwnSocket(q)' /\ OwnFrames(q)'
  <2>1. OwnSocket(q) /\ OwnFrames(q) /\ CodexTypes
      BY DEF CodexCore
  <2>2. OwnFrames(q)'
      BY <1>1, <1>2, <2>1, FramesStay DEF OwnSocket
  <2>3. OwnSocket(q)'
      BY <1>1, <2>1 DEF OwnSocket, OnSocket
  <2> QED BY <2>2, <2>3
<1>4. Alone'
    BY <1>1 DEF Alone, OnSocket, CodexCore
<1> QED BY <1>3, <1>4 DEF CodexCore

LEMMA TimerElapsesSafe ==
    ASSUME CodexCore, NEW t \in Asks, TimerElapses(t)
    PROVE  CodexCore'
<1>1. UNCHANGED <<turn, requestVars, sockets, entry>>
    BY DEF TimerElapses
<1>2. UNCHANGED <<turn, asked, uses, went, got, heard, sockets, entry>>
    BY <1>1 DEF requestVars
<1>3. CodexTypes' /\ EntryKept'
    BY <1>2 DEF CodexCore, CodexTypes, RequestTypes, EntryKept, Heard
<1>4. \A q \in Asks : OnSocket(q) /\ entry.socket = uses[q] => entry.busy
    BY DEF CodexCore, OwnSocket
<1> QED BY <1>1, <1>2, <1>3, <1>4, NobodyMoves

\* What may happen to the cache's entry while no request takes a step.
LEMMA CacheMoves ==
    ASSUME CodexCore, UNCHANGED <<turn, requestVars>>,
           sockets' \in [Sockets -> Connections], entry' \in Entries \cup {NoEntry},
           \/ /\ entry' = NoEntry /\ ~entry.busy /\ entry # NoEntry
              /\ \A x \in Sockets : x # entry.socket => sockets'[x] = sockets[x]
           \/ /\ entry' # NoEntry => /\ entry # NoEntry /\ entry'.socket = entry.socket
                                     /\ entry'.busy = entry.busy /\ entry'.reply = entry.reply
              /\ \A x \in Sockets : /\ sockets'[x].open = sockets[x].open
                                    /\ sockets'[x].frames = sockets[x].frames
    PROVE  CodexCore'
<1>1. UNCHANGED <<turn, asked, uses, went, got, heard>>
    BY DEF requestVars
<1>2. CodexTypes /\ EntryKept /\ CodexTypes'
    BY <1>1 DEF CodexCore, CodexTypes, RequestTypes
<1>3. AnswersStay
    BY <1>1 DEF AnswersStay, Heard
<1>4. EntryKept'
  <2>1. CASE entry' = NoEntry
      BY <2>1 DEF EntryKept
  <2>2. CASE entry' # NoEntry
    <3>1. entry # NoEntry /\ ~entry.busy => sockets'[entry.socket].frames = <<>>
        BY <1>2, <2>2, EntryShape DEF EntryKept
    <3> QED BY <1>2, <1>3, <2>2, <3>1, EntryStays
  <2> QED BY <2>1, <2>2
<1>5. ASSUME NEW q \in Asks, OnSocket(q)
      PROVE  /\ sockets'[uses[q]].open = sockets[uses[q]].open
             /\ sockets'[uses[q]].frames = sockets[uses[q]].frames
             /\ entry'.socket = uses[q] => entry.socket = uses[q] /\ entry'.busy
  <2>1. uses[q] \in Sockets /\ (entry.socket = uses[q] => entry.busy)
      BY <1>5 DEF CodexCore, OwnSocket
  <2>2. entry'.socket = uses[q] => entry' # NoEntry
      BY <2>1, CodexAssumption DEF NoEntry
  <2> QED BY <2>1, <2>2
<1> QED BY <1>2, <1>4, <1>5, NobodyMoves

LEMMA TimerActsSafe ==
    ASSUME CodexCore, NEW t \in Asks, TimerActs(t)
    PROVE  CodexCore'
<1>0. CodexTypes /\ UNCHANGED <<turn, requestVars>>
    BY DEF CodexCore, TimerActs
<1>1. CASE entry' = entry /\ UNCHANGED sockets
    BY <1>0, <1>1, CacheMoves, EntryShape DEF CodexTypes
<1>2. CASE entry # NoEntry /\ entry' = [entry EXCEPT !.timer = NoAsk] /\ UNCHANGED sockets
  <2>1. entry \in Entries
      BY <1>0, <1>2, EntryShape
  <2>2. /\ entry' \in Entries /\ entry'.socket = entry.socket /\ entry'.busy = entry.busy
        /\ entry'.reply = entry.reply
      BY <1>2, <2>1 DEF Entries
  <2> QED BY <1>0, <1>2, <2>2, CacheMoves DEF CodexTypes
<1>3. CASE entry # NoEntry /\ ~entry.busy /\ entry' = NoEntry /\ sockets' = Shut(sockets, entry.socket)
    BY <1>0, <1>3, EntryShape, Closing, CacheMoves
<1> QED BY <1>1, <1>2, <1>3 DEF TimerActs, Spares

LEMMA EntryAgesSafe ==
    ASSUME CodexCore, EntryAges
    PROVE  CodexCore'
<1>1. entry \in Entries /\ CodexTypes
    BY EntryShape DEF EntryAges, CodexCore
<1>2. /\ entry' \in Entries /\ entry'.socket = entry.socket /\ entry'.busy = entry.busy
      /\ entry'.reply = entry.reply
    BY <1>1 DEF EntryAges, Entries
<1> QED BY <1>1, <1>2, CacheMoves DEF EntryAges, CodexTypes

LEMMA PeerClosesSafe ==
    ASSUME CodexCore, NEW s \in Sockets, PeerCloses(s)
    PROVE  CodexCore'
<1>1. sockets \in [Sockets -> Connections] /\ entry \in Entries \cup {NoEntry}
    BY DEF CodexCore, CodexTypes
<1>2. /\ sockets' \in [Sockets -> Connections]
      /\ \A x \in Sockets : sockets'[x].open = sockets[x].open /\ sockets'[x].frames = sockets[x].frames
    BY <1>1 DEF PeerCloses, Connections
<1> QED BY <1>1, <1>2, CacheMoves DEF PeerCloses

LEMMA CodexNextInv == CodexInv /\ [CodexNext]_codexVars => CodexInv'
<1> SUFFICES ASSUME CodexInv, [CodexNext]_codexVars, ~crossed'
             PROVE  CodexCore'
    BY DEF CodexInv
<1>0. CASE UNCHANGED codexVars
    BY <1>0 DEF CodexInv, CodexCore, CodexTypes, RequestTypes, OwnSocket, OwnFrames, OnSocket, Alone,
                EntryKept, Heard, Stands, codexVars
<1>1. ASSUME CodexNext PROVE ~crossed
    BY <1>1 DEF CodexNext, Advances, Acquire, FetchReused, Connected, ConnectFails, SendFrame, Completed, 
                ServerRefuses, Interrupted, SaveContinuation, ReleaseSocket, 
                Schedule, ClearContinuation, Discard, Judge, OverHttp, AskCodex, CodexAbort,
                TimerElapses, TimerActs, EntryAges, CloseSessions, PeerCloses
<1>2. ASSUME NEW r \in Asks, CodexCore,
             AskCodex(r) \/ Advances(r) \/ CodexAbort(r) \/ TimerElapses(r) \/ TimerActs(r)
      PROVE  CodexCore'
    BY <1>2, AskCodexSafe, AcquireSafe, FetchReusedSafe, ConnectedSafe, ConnectFailsSafe, 
       SendFrameSafe, CompletedSafe, ServerRefusesSafe, InterruptedSafe, 
       SaveContinuationSafe, ReleaseSocketSafe, ScheduleSafe, 
       ClearContinuationSafe, DiscardSafe, JudgeSafe, OverHttpSafe, 
       CodexAbortSafe, TimerElapsesSafe, TimerActsSafe
       DEF Advances
<1>3. CASE CodexNext
  <2>1. CodexCore
      BY <1>1, <1>3 DEF CodexInv
  <2>2. ~CloseSessions
      BY DEF CloseSessions
  <2> QED BY <1>2, <1>3, <2>1, <2>2, EntryAgesSafe, PeerClosesSafe DEF CodexNext
<1> QED BY <1>0, <1>3

\* CodexInv holds in every reachable state.
THEOREM RequestsKeepApart == CodexSpec => []CodexInv
<1>1. CodexSpec => CodexInit /\ [][CodexNext]_codexVars
    BY DEF CodexSpec
<1> QED BY <1>1, CodexInitInv, CodexNextInv, PTL

\* Unless two requests have come to share a socket (the fetch of FetchReused finds another
\* one, or the sessions are closed under it), no timer, no other request and no entry that
\* is overwritten closes a connection between the moment it is chosen and the moment the
\* answer is complete.
THEOREM UsedSocketsStayOpen == CodexSpec => []InUseStaysOpen
<1>1. CodexInv => InUseStaysOpen
    BY DEF CodexInv, CodexCore, OwnSocket, OnSocket, InUseStaysOpen
<1> QED BY <1>1, RequestsKeepApart, PTL

\* With the same exception, an answer is the answer to the request that receives it, given
\* in the context of everything the request asked, though the frame may have carried only
\* what is new.
THEOREM ContextsAreComplete == CodexSpec => []ContextComplete
<1>1. CodexInv => ContextComplete
    BY DEF CodexInv, CodexCore, OwnFrames, Heard, ContextComplete
<1> QED BY <1>1, RequestsKeepApart, PTL

(*************************** Model catalogues ****************************)

RegistryStages ==
    {"out", "listed", "numbered", "reading", "phase", "resolving", "fetching", "publishing",
     "writing", "written", "updating", "over"}

Refreshes ==
    [at : RegistryStages, gen : Nat, ctl : Nat, object : Nat, phase : {"offline", "online", "fetched"},
     network : BOOLEAN, known : BOOLEAN, value : Nat, persists : BOOLEAN, checked : Nat, cut : BOOLEAN]

RegistryTypes ==
    /\ generation \in Nat /\ registered \in Nat /\ newest \in Nat \ {0}
    /\ shelf \in 0..newest /\ held \in [Objects -> Nat]
    /\ refresh \in [ListRefreshes -> Refreshes]
    /\ overtook \in BOOLEAN

\* A generation belongs to one refresh, and a check was of its own generation.
Numbered ==
    \A r \in ListRefreshes :
        /\ refresh[r].gen <= generation
        /\ refresh[r].at \notin {"out", "listed", "over"} => refresh[r].gen # 0
        /\ refresh[r].at \in {"writing", "updating"} => refresh[r].checked = refresh[r].gen
        /\ \A q \in ListRefreshes \ {r} : refresh[r].gen # 0 => refresh[q].gen # refresh[r].gen

\* What the refresh of the last generation is about to publish is not older than what the
\* store has, and is what the store has once it is written.
Abreast(r) ==
    refresh[r].gen = generation =>
        /\ refresh[r].at \in {"publishing", "writing"} =>
              shelf <= refresh[r].value /\ (~refresh[r].persists => refresh[r].value = shelf)
        /\ refresh[r].at = "writing" => refresh[r].persists
        /\ refresh[r].at \in {"written", "updating"} => refresh[r].value = shelf

\* Every catalogue in use was fetched.
Known == \A r \in ListRefreshes : refresh[r].value <= newest

RegistryInv ==
    /\ RegistryTypes /\ Numbered /\ Known
    /\ ~overtook => /\ \A r \in ListRefreshes : Abreast(r)
                    /\ \A o \in Objects : held[o] <= shelf

LEMMA RegistryInitInv == RegistryInit => RegistryInv
<1> SUFFICES ASSUME RegistryInit PROVE RegistryInv
    OBVIOUS
<1>1. Unstarted \in Refreshes /\ Unstarted.at = "out" /\ Unstarted.gen = 0 /\ Unstarted.value = 0
    BY DEF Unstarted, Refreshes, RegistryStages
<1>2. RegistryTypes
  <2>1. generation = 0 /\ registered = 1 /\ newest = 1 /\ shelf = 0 /\ overtook = FALSE
      BY DEF RegistryInit, LegacyCatalogue
  <2>2. held \in [Objects -> Nat] /\ refresh \in [ListRefreshes -> Refreshes]
      BY <1>1 DEF RegistryInit
  <2>3. generation \in Nat /\ registered \in Nat /\ newest \in Nat \ {0} /\ shelf \in 0..newest
      BY <2>1
  <2> QED BY <2>1, <2>2, <2>3 DEF RegistryTypes
<1>3. \A r \in ListRefreshes : refresh[r] = Unstarted
    BY DEF RegistryInit
<1>4. Numbered /\ Known /\ \A r \in ListRefreshes : Abreast(r)
    BY <1>1, <1>3 DEF RegistryInit, Numbered, Known, Abreast, LegacyCatalogue
<1>5. \A o \in Objects : held[o] <= shelf
    BY DEF RegistryInit
<1> QED BY <1>2, <1>4, <1>5 DEF RegistryInv

-----------------------------------------------------------------------------
\* What a step that publishes nothing and takes no number may make of a refresh.
Admits(r, x) ==
    /\ refresh' = [refresh EXCEPT ![r] = x]
    /\ UNCHANGED <<generation, registered, held, shelf, overtook>>
    /\ newest' \in Nat /\ newest <= newest' /\ x.value <= newest'
    /\ x.gen = refresh[r].gen \/ (x.gen = 0 /\ x.at = "over")
    /\ x.at \in {"out", "listed", "over"} \/ refresh[r].at \notin {"out", "listed", "over"}
    /\ x.at \in {"writing", "updating"} => x.checked = x.gen
    /\ (x.gen = generation /\ ~overtook) =>
          /\ x.at \in {"publishing", "writing"} =>
                shelf <= x.value /\ (~x.persists => x.value = shelf)
          /\ x.at = "writing" => x.persists
          /\ x.at \in {"written", "updating"} => x.value = shelf

LEMMA RefreshGoesOn ==
    ASSUME RegistryInv, NEW r \in ListRefreshes, NEW x \in Refreshes, Admits(r, x)
    PROVE  RegistryInv'
<1>1. /\ refresh'[r] = x
      /\ \A q \in ListRefreshes \ {r} : refresh'[q] = refresh[q]
      /\ refresh' \in [ListRefreshes -> Refreshes] /\ refresh[r] \in Refreshes
    BY DEF RegistryInv, RegistryTypes, Admits
<1>2. RegistryTypes'
    BY <1>1 DEF RegistryInv, RegistryTypes, Admits
<1>3. Numbered'
    BY <1>1, <1>2 DEF RegistryInv, Numbered, Refreshes, RegistryTypes, Admits
<1>4. Known'
    BY <1>1, <1>2 DEF RegistryInv, Known, Refreshes, RegistryTypes, Admits
<1>5. ~overtook => \A q \in ListRefreshes : Abreast(q)'
    BY <1>1 DEF RegistryInv, Abreast, Admits
<1> QED BY <1>2, <1>3, <1>4, <1>5 DEF RegistryInv, Admits

\* The refresh goes on to another stage of the same phase, or of the next one.
LEMMA StageChanges ==
    ASSUME RegistryInv, NEW r \in ListRefreshes, NEW x \in Refreshes,
           refresh' = [refresh EXCEPT ![r] = x],
           UNCHANGED <<generation, registered, held, shelf, overtook, newest>>,
           x.gen = refresh[r].gen /\ x.value = refresh[r].value,
           x.at \in {"out", "listed", "over", "numbered", "reading", "phase", "resolving", "fetching"},
           x.at \in {"out", "listed", "over"} \/ refresh[r].at \notin {"out", "listed", "over"}
    PROVE  RegistryInv'
<1>1. x.value <= newest /\ newest \in Nat
    BY DEF RegistryInv, RegistryTypes, Known
<1>2. Admits(r, x)
    BY <1>1 DEF Admits
<1> QED BY <1>2, RefreshGoesOn

LEMMA RefreshEnds ==
    ASSUME RegistryInv, NEW r \in ListRefreshes, EndsRefresh(r),
           UNCHANGED <<generation, registered, held, shelf, overtook, newest>>
    PROVE  RegistryInv'
<1> DEFINE x == [Unstarted EXCEPT !.at = "over"]
<1>1. x \in Refreshes /\ x.at = "over" /\ x.gen = 0 /\ x.value = 0
    BY DEF Unstarted, Refreshes, RegistryStages
<1>2. newest \in Nat
    BY DEF RegistryInv, RegistryTypes
<1>3. refresh' = [refresh EXCEPT ![r] = x]
    BY DEF EndsRefresh
<1> HIDE DEF x
<1>4. Admits(r, x)
    BY <1>1, <1>2, <1>3 DEF Admits
<1> QED BY <1>1, <1>4, RefreshGoesOn

\* It goes to a stage in which it publishes nothing.
LEMMA GoesToSafe ==
    ASSUME RegistryInv, NEW r \in ListRefreshes,
           NEW s \in {"numbered", "reading", "phase", "resolving", "fetching"}, GoesTo(r, s),
           refresh[r].at \notin {"out", "listed", "over"},
           UNCHANGED <<generation, registered, held, shelf, overtook, newest>>
    PROVE  RegistryInv'
<1> DEFINE x == [refresh[r] EXCEPT !.at = s]
<1>1. /\ x \in Refreshes /\ x.at = s /\ x.gen = refresh[r].gen /\ x.value = refresh[r].value
      /\ refresh' = [refresh EXCEPT ![r] = x]
    BY DEF RegistryInv, RegistryTypes, Refreshes, RegistryStages, GoesTo
<1> HIDE DEF x
<1> QED BY <1>1, StageChanges

LEMMA OnwardSafe ==
    ASSUME RegistryInv, NEW r \in ListRefreshes, Onward(r), refresh[r].at \notin {"out", "listed", "over"},
           UNCHANGED <<generation, registered, held, shelf, overtook, newest>>
    PROVE  RegistryInv'
<1>1. GoesTo(r, "resolving") \/ GoesTo(r, "fetching") \/ EndsRefresh(r)
    BY DEF Onward
<1> QED BY <1>1, GoesToSafe, RefreshEnds

LEMMA UnpublishedSafe ==
    ASSUME RegistryInv, NEW r \in ListRefreshes, Unpublished(r), refresh[r].at \notin {"out", "listed", "over"},
           UNCHANGED <<generation, registered, held, shelf, overtook, newest>>
    PROVE  RegistryInv'
BY OnwardSafe, RefreshEnds DEF Unpublished

LEMMA ListsProvidersSafe ==
    ASSUME RegistryInv, NEW r \in ListRefreshes, ListsProviders(r)
    PROVE  RegistryInv'
<1>0. /\ refresh[r] \in Refreshes /\ refresh \in [ListRefreshes -> Refreshes]
      /\ newest \in Nat /\ generation \in Nat /\ registered \in Nat /\ shelf \in Nat
      /\ refresh[r].value <= newest /\ refresh[r].gen <= generation /\ shelf <= newest
    BY DEF RegistryInv, RegistryTypes, Known, Numbered
<1>1. CASE EndsRefresh(r)
    BY <1>1, RefreshEnds DEF ListsProviders, RefreshOnly
<1>2. CASE ~EndsRefresh(r)
  <2> DEFINE x == [refresh[r] EXCEPT !.at = "listed", !.object = registered, !.network = r \notin Offline]
  <2>1. /\ refresh' = [refresh EXCEPT ![r] = x] /\ UNCHANGED <<generation, registered, held, shelf, overtook, newest>>
        /\ x \in Refreshes /\ x.gen = refresh[r].gen /\ x.value = refresh[r].value /\ x.at = "listed"
      BY <1>0, <1>2 DEF ListsProviders, RefreshOnly, Refreshes, RegistryStages
  <2> HIDE DEF x
  <2> QED BY <2>1, StageChanges
<1> QED BY <1>1, <1>2

LEMMA TakesGenerationSafe ==
    ASSUME RegistryInv, NEW r \in ListRefreshes, TakesGeneration(r)
    PROVE  RegistryInv'
<1>0. /\ refresh[r] \in Refreshes /\ refresh \in [ListRefreshes -> Refreshes]
      /\ newest \in Nat /\ generation \in Nat /\ registered \in Nat /\ shelf \in Nat
      /\ refresh[r].value <= newest /\ refresh[r].gen <= generation /\ shelf <= newest
    BY DEF RegistryInv, RegistryTypes, Known, Numbered
<1> DEFINE x == [refresh[r] EXCEPT !.at = "numbered", !.gen = generation + 1]
<1>1. /\ refresh' = [refresh EXCEPT ![r] = x] /\ generation' = generation + 1
      /\ UNCHANGED <<registered, held, shelf, overtook, newest>>
      /\ x \in Refreshes /\ x.gen = generation + 1 /\ x.value = refresh[r].value /\ x.at = "numbered"
    BY <1>0 DEF TakesGeneration, Refreshes, RegistryStages
<1> HIDE DEF x
<1>2. refresh'[r] = x /\ \A q \in ListRefreshes \ {r} : refresh'[q] = refresh[q]
    BY <1>0, <1>1
<1>3. RegistryTypes'
    BY <1>0, <1>1 DEF RegistryInv, RegistryTypes
<1>4. \A q \in ListRefreshes : refresh[q].gen <= generation /\ refresh[q].gen \in Nat
    BY DEF RegistryInv, Numbered, RegistryTypes, Refreshes
<1>5. Numbered'
    BY <1>0, <1>1, <1>2, <1>4 DEF RegistryInv, Numbered
<1>6. Known'
    BY <1>0, <1>1, <1>2 DEF RegistryInv, Known
<1>7. \A q \in ListRefreshes : Abreast(q)'
    BY <1>0, <1>1, <1>2, <1>4 DEF Abreast
<1> QED BY <1>1, <1>3, <1>5, <1>6, <1>7 DEF RegistryInv

LEMMA TakesControllerSafe ==
    ASSUME RegistryInv, NEW r \in ListRefreshes, TakesController(r)
    PROVE  RegistryInv'
<1>0. /\ refresh[r] \in Refreshes /\ refresh \in [ListRefreshes -> Refreshes]
      /\ newest \in Nat /\ generation \in Nat /\ registered \in Nat /\ shelf \in Nat
      /\ refresh[r].value <= newest /\ refresh[r].gen <= generation /\ shelf <= newest
    BY DEF RegistryInv, RegistryTypes, Known, Numbered
<1> DEFINE x == [refresh[r] EXCEPT !.at = "reading", !.ctl = generation]
<1>1. /\ refresh' = [refresh EXCEPT ![r] = x] /\ UNCHANGED <<generation, registered, held, shelf, overtook, newest>>
      /\ x \in Refreshes /\ x.gen = refresh[r].gen /\ x.value = refresh[r].value
      /\ x.at \in {"listed", "numbered", "reading", "phase", "resolving", "fetching"}
      /\ x.at = "listed" \/ refresh[r].at \notin {"out", "listed", "over"}
    BY <1>0 DEF TakesController, RefreshOnly, Refreshes, RegistryStages
<1> HIDE DEF x
<1> QED BY <1>1, StageChanges

LEMMA HandsOnSafe ==
    ASSUME RegistryInv, NEW r \in ListRefreshes, HandsOn(r)
    PROVE  RegistryInv'
<1>0. /\ refresh[r] \in Refreshes /\ refresh \in [ListRefreshes -> Refreshes]
      /\ newest \in Nat /\ generation \in Nat /\ registered \in Nat /\ shelf \in Nat
      /\ refresh[r].value <= newest /\ refresh[r].gen <= generation /\ shelf <= newest
    BY DEF RegistryInv, RegistryTypes, Known, Numbered
<1> DEFINE x == [refresh[r] EXCEPT !.cut = TRUE]
<1>1. /\ refresh' = [refresh EXCEPT ![r] = x] /\ UNCHANGED <<generation, registered, held, shelf, overtook, newest>>
      /\ x \in Refreshes /\ x.gen = refresh[r].gen /\ x.value = refresh[r].value /\ x.at = refresh[r].at
      /\ x.checked = refresh[r].checked /\ x.persists = refresh[r].persists
    BY <1>0 DEF HandsOn, RefreshOnly, Refreshes
<1> HIDE DEF x
<1>2. Admits(r, x)
    BY <1>0, <1>1 DEF RegistryInv, Numbered, Abreast, Admits
<1> QED BY <1>1, <1>2, RefreshGoesOn

LEMMA IsDroppedSafe ==
    ASSUME RegistryInv, NEW r \in ListRefreshes, IsDropped(r)
    PROVE  RegistryInv'
<1>0. /\ refresh[r] \in Refreshes /\ refresh \in [ListRefreshes -> Refreshes]
      /\ newest \in Nat /\ generation \in Nat /\ registered \in Nat /\ shelf \in Nat
      /\ refresh[r].value <= newest /\ refresh[r].gen <= generation /\ shelf <= newest
    BY DEF RegistryInv, RegistryTypes, Known, Numbered
<1> QED BY RefreshEnds DEF IsDropped, RefreshOnly

LEMMA ReadsCredentialSafe ==
    ASSUME RegistryInv, NEW r \in ListRefreshes, ReadsCredential(r)
    PROVE  RegistryInv'
<1>0. /\ refresh[r] \in Refreshes /\ refresh \in [ListRefreshes -> Refreshes]
      /\ newest \in Nat /\ generation \in Nat /\ registered \in Nat /\ shelf \in Nat
      /\ refresh[r].value <= newest /\ refresh[r].gen <= generation /\ shelf <= newest
    BY DEF RegistryInv, RegistryTypes, Known, Numbered
<1>1. CASE GoesTo(r, "phase")
    BY <1>1, GoesToSafe DEF ReadsCredential, RefreshOnly
<1>2. CASE ~GoesTo(r, "phase")
  <2> DEFINE x == [refresh[r] EXCEPT !.at = "phase", !.network = FALSE, !.known = FALSE]
  <2>1. /\ refresh' = [refresh EXCEPT ![r] = x] /\ UNCHANGED <<generation, registered, held, shelf, overtook, newest>>
        /\ x \in Refreshes /\ x.gen = refresh[r].gen /\ x.value = refresh[r].value /\ x.at = "phase"
        /\ refresh[r].at = "reading"
      BY <1>0, <1>2 DEF ReadsCredential, RefreshOnly, Refreshes, RegistryStages
  <2> HIDE DEF x
  <2> QED BY <2>1, StageChanges
<1> QED BY <1>1, <1>2

LEMMA ReadsStoreSafe ==
    ASSUME RegistryInv, NEW r \in ListRefreshes, ReadsStore(r)
    PROVE  RegistryInv'
<1>0. /\ refresh[r] \in Refreshes /\ refresh \in [ListRefreshes -> Refreshes]
      /\ newest \in Nat /\ generation \in Nat /\ registered \in Nat /\ shelf \in Nat
      /\ refresh[r].value <= newest /\ refresh[r].gen <= generation /\ shelf <= newest
    BY DEF RegistryInv, RegistryTypes, Known, Numbered
<1>1. ASSUME NEW v \in Nat, NEW p \in BOOLEAN, v = shelf \/ (p = TRUE /\ shelf <= v /\ v <= newest),
             refresh' = [refresh EXCEPT ![r].at = "publishing", ![r].value = v, ![r].persists = p],
             refresh[r].at = "phase", UNCHANGED <<generation, registered, held, shelf, overtook, newest>>
      PROVE  RegistryInv'
  <2> DEFINE x == [refresh[r] EXCEPT !.at = "publishing", !.value = v, !.persists = p]
  <2>1. /\ refresh' = [refresh EXCEPT ![r] = x]
        /\ x \in Refreshes /\ x.gen = refresh[r].gen /\ x.value = v /\ x.at = "publishing" /\ x.persists = p
      BY <1>0, <1>1 DEF Refreshes, RegistryStages
  <2> HIDE DEF x
  <2>2. shelf <= x.value /\ x.value <= newest
      BY <1>0, <1>1, <2>1
  <2>4. ~x.persists => x.value = shelf
    <3>1. CASE v = shelf
        BY <2>1, <3>1
    <3>2. CASE p = TRUE
        BY <2>1, <3>2
    <3> QED BY <1>1, <3>1, <3>2
  <2>3. Admits(r, x)
    <3>1. UNCHANGED <<generation, registered, held, shelf, overtook>> /\ newest' = newest
        BY <1>1
    <3>2. refresh[r].at \notin {"out", "listed", "over"} /\ x.at \notin {"writing", "written", "updating"}
        BY <1>1, <2>1
    <3>3. newest' \in Nat /\ newest <= newest' /\ x.value <= newest'
        BY <1>0, <2>2, <3>1
    <3> QED BY <2>1, <2>2, <2>4, <3>1, <3>2, <3>3 DEF Admits
  <2> QED BY <2>1, <2>3, RefreshGoesOn
<1>2. CASE Publishing(r, shelf, FALSE) \/ (shelf = 0 /\ Publishing(r, LegacyCatalogue, TRUE))
  <2>1. LegacyCatalogue = 1 /\ 1 <= newest
    <3>1. newest \in Nat \ {0}
        BY DEF RegistryInv, RegistryTypes
    <3> QED BY <3>1 DEF LegacyCatalogue
  <2>2. refresh[r].at = "phase" /\ UNCHANGED <<generation, registered, held, shelf, overtook, newest>>
      BY DEF ReadsStore, RefreshOnly
  <2>3. PICK v \in Nat, p \in BOOLEAN :
            /\ v = shelf \/ (p = TRUE /\ shelf <= v /\ v <= newest)
            /\ refresh' = [refresh EXCEPT ![r].at = "publishing", ![r].value = v, ![r].persists = p]
    <3>1. CASE Publishing(r, shelf, FALSE)
        BY <1>0, <3>1 DEF Publishing
    <3>2. CASE shelf = 0 /\ Publishing(r, LegacyCatalogue, TRUE)
      <4>1. refresh' = [refresh EXCEPT ![r].at = "publishing", ![r].value = 1, ![r].persists = TRUE]
          BY <2>1, <3>2 DEF Publishing
      <4>2. TRUE \in BOOLEAN /\ 1 \in Nat /\ shelf <= 1
          BY <3>2
      <4> QED BY <2>1, <4>1, <4>2
    <3> QED BY <1>2, <3>1, <3>2
  <2> QED BY <1>1, <2>2, <2>3
<1>4. CASE Onward(r) \/ EndsRefresh(r)
    BY <1>4, OnwardSafe, RefreshEnds DEF ReadsStore, RefreshOnly
<1> QED BY <1>2, <1>4 DEF ReadsStore

LEMMA ResolvesCredentialSafe ==
    ASSUME RegistryInv, NEW r \in ListRefreshes, ResolvesCredential(r)
    PROVE  RegistryInv'
<1>0. /\ refresh[r] \in Refreshes /\ refresh \in [ListRefreshes -> Refreshes]
      /\ newest \in Nat /\ generation \in Nat /\ registered \in Nat /\ shelf \in Nat
      /\ refresh[r].value <= newest /\ refresh[r].gen <= generation /\ shelf <= newest
    BY DEF RegistryInv, RegistryTypes, Known, Numbered
<1>1. CASE EndsRefresh(r)
    BY <1>1, RefreshEnds DEF ResolvesCredential, RefreshOnly
<1>2. CASE ~EndsRefresh(r)
  <2> DEFINE x == [refresh[r] EXCEPT !.at = "phase", !.phase = "online"]
  <2>1. /\ refresh' = [refresh EXCEPT ![r] = x] /\ UNCHANGED <<generation, registered, held, shelf, overtook, newest>>
        /\ x \in Refreshes /\ x.gen = refresh[r].gen /\ x.value = refresh[r].value /\ x.at = "phase"
        /\ refresh[r].at = "resolving"
      BY <1>0, <1>2 DEF ResolvesCredential, RefreshOnly, Refreshes, RegistryStages
  <2> HIDE DEF x
  <2> QED BY <2>1, StageChanges
<1> QED BY <1>1, <1>2

LEMMA RegistryFetchesSafe ==
    ASSUME RegistryInv, NEW r \in ListRefreshes, Fetches(r)
    PROVE  RegistryInv'
<1>0. /\ refresh[r] \in Refreshes /\ refresh \in [ListRefreshes -> Refreshes]
      /\ newest \in Nat /\ generation \in Nat /\ registered \in Nat /\ shelf \in Nat
      /\ refresh[r].value <= newest /\ refresh[r].gen <= generation /\ shelf <= newest
    BY DEF RegistryInv, RegistryTypes, Known, Numbered
<1>1. CASE EndsRefresh(r) /\ UNCHANGED newest
    BY <1>1, RefreshEnds DEF Fetches
<1>2. CASE ~(EndsRefresh(r) /\ UNCHANGED newest)
  <2> DEFINE x == [refresh[r] EXCEPT !.at = "publishing", !.phase = "fetched",
                                     !.value = newest + 1, !.persists = TRUE]
  <2>1. /\ refresh' = [refresh EXCEPT ![r] = x] /\ newest' = newest + 1
        /\ UNCHANGED <<generation, registered, held, shelf, overtook>>
        /\ x \in Refreshes /\ x.gen = refresh[r].gen /\ x.value = newest + 1 /\ x.at = "publishing"
        /\ x.persists /\ refresh[r].at = "fetching"
      BY <1>0, <1>2 DEF Fetches, Refreshes, RegistryStages
  <2> HIDE DEF x
  <2>3. Admits(r, x)
      BY <1>0, <2>1 DEF Admits
  <2> QED BY <2>1, <2>3, RefreshGoesOn
<1> QED BY <1>1, <1>2

LEMMA ChecksFirstSafe ==
    ASSUME RegistryInv, NEW r \in ListRefreshes, ChecksFirst(r)
    PROVE  RegistryInv'
<1>0. /\ refresh[r] \in Refreshes /\ refresh \in [ListRefreshes -> Refreshes]
      /\ newest \in Nat /\ generation \in Nat /\ registered \in Nat /\ shelf \in Nat
      /\ refresh[r].value <= newest /\ refresh[r].gen <= generation /\ shelf <= newest
    BY DEF RegistryInv, RegistryTypes, Known, Numbered
<1>1. CASE Unpublished(r)
    BY <1>1, UnpublishedSafe DEF ChecksFirst, RefreshOnly
<1>2. CASE ~Unpublished(r)
  <2> DEFINE s == IF refresh[r].persists THEN "writing" ELSE "updating"
             x == [refresh[r] EXCEPT !.at = s, !.checked = generation]
  <2>1. /\ refresh' = [refresh EXCEPT ![r] = x] /\ UNCHANGED <<generation, registered, held, shelf, overtook, newest>>
        /\ refresh[r].gen = generation /\ refresh[r].at = "publishing"
      BY <1>2 DEF ChecksFirst, Checked, IsCurrent, RefreshOnly
  <2>2. /\ x \in Refreshes /\ x.gen = generation /\ x.value = refresh[r].value /\ x.at = s
        /\ x.persists = refresh[r].persists /\ x.checked = generation
      BY <1>0, <2>1 DEF Refreshes, RegistryStages
  <2> HIDE DEF x
  <2>3. ~overtook => shelf <= refresh[r].value /\ (~refresh[r].persists => refresh[r].value = shelf)
      BY <2>1 DEF RegistryInv, Abreast
  <2>4. Admits(r, x)
      BY <1>0, <2>1, <2>2, <2>3 DEF Admits
  <2> QED BY <2>2, <2>4, RefreshGoesOn
<1> QED BY <1>1, <1>2

LEMMA ChecksAgainSafe ==
    ASSUME RegistryInv, NEW r \in ListRefreshes, ChecksAgain(r)
    PROVE  RegistryInv'
<1>0. /\ refresh[r] \in Refreshes /\ refresh \in [ListRefreshes -> Refreshes]
      /\ newest \in Nat /\ generation \in Nat /\ registered \in Nat /\ shelf \in Nat
      /\ refresh[r].value <= newest /\ refresh[r].gen <= generation /\ shelf <= newest
    BY DEF RegistryInv, RegistryTypes, Known, Numbered
<1>1. CASE Unpublished(r)
    BY <1>1, UnpublishedSafe DEF ChecksAgain, RefreshOnly
<1>2. CASE ~Unpublished(r)
  <2> DEFINE x == [refresh[r] EXCEPT !.at = "updating", !.checked = generation]
  <2>1. /\ refresh' = [refresh EXCEPT ![r] = x] /\ UNCHANGED <<generation, registered, held, shelf, overtook, newest>>
        /\ refresh[r].gen = generation /\ refresh[r].at = "written"
      BY <1>2 DEF ChecksAgain, Checked, IsCurrent, RefreshOnly
  <2>2. /\ x \in Refreshes /\ x.gen = generation /\ x.value = refresh[r].value /\ x.at = "updating"
        /\ x.checked = generation
      BY <1>0, <2>1 DEF Refreshes, RegistryStages
  <2> HIDE DEF x
  <2>3. ~overtook => refresh[r].value = shelf
      BY <2>1 DEF RegistryInv, Abreast
  <2>4. Admits(r, x)
      BY <1>0, <2>1, <2>2, <2>3 DEF Admits
  <2> QED BY <2>2, <2>4, RefreshGoesOn
<1> QED BY <1>1, <1>2

\* Of two refreshes one at most has the last generation.
LEMMA OneCurrent ==
    ASSUME RegistryInv, NEW r \in ListRefreshes, refresh[r].gen = generation,
           refresh[r].at \notin {"out", "listed", "over"}
    PROVE  \A q \in ListRefreshes \ {r} : refresh[q].gen # generation
BY DEF RegistryInv, Numbered

LEMMA WritesStoreSafe ==
    ASSUME RegistryInv, NEW r \in ListRefreshes, WritesStore(r)
    PROVE  RegistryInv'
<1>0. /\ refresh[r] \in Refreshes /\ refresh \in [ListRefreshes -> Refreshes]
      /\ newest \in Nat /\ generation \in Nat /\ registered \in Nat /\ shelf \in Nat
      /\ refresh[r].value <= newest /\ refresh[r].gen <= generation /\ shelf <= newest
    BY DEF RegistryInv, RegistryTypes, Known, Numbered
<1>1. CASE EndsRefresh(r) /\ UNCHANGED <<shelf, overtook>>
    BY <1>1, RefreshEnds DEF WritesStore
<1>2. CASE ~(EndsRefresh(r) /\ UNCHANGED <<shelf, overtook>>)
  <2> DEFINE x == [refresh[r] EXCEPT !.at = "written"]
  <2>1. /\ refresh' = [refresh EXCEPT ![r] = x] /\ shelf' = refresh[r].value /\ refresh[r].at = "writing"
        /\ overtook' = (overtook \/ refresh[r].checked # generation)
        /\ UNCHANGED <<generation, registered, held, newest>>
      BY <1>2 DEF WritesStore, GoesTo
  <2>2. /\ x \in Refreshes /\ x.gen = refresh[r].gen /\ x.value = refresh[r].value /\ x.at = "written"
      BY <1>0 DEF Refreshes, RegistryStages
  <2> HIDE DEF x
  <2>3. refresh'[r] = x /\ \A q \in ListRefreshes \ {r} : refresh'[q] = refresh[q]
      BY <1>0, <2>1
  <2>4. overtook' \in BOOLEAN /\ refresh[r].checked = refresh[r].gen
      BY <2>1 DEF RegistryInv, RegistryTypes, Numbered
  <2>5. RegistryTypes'
    <3>1. refresh' \in [ListRefreshes -> Refreshes]
        BY <1>0, <2>1, <2>2
    <3>2. shelf' \in 0..newest
        BY <1>0, <2>1 DEF Refreshes
    <3> QED BY <2>1, <2>4, <3>1, <3>2 DEF RegistryInv, RegistryTypes
  <2>6. Numbered'
      BY <2>1, <2>2, <2>3 DEF RegistryInv, Numbered
  <2>7. Known'
      BY <2>1, <2>2, <2>3 DEF RegistryInv, Known
  <2>8. ASSUME ~overtook'
        PROVE  (\A q \in ListRefreshes : Abreast(q)') /\ \A o \in Objects : held'[o] <= shelf'
    <3>1. ~overtook /\ refresh[r].gen = generation
        BY <2>1, <2>4, <2>8
    <3>2. \A q \in ListRefreshes \ {r} : refresh[q].gen # generation
        BY <2>1, <3>1, OneCurrent
    <3>3. shelf <= shelf' /\ \A o \in Objects : held[o] <= shelf
        BY <2>1, <3>1 DEF RegistryInv, Abreast
    <3>4. \A o \in Objects : held'[o] <= shelf'
        BY <1>0, <2>1, <2>5, <3>3 DEF RegistryInv, RegistryTypes
    <3> QED BY <2>1, <2>2, <2>3, <3>2, <3>4 DEF Abreast
  <2> QED BY <2>5, <2>6, <2>7, <2>8 DEF RegistryInv
<1> QED BY <1>1, <1>2

\* What a publication to a provider does to the lists.
LEMMA Lists ==
    ASSUME RegistryInv, NEW r \in ListRefreshes, Updates(r)
    PROVE  /\ held' \in [Objects -> Nat] /\ overtook' \in BOOLEAN
           /\ ~overtook' => /\ ~overtook
                            /\ \A o \in Objects : held[o] <= held'[o] /\ held'[o] <= shelf'
<1>1. /\ held \in [Objects -> Nat] /\ refresh[r].value \in Nat /\ refresh[r].at = "updating"
      /\ held' = [held EXCEPT ![refresh[r].object] = refresh[r].value] /\ shelf' = shelf
      /\ overtook' = (overtook \/ refresh[r].checked # generation) /\ overtook \in BOOLEAN /\ shelf \in Nat
    BY DEF RegistryInv, RegistryTypes, Refreshes, Updates
<1>2. ASSUME ~overtook'
      PROVE  ~overtook /\ refresh[r].value = shelf /\ \A o \in Objects : held[o] <= shelf
  <2>1. ~overtook /\ refresh[r].checked = generation
      BY <1>1, <1>2
  <2>2. refresh[r].gen = generation
      BY <1>1, <2>1 DEF RegistryInv, Numbered
  <2> QED BY <1>1, <2>1, <2>2 DEF RegistryInv, Abreast
<1>3. held' \in [Objects -> Nat]
    BY <1>1
<1>4. overtook' \in BOOLEAN
    BY <1>1
<1>5. ASSUME ~overtook', NEW o \in Objects
      PROVE  held[o] <= held'[o] /\ held'[o] <= shelf'
    BY <1>1, <1>2, <1>5
<1> QED BY <1>2, <1>3, <1>4, <1>5

\* A refresh goes on or ends while the lists change.
LEMMA UpdatesSafe ==
    ASSUME RegistryInv, NEW r \in ListRefreshes, Updates(r)
    PROVE  RegistryInv'
<1>0. /\ refresh[r] \in Refreshes /\ refresh \in [ListRefreshes -> Refreshes] /\ newest \in Nat
      /\ refresh[r].at = "updating"
    BY DEF RegistryInv, RegistryTypes, Updates
<1>1. PICK x \in Refreshes :
        /\ refresh' = [refresh EXCEPT ![r] = x] /\ x.value <= newest
        /\ x.gen = refresh[r].gen \/ (x.gen = 0 /\ x.at = "over")
        /\ x.at \in {"over", "resolving", "fetching"}
  <2>1. CASE EndsRefresh(r)
    <3> DEFINE e == [Unstarted EXCEPT !.at = "over"]
    <3>1. e \in Refreshes /\ e.at = "over" /\ e.gen = 0 /\ e.value = 0 /\ refresh' = [refresh EXCEPT ![r] = e]
        BY <2>1 DEF Unstarted, Refreshes, RegistryStages, EndsRefresh
    <3> HIDE DEF e
    <3>2. e.value <= newest /\ e.at \in {"over", "resolving", "fetching"}
        BY <1>0, <3>1
    <3> QED BY <3>1, <3>2
  <2>2. ASSUME NEW s \in {"resolving", "fetching"}, GoesTo(r, s)
        PROVE  \E x \in Refreshes :
                  /\ refresh' = [refresh EXCEPT ![r] = x] /\ x.value <= newest
                  /\ x.gen = refresh[r].gen /\ x.at = s
    <3> DEFINE e == [refresh[r] EXCEPT !.at = s]
    <3>1. /\ e \in Refreshes /\ e.at = s /\ e.gen = refresh[r].gen /\ e.value = refresh[r].value
          /\ refresh' = [refresh EXCEPT ![r] = e]
        BY <1>0, <2>2 DEF Refreshes, RegistryStages, GoesTo
    <3> HIDE DEF e
    <3> QED BY <3>1 DEF RegistryInv, Known
  <2>3. EndsRefresh(r) \/ GoesTo(r, "resolving") \/ GoesTo(r, "fetching")
      BY DEF Updates, Onward
  <2> QED BY <2>1, <2>2, <2>3
<1>2. refresh'[r] = x /\ \A q \in ListRefreshes \ {r} : refresh'[q] = refresh[q]
    BY <1>0, <1>1
<1>3. UNCHANGED <<generation, registered, shelf, newest>>
    BY DEF Updates
<1>4. RegistryTypes'
    BY <1>0, <1>1, <1>3, Lists DEF RegistryInv, RegistryTypes
<1>5. Numbered'
    BY <1>0, <1>1, <1>2, <1>3 DEF RegistryInv, RegistryTypes, Numbered
<1>6. Known'
    BY <1>1, <1>2, <1>3 DEF RegistryInv, Known
<1>7. ~overtook' => \A q \in ListRefreshes : Abreast(q)'
    BY <1>1, <1>2, <1>3, Lists DEF RegistryInv, Abreast
<1> QED BY <1>4, <1>5, <1>6, <1>7, Lists DEF RegistryInv

LEMMA RegistryNextInv == RegistryInv /\ [RegistryNext]_registryVars => RegistryInv'
<1> SUFFICES ASSUME RegistryInv, [RegistryNext]_registryVars PROVE RegistryInv'
    OBVIOUS
<1>1. CASE /\ UNCHANGED <<held, shelf, newest, refresh, overtook>> /\ registered' \in Nat
           /\ generation' \in {generation, generation + 1}
  <2>1. generation \in Nat /\ \A r \in ListRefreshes : refresh[r].gen \in Nat /\ refresh[r].gen <= generation
      BY DEF RegistryInv, RegistryTypes, Refreshes, Numbered
  <2>2. RegistryTypes'
      BY <1>1, <2>1 DEF RegistryInv, RegistryTypes
  <2>3. Numbered' /\ Known'
      BY <1>1, <2>1 DEF RegistryInv, Numbered, Known
  <2>4. \A r \in ListRefreshes : Abreast(r) => Abreast(r)'
      BY <1>1, <2>1 DEF Abreast
  <2> QED BY <1>1, <2>2, <2>3, <2>4 DEF RegistryInv
<1>2. CASE OwnerSupersedes \/ OwnerChanges \/ (\E r \in ListRefreshes : SignalCancelled(r)) \/ UNCHANGED registryVars
  <2>1. registered \in Nat
      BY DEF RegistryInv, RegistryTypes
  <2> QED BY <1>1, <1>2, <2>1 DEF OwnerSupersedes, OwnerChanges, SignalCancelled, registryVars
<1>3. ASSUME NEW r \in ListRefreshes, ListsProviders(r) \/ RefreshSteps(r) \/ Awaited(r)
      PROVE  RegistryInv'
    BY <1>3, ListsProvidersSafe, TakesGenerationSafe, TakesControllerSafe, HandsOnSafe, IsDroppedSafe,
       ReadsCredentialSafe, ReadsStoreSafe, ResolvesCredentialSafe, RegistryFetchesSafe, ChecksFirstSafe,
       WritesStoreSafe, ChecksAgainSafe, UpdatesSafe
       DEF RefreshSteps, Awaited
<1> QED BY <1>2, <1>3 DEF RegistryNext

\* Neither the store nor a provider goes back to an older catalogue, and no provider is
\* ahead of the store, unless a publication was overtaken between its check and its act.
THEOREM CataloguesGoForward == RegistrySpec => CatalogueKept
<1>1. RegistryInv /\ [RegistryNext]_registryVars =>
         [~overtook' => /\ shelf <= shelf'
                        /\ \A o \in Objects : held[o] <= held'[o] /\ held'[o] <= shelf']_registryVars
  <2> SUFFICES ASSUME RegistryInv, RegistryNext, ~overtook'
               PROVE  shelf <= shelf' /\ \A o \in Objects : held[o] <= held'[o] /\ held'[o] <= shelf'
      OBVIOUS
  <2>1. shelf \in Nat /\ held \in [Objects -> Nat]
      BY DEF RegistryInv, RegistryTypes
  <2>2. CASE UNCHANGED <<shelf, held, overtook>>
      BY <2>1, <2>2 DEF RegistryInv
  <2>3. ASSUME NEW r \in ListRefreshes, WritesStore(r), ~UNCHANGED <<shelf, overtook>>
        PROVE  shelf <= shelf' /\ \A o \in Objects : held[o] <= held'[o] /\ held'[o] <= shelf'
    <3>1. /\ shelf' = refresh[r].value /\ refresh[r].at = "writing" /\ held' = held
          /\ ~overtook /\ refresh[r].checked = generation
        BY <2>3 DEF WritesStore
    <3>2. refresh[r].gen = generation /\ shelf' \in Nat
        BY <3>1 DEF RegistryInv, RegistryTypes, Refreshes, Numbered
    <3>3. shelf <= shelf' /\ \A o \in Objects : held[o] <= shelf
        BY <3>1, <3>2 DEF RegistryInv, Abreast
    <3> QED BY <2>1, <3>1, <3>2, <3>3
  <2>4. ASSUME NEW r \in ListRefreshes, Updates(r)
        PROVE  shelf <= shelf' /\ \A o \in Objects : held[o] <= held'[o] /\ held'[o] <= shelf'
    <3>1. shelf' = shelf
        BY <2>4 DEF Updates
    <3> QED BY <2>1, <2>4, <3>1, Lists
  <2>5. UNCHANGED <<shelf, held, overtook>> \/ \E r \in ListRefreshes : WritesStore(r) \/ Updates(r)
      BY DEF RegistryNext, ListsProviders, RefreshSteps, TakesGeneration, TakesController, HandsOn, IsDropped,
             ChecksFirst, ChecksAgain, Awaited, ReadsCredential, ReadsStore, ResolvesCredential, Fetches,
             SignalCancelled, OwnerSupersedes, OwnerChanges, RefreshOnly
  <2>6. \A r \in ListRefreshes : WritesStore(r) => held' = held
      BY DEF WritesStore
  <2> QED BY <2>2, <2>3, <2>4, <2>5, <2>6
<1>2. RegistrySpec => RegistryInit /\ [][RegistryNext]_registryVars
    BY DEF RegistrySpec
<1> QED BY <1>1, <1>2, RegistryInitInv, RegistryNextInv, PTL DEF CatalogueKept

(************************** Logins in a browser **************************)

BrowserTypes ==
    /\ site \in {"anthropic", "codex", "openrouter", "radius"}
    /\ tab \in [Tabs -> {"away", "accepted", "checked", "exchanging", "done"}]
    /\ brings \in [Tabs -> {"code", "foreign", "denied", "empty"}]
    /\ wait \in {"open", "none", "error", "key", "callback"}
    /\ pasted \in {"nothing", "error", "blank", "own", "foreign"}

Brought == \E t \in Tabs : tab[t] = "done" /\ brings[t] = "code"

\* Only OpenRouter's tabs exchange the code, and only its wait ends with a key or an error.
OwnWays ==
    IF site = "openrouter" THEN wait # "callback"
    ELSE /\ wait \in {"open", "none", "callback"}
         /\ \A t \in Tabs : tab[t] \notin {"checked", "exchanging"}

BrowserInv == BrowserTypes /\ OwnWays /\ (wait = "callback" => Brought) /\ OwnCodeOnly

\* What has been served stays so.
LEMMA ServedStays ==
    ASSUME BrowserTypes, NEW t \in Tabs, tab[t] # "done", NEW where, tab' = [tab EXCEPT ![t] = where],
           UNCHANGED brings, Brought
    PROVE  Brought'
BY DEF BrowserTypes, Brought

\* A step that leaves the tabs alone and hands no code on.
LEMMA NothingHanded ==
    ASSUME BrowserInv, UNCHANGED <<site, tab, brings, used>>,
           wait' = wait \/ (wait' \in {"none", "error", "key"} /\ (site # "openrouter" => wait' = "none")),
           pasted' \in {"nothing", "error", "blank", "own", "foreign"}
    PROVE  BrowserInv'
BY DEF BrowserInv, BrowserTypes, OwnWays, OwnCodeOnly, Brought

\* A tab is served; what settles the wait is its code, if anything of it does.
LEMMA TabMoves ==
    ASSUME BrowserInv, NEW t \in Tabs, tab[t] # "done",
           NEW where \in {"accepted", "checked", "exchanging", "done"}, tab' = [tab EXCEPT ![t] = where],
           UNCHANGED <<site, brings, used, pasted>>,
           site # "openrouter" => where \in {"accepted", "done"},
           \/ wait' = wait
           \/ site # "openrouter" /\ wait' = "callback" /\ where = "done" /\ brings[t] = "code"
           \/ site # "openrouter" /\ wait' = "none"
           \/ site = "openrouter" /\ wait' \in {"none", "error", "key"}
    PROVE  BrowserInv'
<1>1. BrowserTypes /\ (Brought => Brought')
    BY ServedStays DEF BrowserInv
<1>2. BrowserTypes'
    BY <1>1 DEF BrowserTypes
<1>3. tab'[t] = where /\ \A x \in Tabs \ {t} : tab'[x] = tab[x]
    BY <1>1 DEF BrowserTypes
<1>4. OwnWays'
    BY <1>3 DEF BrowserInv, OwnWays
<1>5. wait' = "callback" => Brought'
    BY <1>1, <1>3 DEF BrowserInv, OwnWays, Brought
<1>6. OwnCodeOnly'
    BY <1>1 DEF BrowserInv, OwnCodeOnly, Brought
<1> QED BY <1>2, <1>4, <1>5, <1>6 DEF BrowserInv

LEMMA BrowserInitInv == BrowserInit => BrowserInv
BY SitesAssumption DEF BrowserInit, BrowserInv, BrowserTypes, OwnWays, OwnCodeOnly

LEMMA BrowserNextInv == BrowserInv /\ [BrowserNext]_browserVars => BrowserInv'
<1> SUFFICES ASSUME BrowserInv, [BrowserNext]_browserVars PROVE BrowserInv'
    OBVIOUS
<1>0. BrowserTypes /\ OwnWays
    BY DEF BrowserInv
<1>1. CASE ChooseMethod \/ CodeExchanged \/ StopLogin \/ Frees \/ UNCHANGED browserVars
    BY <1>0, <1>1, NothingHanded DEF ChooseMethod, CodeExchanged, StopLogin, Frees, browserVars, BrowserTypes
<1>2. CASE Opens
    BY <1>0, <1>2, NothingHanded DEF Opens, BrowserTypes
<1>3. CASE PromptAnswered
    BY <1>0, <1>3, NothingHanded DEF PromptAnswered
<1>4. CASE HandsOver \/ SettlesUnclaimed \/ HearsStop \/ Expires
  <2>1. UNCHANGED <<site, tab, brings, used, pasted>>
      BY <1>4 DEF HandsOver, SettlesUnclaimed, HearsStop, Expires
  <2>2. wait' = wait \/ (wait' \in {"none", "error"} /\ (site # "openrouter" => wait' = "none"))
      BY <1>4 DEF HandsOver, SettlesUnclaimed, HearsStop, Expires, SettleWait
  <2> QED BY <1>0, <2>1, <2>2, NothingHanded DEF BrowserTypes
<1>5. CASE GoesOn \/ TakesPasted
  <2>1. UNCHANGED <<site, wait, tab, brings, pasted>>
      BY <1>5 DEF GoesOn, TakesPasted
  <2>2. \/ used' = used
        \/ used' = "callback" /\ wait = "callback"
        \/ used' = "own"
        \/ used' = pasted /\ site = "openrouter" /\ pasted \in {"own", "foreign"}
    <3>1. ASSUME ExchangesPasted PROVE used' \in {used, "own"}
        BY <1>0, <3>1 DEF ExchangesPasted, Fails, Exchanges, BrowserTypes
    <3>2. CASE TakesPasted
        BY <3>1, <3>2 DEF TakesPasted, Fails, Exchanges
    <3>3. ASSUME AnthropicGoesOn \/ CodexGoesOn, wait \in {"none", "callback"}
          PROVE  used' \in {used, "own"} \/ (used' = "callback" /\ wait = "callback")
        BY <1>0, <3>1, <3>3 DEF AnthropicGoesOn, CodexGoesOn, Fails, Exchanges, BrowserTypes
    <3>4. CASE GoesOn
      <4>1. CASE AnthropicGoesOn \/ CodexGoesOn
          BY <1>0, <3>3, <3>4, <4>1 DEF GoesOn, OwnWays, AnthropicGoesOn, CodexGoesOn
      <4>2. CASE OpenRouterGoesOn \/ RadiusGoesOn
          BY <4>2 DEF OpenRouterGoesOn, RadiusGoesOn, Fails, Exchanges
      <4> QED BY <3>4, <4>1, <4>2 DEF GoesOn
    <3> QED BY <1>5, <3>2, <3>4
  <2>3. BrowserTypes' /\ OwnWays' /\ (Brought' <=> Brought)
      BY <1>0, <2>1 DEF BrowserTypes, OwnWays, Brought
  <2> QED BY <2>1, <2>2, <2>3 DEF BrowserInv, OwnCodeOnly, Brought
<1>6. ASSUME NEW t \in Tabs, Arrives(t) \/ Serves(t) \/ OpenRouterExchanged(t)
      PROVE  BrowserInv'
  <2>1. CASE Arrives(t)
      BY <1>0, <2>1, TabMoves DEF Arrives
  <2>2. CASE AnthropicServes(t) \/ CodexServes(t)
      BY <1>0, <2>2, TabMoves DEF AnthropicServes, CodexServes, Served, SettleWait, NoSettle
  <2>3. CASE RadiusServes(t)
    <3>1. brings[t] \in {"code", "foreign", "denied", "empty"}
        BY <1>0 DEF BrowserTypes
    <3> QED BY <1>0, <2>3, <3>1, TabMoves DEF RadiusServes, Served, SettleWait, NoSettle
  <2>4. CASE OpenRouterChecks(t)
      BY <1>0, <2>4, TabMoves DEF OpenRouterChecks, Served, SettleWait, NoSettle
  <2>5. CASE OpenRouterClaims(t)
    <3>1. site = "openrouter"
        BY <1>0, <2>5 DEF OwnWays, OpenRouterClaims
    <3> QED BY <1>0, <2>5, <3>1, TabMoves DEF OpenRouterClaims, SettleWait, NoSettle
  <2>6. CASE OpenRouterExchanged(t)
    <3>1. site = "openrouter"
        BY <1>0, <2>6 DEF OwnWays, OpenRouterExchanged
    <3> QED BY <1>0, <2>6, <3>1, TabMoves DEF OpenRouterExchanged, Served, SettleWait
  <2> QED BY <1>6, <2>1, <2>2, <2>3, <2>4, <2>5, <2>6 DEF Serves
<1> QED BY <1>1, <1>2, <1>3, <1>4, <1>5, <1>6 DEF BrowserNext

\* Where a login has a state to compare, no code with the state of another is exchanged,
\* whatever the browser's tabs, the prompt and the signal settle in the meantime; and the
\* code of a tab is exchanged only after a tab brought the login's own.
THEOREM OnlyOwnCodes == BrowserSpec => []OwnCodeOnly
<1>1. BrowserSpec => BrowserInit /\ [][BrowserNext]_browserVars
    BY DEF BrowserSpec
<1>2. BrowserInv => OwnCodeOnly
    BY DEF BrowserInv
<1> QED BY <1>1, <1>2, BrowserInitInv, BrowserNextInv, PTL

(*********************** Logins on another device ************************)

LEMMA DivMod ==
    ASSUME NEW d \in Nat \ {0}, NEW m \in Nat
    PROVE  m \div d \in Nat /\ m = d * (m \div d) + (m % d) /\ m % d \in 0..(d - 1)
OBVIOUS

\* A multiple of d leaves nothing.
LEMMA NoRest ==
    ASSUME NEW d \in Nat \ {0}, NEW k \in Nat, NEW r \in 0..(d - 1), NEW q \in Nat, d * k = d * q + r
    PROVE  r = 0
<1>1. d * (k - q) = r
    OBVIOUS
<1>2. CASE k - q >= 1
  <2>1. d * (k - q) >= d
      BY <1>2
  <2> QED BY <1>1, <2>1
<1>3. CASE k - q <= -1
  <2>1. d * (k - q) <= -d
      BY <1>3
  <2> QED BY <1>1, <2>1
<1>4. CASE k = q
    BY <1>1, <1>4
<1> QED BY <1>2, <1>3, <1>4

LEMMA WholeSum ==
    ASSUME NEW d \in Nat \ {0}, NEW m \in Nat, NEW n \in Nat, m % d = 0, n % d = 0
    PROVE  (m + n) % d = 0
<1> DEFINE a == m \div d
           b == n \div d
           c == (m + n) \div d
           e == (m + n) % d
<1>1. a \in Nat /\ b \in Nat /\ m = d * a /\ n = d * b
    BY DivMod
<1>2. c \in Nat /\ m + n = d * c + e /\ e \in 0..(d - 1)
  <2>1. m + n \in Nat
      OBVIOUS
  <2> QED BY <2>1, DivMod
<1> HIDE DEF a, b, c, e
<1>3. d * a + d * b = d * (a + b)
    BY <1>1
<1>4. d * (a + b) = d * c + e
    BY <1>1, <1>2, <1>3
<1>5. e = 0
    BY <1>1, <1>2, <1>4, NoRest
<1> QED BY <1>5 DEF e

\* A sleep is the whole interval, or leaves less than a millisecond of the code's life.
LEMMA Naps ==
    ASSUME NEW l \in Nat, NEW i \in Nat, WholeTime(i)
    PROVE  Nap(l, i) \in Nat /\ (Nap(l, i) >= i \/ l < Nap(l, i) + Millisecond)
<1>1. Millisecond \in Nat \ {0}
    BY DeviceAssumption
<1>2. CASE l < i
  <2>1. Nap(l, i) = l - (l % Millisecond)
      BY <1>2 DEF Nap, Least
  <2>2. l % Millisecond \in 0..(Millisecond - 1) /\ l - (l % Millisecond) \in Nat
      BY <1>1
  <2> QED BY <1>1, <2>1, <2>2
<1>3. CASE ~(l < i)
    BY <1>1, <1>3 DEF Nap, Least, WholeTime
<1> QED BY <1>2, <1>3

-----------------------------------------------------------------------------
DeviceTypes ==
    /\ issuer \in {"codex", "radius", "kimi", "copilot", "xai"} /\ revoked \in BOOLEAN
    /\ left \in Nat /\ interval \in Nat /\ owed \in 0..LongAgo /\ since \in 0..LongAgo

\* The pause is at least what the server asked for, and whole.
Asked == owed <= interval /\ WholeTime(interval)

\* When the sleep is over, the pause is, or the code's life but for a millisecond.
Slept == stage = "waiting" => sleep \in Nat /\ (since + sleep >= owed \/ left < sleep + Millisecond)

DeviceInv == DeviceTypes /\ Asked /\ Slept

LEMMA Seconds ==
    /\ LongAgo \in Nat /\ MinInterval \in Nat /\ DefaultInterval \in Nat /\ SlowDownBy \in Nat
    /\ Millisecond \in Nat \ {0}
    /\ DefaultInterval <= LongAgo /\ MinInterval <= DefaultInterval
    /\ WholeTime(0) /\ WholeTime(LongAgo) /\ WholeTime(MinInterval) /\ WholeTime(DefaultInterval) /\ WholeTime(SlowDownBy)
<1>1. /\ MinInterval \in Nat /\ DefaultInterval \in Nat /\ SlowDownBy \in Nat /\ Millisecond \in Nat \ {0}
      /\ MinInterval <= DefaultInterval
      /\ WholeTime(MinInterval) /\ WholeTime(DefaultInterval) /\ WholeTime(SlowDownBy)
    BY DeviceAssumption
<1>2. WholeTime(LongAgo)
    BY <1>1, WholeSum DEF WholeTime, LongAgo
<1>3. WholeTime(0)
  <2>1. 0 % Millisecond = 0
      BY <1>1
  <2> QED BY <2>1 DEF WholeTime
<1> QED BY <1>1, <1>2, <1>3 DEF LongAgo

LEMMA DeviceInitInv == DeviceInit => DeviceInv
<1> SUFFICES ASSUME DeviceInit PROVE DeviceInv
    OBVIOUS
<1>1. left = 0 /\ interval = 0 /\ owed = 0 /\ since = LongAgo /\ revoked = FALSE /\ stage # "waiting"
    BY DEF DeviceInit
<1>2. issuer \in {"codex", "radius", "kimi", "copilot", "xai"}
    BY DeviceAssumption DEF DeviceInit
<1>3. revoked \in BOOLEAN /\ LongAgo \in Nat /\ WholeTime(0)
    BY <1>1, Seconds
<1> QED BY <1>1, <1>2, <1>3 DEF DeviceInv, DeviceTypes, Asked, Slept

\* A step to a stage that is none of the loop's sleeps.
LEMMA Elsewhere ==
    ASSUME DeviceInv, stage' # "waiting", issuer' = issuer, revoked' = revoked, left' \in Nat,
           \/ interval' = interval /\ owed' = owed /\ since' = since
           \/ interval' = 0 /\ owed' = 0 /\ since' = LongAgo
    PROVE  DeviceInv'
BY Seconds DEF DeviceInv, DeviceTypes, Asked, Slept

LEMMA EndsSafe ==
    ASSUME DeviceInv, NEW how \in {"in", "out"}, Ends(how)
    PROVE  DeviceInv'
BY Elsewhere DEF Ends, Moves, Stops

LEMMA AnswersSafe ==
    ASSUME DeviceInv, NEW where \in {"listing", "enabling"}, FetchesModels(where)
    PROVE  DeviceInv'
<1>1. left' \in Nat
    BY DeviceAssumption DEF FetchesModels
<1> QED BY <1>1, Elsewhere DEF FetchesModels, AsksFor

LEMMA EnablesSafe ==
    ASSUME DeviceInv, NEW n, EnablesNext(n)
    PROVE  DeviceInv'
BY EndsSafe, AnswersSafe DEF EnablesNext

LEMMA ModelFailsSafe ==
    ASSUME DeviceInv, NEW limited, ModelFails(limited)
    PROVE  DeviceInv'
<1>1. Ends("out") \/ \E n : EnablesNext(n)
    BY DEF ModelFails
<1> QED BY <1>1, EndsSafe, EnablesSafe

\* A step to a stage without a sleep, which keeps the timers.
LEMMA GoesElsewhere ==
    ASSUME DeviceInv, stage' # "waiting", UNCHANGED <<issuer, left, interval, owed, since, revoked>>
    PROVE  DeviceInv'
BY Elsewhere DEF DeviceInv, DeviceTypes

\* The loop sleeps, or ends.
LEMMA SleepsSafe ==
    ASSUME DeviceInv, issuer' = issuer, revoked' = revoked, left' \in Nat,
           interval' \in Nat, owed' \in 0..LongAgo, since' \in 0..LongAgo, owed' <= interval', WholeTime(interval'),
           \/ stage' # "waiting"
           \/ stage' = "waiting" /\ sleep' = Nap(left', interval')
           \/ stage' = "waiting" /\ sleep' = 0 /\ (since' = LongAgo \/ left' = 0)
    PROVE  DeviceInv'
<1>1. stage' = "waiting" => sleep' \in Nat /\ (since' + sleep' >= owed' \/ left' < sleep' + Millisecond)
  <2>1. CASE sleep' = Nap(left', interval')
    <3>1. sleep' \in Nat /\ (sleep' >= interval' \/ left' < sleep' + Millisecond)
        BY <2>1, Naps
    <3>2. since' \in Nat /\ interval' \in Nat /\ owed' \in Nat
        BY Seconds
    <3>3. sleep' >= interval' => since' + sleep' >= owed'
      <4>1. ASSUME NEW a \in Nat, NEW b \in Nat, NEW c \in Nat, NEW d \in Nat, a >= b, c <= b
            PROVE  d + a >= c
          BY <4>1
      <4>2. sleep' \in Nat /\ owed' <= interval'
          BY <3>1
      <4> QED BY <3>2, <4>1, <4>2
    <3> QED BY <3>1, <3>3
  <2>2. CASE sleep' = 0 /\ (since' = LongAgo \/ left' = 0)
    <3>1. owed' <= LongAgo /\ owed' \in Nat /\ since' \in Nat /\ Millisecond \in Nat \ {0}
        BY Seconds
    <3>2. sleep' \in Nat /\ sleep' = 0
        BY <2>2
    <3>3. CASE since' = LongAgo
      <4>1. since' + sleep' >= owed'
          BY <3>1, <3>2, <3>3
      <4> QED BY <3>2, <4>1
    <3>4. CASE left' = 0
      <4>1. left' < sleep' + Millisecond
          BY <3>1, <3>2, <3>4
      <4> QED BY <3>2, <4>1
    <3> QED BY <2>2, <3>3, <3>4
  <2> QED BY <2>1, <2>2
<1> QED BY <1>1 DEF DeviceInv, DeviceTypes, Asked, Slept, WholeTime

LEMMA StartedSafe ==
    ASSUME DeviceInv, Started
    PROVE  DeviceInv'
<1>1. CASE Ends("out")
    BY <1>1, EndsSafe
<1>2. CASE ~Ends("out")
  <2>1. PICK i \in Intervals, l \in Lifetimes :
          /\ ~(issuer = "codex" /\ i = Absent)
          /\ left' = LifetimeOf(l) /\ interval' = IntervalOf(i)
          /\ owed' = (IF i = Absent THEN DefaultInterval ELSE i)
          /\ since' = (IF WaitsFirst THEN 0 ELSE LongAgo)
          /\ IF WaitsFirst /\ left' > 0
             THEN IF revoked THEN sleep' = 0 /\ Moves("out")
                  ELSE sleep' = Nap(left', interval') /\ Moves("waiting")
             ELSE sleep' = 0 /\ Moves("waiting")
          /\ UNCHANGED <<issuer, retry, models, revoked>>
      BY <1>2 DEF Started
  <2>2. left' \in Nat
      BY <2>1, DeviceAssumption DEF LifetimeOf
  <2>3. i = Absent \/ (i \in 0..LongAgo /\ WholeTime(i))
      BY DeviceAssumption
  <2>4. interval' \in Nat /\ owed' \in 0..LongAgo /\ owed' <= interval' /\ WholeTime(interval')
    <3>1. /\ issuer \in {"codex", "radius", "kimi", "copilot", "xai"}
          /\ interval' = (IF MinInterval < i THEN i
                          ELSE IF i = Absent \/ (issuer \in {"kimi", "xai"} /\ i = 0)
                               THEN DefaultInterval ELSE MinInterval)
        BY <2>1, <2>3, Seconds DEF IntervalOf, Greatest, CodexInterval, RadiusInterval, KimiInterval,
                                   CopilotInterval, XaiInterval, Absent, DeviceInv, DeviceTypes
    <3> QED BY <2>1, <2>3, <3>1, Seconds DEF Absent
  <2>5. since' \in 0..LongAgo
      BY <2>1, Seconds
  <2>6. \/ stage' # "waiting"
        \/ stage' = "waiting" /\ sleep' = Nap(left', interval')
        \/ stage' = "waiting" /\ sleep' = 0 /\ (since' = LongAgo \/ left' = 0)
      BY <2>1, <2>2 DEF Moves
  <2> QED BY <2>1, <2>2, <2>4, <2>5, <2>6, SleepsSafe
<1> QED BY <1>1, <1>2

LEMMA NotYetSafe ==
    ASSUME DeviceInv, NEW slow \in BOOLEAN, NEW given \in {Absent} \cup {n \in 0..LongAgo : WholeTime(n)},
           NotYet(slow, given)
    PROVE  DeviceInv'
<1>1. /\ left' = left /\ left' \in Nat /\ since' = 0 /\ since' \in 0..LongAgo
      /\ issuer' = issuer /\ revoked' = revoked
    BY Seconds DEF NotYet, DeviceInv, DeviceTypes
<1>2. interval' \in Nat /\ owed' \in 0..LongAgo /\ owed' <= interval' /\ WholeTime(interval')
  <2>1. interval \in Nat /\ owed \in 0..LongAgo /\ owed <= interval /\ WholeTime(interval)
      BY DEF DeviceInv, DeviceTypes, Asked
  <2>2. CASE ~slow
      BY <2>1, <2>2 DEF NotYet
  <2>3. CASE slow /\ given > 0
    <3>1. given \in 0..LongAgo /\ WholeTime(given)
        BY <2>3 DEF Absent
    <3>2. interval' = (IF Greatest(MinInterval, given) < LongAgo THEN Greatest(MinInterval, given) ELSE LongAgo)
        BY <2>3 DEF NotYet, Slower, Bounded, Least
    <3>3. owed' = given
        BY <2>3 DEF NotYet
    <3> QED BY <3>1, <3>2, <3>3, Seconds DEF Greatest
  <2>4. CASE slow /\ ~(given > 0)
    <3>1. WholeTime(interval + SlowDownBy)
        BY <2>1, Seconds, WholeSum DEF WholeTime
    <3>2. interval' = (IF interval + SlowDownBy < LongAgo THEN interval + SlowDownBy ELSE LongAgo)
        BY <2>4 DEF NotYet, Slower, Bounded, Least
    <3>3. owed' = (IF owed + SlowDownBy < LongAgo THEN owed + SlowDownBy ELSE LongAgo)
        BY <2>4 DEF NotYet, Bounded, Least
    <3> QED BY <2>1, <3>1, <3>2, <3>3, Seconds
  <2> QED BY <2>2, <2>3, <2>4
<1>3. stage' # "waiting" \/ (stage' = "waiting" /\ sleep' = Nap(left', interval'))
    BY <1>1 DEF NotYet, Moves
<1> QED BY <1>1, <1>2, <1>3, SleepsSafe

LEMMA PollAnsweredSafe ==
    ASSUME DeviceInv, PollAnswered
    PROVE  DeviceInv'
<1>1. PICK a \in Replies :
        CASE Reads(a) = "complete"  -> Complete
          [] Reads(a) = "failed"    -> Ends("out")
          [] Reads(a) = "pending"   -> NotYet(FALSE, Absent)
          [] Reads(a) = "slow_down" -> NotYet(TRUE, NewInterval(a))
    BY DEF PollAnswered
<1>2. Reads(a) \in {"complete", "failed", "pending", "slow_down"}
    BY DEF Reads, CodexReads, RadiusReads, KimiReads, CopilotReads, XaiReads, ByName, DeviceInv, DeviceTypes
<1>3. NewInterval(a) \in {Absent} \cup {n \in 0..LongAgo : WholeTime(n)}
    BY Seconds DEF NewInterval, Replies
<1>4. CASE Complete
  <2>1. CASE issuer \in {"codex", "copilot"}
      BY <1>4, <2>1, Elsewhere DEF Complete, AsksFor, Stops
  <2>2. CASE issuer \notin {"codex", "copilot"}
      BY <1>4, <2>2, Elsewhere DEF Complete, Moves, Stops
  <2> QED BY <2>1, <2>2
<1>5. CASE Ends("out")
    BY <1>5, EndsSafe
<1>6. CASE NotYet(FALSE, Absent)
    BY <1>6, NotYetSafe
<1>7. CASE NotYet(TRUE, NewInterval(a))
    BY <1>3, <1>7, NotYetSafe
<1> QED BY <1>1, <1>2, <1>4, <1>5, <1>6, <1>7

LEMMA RequestsSafe ==
    ASSUME DeviceInv,
           TokenExchanged \/ RateLimited \/ FetchAnswered \/ Refreshed \/ RequestFails \/ CutShort
    PROVE  DeviceInv'
<1>1. ASSUME RefreshPause PROVE DeviceInv'
    BY <1>1, GoesElsewhere DEF RefreshPause, Moves
<1>2. CASE TokenExchanged
    BY <1>2, EndsSafe, AnswersSafe DEF TokenExchanged
<1>3. CASE RateLimited
  <2>1. ASSUME NEW d \in Delays, stage' = stage, UNCHANGED <<issuer, left, interval, owed, since, revoked>>
        PROVE  DeviceInv'
      BY <1>3, <2>1, GoesElsewhere DEF RateLimited
  <2>2. Ends("out") \/ ModelFails(TRUE)
           \/ (stage' = stage /\ UNCHANGED <<issuer, left, interval, owed, since, revoked>>)
      BY <1>3 DEF RateLimited
  <2>3. stage \in {"listing", "enabling"}
      BY <1>3 DEF RateLimited
  <2> QED BY <2>2, <2>3, EndsSafe, ModelFailsSafe, GoesElsewhere
<1>4. CASE FetchAnswered
    BY <1>4, EndsSafe, EnablesSafe DEF FetchAnswered, Listed
<1>5. CASE Refreshed
    BY <1>1, <1>5, EndsSafe DEF Refreshed
<1>6. CASE RequestFails
  <2>1. RefreshPause \/ Ends("out") \/ ModelFails(FALSE)
      BY <1>6 DEF RequestFails
  <2> QED BY <1>1, <2>1, EndsSafe, ModelFailsSafe
<1>7. CASE CutShort
    BY <1>7, EndsSafe DEF CutShort
<1> QED BY <1>2, <1>3, <1>4, <1>5, <1>6, <1>7

LEMMA TickSafe ==
    ASSUME DeviceInv, Tick
    PROVE  DeviceInv'
<1>1. /\ left \in Nat /\ since \in 0..LongAgo /\ owed \in 0..LongAgo /\ LongAgo \in Nat /\ Millisecond \in Nat \ {0}
      /\ left' = (IF 0 < left - 1 THEN left - 1 ELSE 0)
      /\ since' = (IF LongAgo < since + 1 THEN LongAgo ELSE since + 1)
      /\ UNCHANGED <<issuer, stage, interval, owed, revoked>>
    BY Seconds DEF Tick, Greatest, Least, DeviceInv, DeviceTypes
<1>2. left' \in Nat /\ since' \in 0..LongAgo
    BY <1>1
<1>3. ASSUME stage = "waiting"
      PROVE  sleep' \in Nat /\ (since' + sleep' >= owed \/ left' < sleep' + Millisecond)
  <2>1. /\ sleep \in Nat /\ (since + sleep >= owed \/ left < sleep + Millisecond)
        /\ sleep' = (IF 0 < sleep - 1 THEN sleep - 1 ELSE 0)
      BY <1>3 DEF DeviceInv, Slept, Tick, Greatest
  <2> QED BY <1>1, <2>1
<1> QED BY <1>1, <1>2, <1>3 DEF DeviceInv, DeviceTypes, Asked, Slept, WholeTime

LEMMA DeviceNextInv == DeviceInv /\ [DeviceNext]_deviceVars => DeviceInv'
<1> SUFFICES ASSUME DeviceInv, [DeviceNext]_deviceVars PROVE DeviceInv'
    OBVIOUS
<1>1. CASE UNCHANGED deviceVars \/ HeadArrives \/ Revoke
  <2>1. UNCHANGED <<issuer, stage, left, sleep, interval, owed, since>> /\ revoked' \in BOOLEAN
      BY <1>1 DEF deviceVars, HeadArrives, Revoke, Timers, DeviceInv, DeviceTypes
  <2> QED BY <2>1 DEF DeviceInv, DeviceTypes, Asked, Slept, WholeTime
<1>2. CASE Choose
  <2>1. CASE Ends("out")
      BY <2>1, EndsSafe
  <2>2. CASE AsksFor("starting") /\ UNCHANGED <<issuer, Timers, revoked>>
      BY <2>2, GoesElsewhere DEF AsksFor, Timers
  <2> QED BY <1>2, <2>1, <2>2 DEF Choose
<1>3. CASE Wakes \/ RetriesFetch \/ RefreshAgain
  <2>1. UNCHANGED <<issuer, left, interval, owed, since, revoked>> /\ stage' # "waiting"
      BY <1>3 DEF Wakes, RetriesFetch, RefreshAgain, Timers, Moves, AsksFor
  <2> QED BY <2>1, GoesElsewhere
<1> QED BY <1>1, <1>2, <1>3, StartedSafe, PollAnsweredSafe, RequestsSafe, TickSafe DEF DeviceNext

\* Whatever the server answers, no poll comes sooner after the answer to the one before, or
\* after the code, than it asked for, and none after the end of the code's life or of the
\* login; but for one in the last millisecond of that life.
THEOREM PollsKeepPace == DeviceSpec => PollsPaced
<1>1. DeviceInv /\ DeviceNext =>
         [(stage = "waiting" /\ stage' = "polling") =>
             /\ left > 0 /\ ~revoked
             /\ since >= owed \/ left < Millisecond]_deviceVars
  <2> SUFFICES ASSUME DeviceInv, DeviceNext, stage = "waiting", stage' = "polling"
               PROVE  left > 0 /\ ~revoked /\ (since >= owed \/ left < Millisecond)
      OBVIOUS
  <2>1. Wakes
      BY DEF DeviceNext, Choose, HeadArrives, Started, PollAnswered, TokenExchanged, RateLimited, RetriesFetch,
             FetchAnswered, Refreshed, RefreshAgain, RequestFails, CutShort, Revoke, Tick, Ends, Moves
  <2>2. sleep = 0 /\ left # 0 /\ ~revoked
      BY <2>1 DEF Wakes, Moves
  <2> QED BY <2>2, Seconds DEF DeviceInv, DeviceTypes, Slept
<1>2. DeviceSpec => DeviceInit /\ [][DeviceNext]_deviceVars
    BY DEF DeviceSpec
<1> QED BY <1>1, <1>2, DeviceInitInv, DeviceNextInv, PTL DEF PollsPaced
===============================================================================
