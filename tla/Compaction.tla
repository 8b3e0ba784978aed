------------------------------ MODULE Compaction ------------------------------
(***************************************************************************)
(* What a long session is cut down to (compaction/compaction.rs) and what  *)
(* is left of a branch that is abandoned (branch_summarization.rs).  A     *)
(* message stands for the facts it carries, a summary for those of what it *)
(* was made from.  When to compact and what to do with the outcome is the  *)
(* caller's: here any time the session is idle, and an entry at its end.   *)
(***************************************************************************)
EXTENDS Integers, Sequences, FiniteSets
LOCAL INSTANCE FiniteSetsExt
LOCAL INSTANCE SequencesExt

CONSTANTS KeepRecent, BranchBudget,      \* in tokens
          ResultSizes,                   \* of tool results; the other messages have size 1
          RetryPolicy,                   \* how often a summary is asked for again
          MaxFacts, MaxEntries, MaxSummaries           \* bounds

VARIABLES branch,              \* the entries of the branch
          work,              \* the summary that is being made
          facts              \* counted

compactionVars == <<branch, work, facts>>

Message(role, size, call, about) ==
    [kind |-> "message", role |-> role, size |-> size, call |-> call, facts |-> about]
BranchEntry(about)          == [kind |-> "branch", facts |-> about]
SummaryOf(about, kept) == [kind |-> "compaction", facts |-> about, tail |-> kept]
OtherEntry                  == [kind |-> "other"]

FactsOf(messages) == UNION {messages[i].facts : i \in DOMAIN messages}
Tokens(messages)  == FoldLeft(LAMBDA n, m : n + m.size, 0, messages)

\* A summary as a message is of one size; it does not start a turn once it is one.
MessageOf(entry) ==
    CASE entry.kind = "message" -> <<entry>>
      [] entry.kind \in {"branch", "compaction"} -> <<Message(entry.kind, 1, 0, entry.facts)>>
      [] OTHER -> <<>>

MessagesOf(entries) == FoldLeft(LAMBDA said, entry : said \o MessageOf(entry), <<>>, entries)

NoWork == [stage |-> "idle"]

\* A new session, or one that begins with a compaction, as a fork of a long one does.
CompactionInit ==
    /\ work = NoWork
    /\ \/ branch = <<>> /\ facts = 0
       \/ branch = <<SummaryOf({0}, <<Message("user", 1, 0, {1})>>)>> /\ facts = 1

(******************************* The session *******************************)

LastMessage == LET said == SelectSeq(branch, LAMBDA e : e.kind = "message") IN
               IF said = <<>> THEN Message("user", 1, 0, {}) ELSE said[Len(said)]

Summaries == Cardinality({i \in DOMAIN branch : branch[i].kind \in {"branch", "compaction"}})

Pending == LastMessage.role = "caller"

Grows(entry) == /\ Len(branch) < MaxEntries /\ work = NoWork
                /\ branch' = Append(branch, entry) /\ UNCHANGED work

Says(role, size, call) ==
    /\ facts < MaxFacts /\ facts' = facts + 1
    /\ Grows(Message(role, size, call, {facts + 1}))

\* A turn: a user message or a shell command, then answers, with a result for every call.
UserTurns    == ~Pending /\ Says("user", 1, 0)
ShellRuns      == LastMessage.role = "answer" /\ Says("bash", 1, 0)
AssistantCalls == ~Pending /\ LastMessage.role \in {"user", "result"} /\ Says("caller", 1, facts + 1)
AssistantEnds  == ~Pending /\ LastMessage.role \in {"user", "result"} /\ Says("answer", 1, 0)
ToolAnswers    == Pending /\ \E size \in ResultSizes : Says("result", size, LastMessage.call)
SettingChanges ==
    /\ branch # <<>> /\ \A i \in DOMAIN branch : branch[i].kind # "other"
    /\ Grows(OtherEntry) /\ UNCHANGED facts

(***************************** Where to cut ********************************)

LastCompaction(p) == LET at == {i \in DOMAIN p : p[i].kind = "compaction"} IN
                     IF at = {} THEN 0 ELSE Max(at)

\* What the last compaction retained comes back as messages.
Compactable(p) ==
    IF LastCompaction(p) = 0 THEN p
    ELSE p[LastCompaction(p)].tail \o SubSeq(p, LastCompaction(p) + 1, Len(p))

AnyMessageCuts(entry) == entry.kind \in {"message", "branch"}
CutsBefore(entry) == (entry.kind = "message" /\ entry.role # "result") \/ entry.kind = "branch"
CutPoints(entries) == {i \in DOMAIN entries : CutsBefore(entries[i])}

\* Only messages count.
RecentFrom(entries, i) ==
    Tokens(SelectSeq(SubSeq(entries, i, Len(entries)), LAMBDA e : e.kind = "message"))

\* The first cut point from the message on with which there are enough recent tokens; the
\* first of all if there is none.
FirstCut(entries) ==
    LET enough == {i \in DOMAIN entries :
                       entries[i].kind = "message" /\ RecentFrom(entries, i) >= KeepRecent}
        behind == IF enough = {} THEN {} ELSE {c \in CutPoints(entries) : c >= Max(enough)} IN
    IF behind = {} THEN Min(CutPoints(entries)) ELSE Min(behind)

\* What is no message goes with what follows it.
FindCutPoint(entries) ==
    IF CutPoints(entries) = {} THEN 1
    ELSE Min({k \in 1..FirstCut(entries) : \A j \in k..(FirstCut(entries) - 1) :
                  entries[j].kind \notin {"message", "compaction"}})

StartsTurn(entry) ==
    entry.kind = "branch" \/ (entry.kind = "message" /\ entry.role \in {"user", "bash"})

\* 0 if the cut is at a user message, or in no turn.
TurnStart(entries, cut) ==
    LET starts == {k \in 1..cut : StartsTurn(entries[k])} IN
    IF \/ entries[cut].kind = "message" /\ entries[cut].role = "user"
       \/ starts = {} \/ CutPoints(entries) = {} THEN 0
    ELSE Max(starts)

Prepared(p) ==
    LET entries == Compactable(p)
        cut     == FindCutPoint(entries)
        start   == TurnStart(entries, cut)
        until   == IF start # 0 THEN start ELSE cut
        Part(from, to) == MessagesOf(SubSeq(entries, from, to)) IN
    [history  |-> Part(1, until - 1),
     prefix   |-> IF start # 0 THEN Part(start, cut - 1) ELSE <<>>,
     tail     |-> Part(cut, Len(entries)),
     previous |-> IF LastCompaction(p) = 0 THEN {} ELSE p[LastCompaction(p)].facts]

(****************************** Making summaries ***************************)

Summarizing(stage, prepared, known) ==
    [stage |-> stage, prepared |-> prepared, known |-> known, attempt |-> 0,
     pausing |-> FALSE]

\* A split turn has a summary of its own, and with no messages before it no other; the
\* previous summary goes into the other.
BeginCompaction ==
    /\ work = NoWork /\ Summaries < MaxSummaries /\ UNCHANGED <<branch, facts>>
    /\ branch # <<>> /\ branch[Len(branch)].kind # "compaction" /\ ~Pending
    /\ LET prepared == Prepared(branch) IN
       work' = IF prepared.prefix # <<>> /\ prepared.history = <<>>
               THEN Summarizing("prefix", prepared, {})
               ELSE Summarizing("history", prepared, {})

\* The new entry; file lists are left out.
Compacts(known) ==
    branch' = Append(branch, SummaryOf(known, work.prepared.tail)) /\ work' = NoWork

Summarized ==
    /\ work.stage \in {"history", "prefix"} /\ ~work.pausing /\ UNCHANGED facts
    /\ LET told  == IF work.stage = "prefix" THEN FactsOf(work.prepared.prefix)
                    ELSE work.prepared.previous \union FactsOf(work.prepared.history)
           known == work.known \union told IN
       IF work.stage = "history" /\ work.prepared.prefix # <<>>
       THEN work' = Summarizing("prefix", work.prepared, known) /\ UNCHANGED branch
       ELSE Compacts(known)

\* retry_assistant_call: a transient error is tried again after a pause.
TriedAgain ==
    /\ work.stage \in {"history", "prefix", "branch"} /\ ~work.pausing /\ work.attempt < RetryPolicy
    /\ work' = [work EXCEPT !.attempt = @ + 1, !.pausing = TRUE]
    /\ UNCHANGED <<branch, facts>>

PauseEnds ==
    /\ work.stage # "idle" /\ work.pausing /\ work' = [work EXCEPT !.pausing = FALSE]
    /\ UNCHANGED <<branch, facts>>

\* An error that lasts, or the signal, in the request or in the pause: nothing is kept.
GivenUp == work # NoWork /\ work' = NoWork /\ UNCHANGED <<branch, facts>>

(***************************** Leaving a branch ****************************)

\* The newest messages that fit, without tool results; a summary may exceed what is left
\* of a budget that is not nearly used up.
FitsBranch(size, used, summary) ==
    used + size <= BranchBudget \/ (summary /\ used * 10 < BranchBudget * 9)

BranchTail(entries) ==
    FoldRight(LAMBDA entry, kept :
                  LET said == IF entry.kind = "message" /\ entry.role = "result" THEN <<>> ELSE MessageOf(entry)
                      used == Tokens(kept.said)
                  IN IF kept.full \/ said = <<>> THEN kept
                     ELSE [full |-> used + said[1].size > BranchBudget,
                           said |-> IF FitsBranch(said[1].size, used, entry.kind # "message")
                                    THEN said \o kept.said ELSE kept.said],
              entries, [full |-> FALSE, said |-> <<>>]).said

\* The entries below the common ancestor are summarised; with none to tell, in no request.
LeaveBranch ==
    /\ work = NoWork /\ branch # <<>> /\ ~Pending /\ Summaries < MaxSummaries /\ UNCHANGED <<branch, facts>>
    /\ \E ancestor \in 0..(Len(branch) - 1) :
          LET said == BranchTail(SubSeq(branch, ancestor + 1, Len(branch))) IN
          /\ ~(ancestor > 0 /\ branch[ancestor].kind = "message" /\ branch[ancestor].role = "caller")
          /\ said # <<>>
          /\ work' = [stage |-> "branch", ancestor |-> ancestor, known |-> FactsOf(said),
                      attempt |-> 0, pausing |-> FALSE]

BranchSummarized ==
    /\ work.stage = "branch" /\ ~work.pausing /\ work' = NoWork /\ UNCHANGED facts
    /\ branch' = Append(SubSeq(branch, 1, work.ancestor), BranchEntry(work.known))

CompactionNext ==
    \/ UserTurns \/ ShellRuns \/ AssistantCalls \/ AssistantEnds \/ ToolAnswers \/ SettingChanges
    \/ BeginCompaction \/ Summarized \/ TriedAgain \/ PauseEnds \/ GivenUp
    \/ LeaveBranch \/ BranchSummarized

(******************************** Properties *******************************)

Compactions == {i \in DOMAIN branch : i > 1 /\ branch[i].kind = "compaction"}

\* No result in the tail of a compaction has lost its call.
TailComplete ==
    \A c \in Compactions : LET tail == branch[c].tail IN
        \A i \in DOMAIN tail : tail[i].role = "result" =>
            \E j \in 1..(i - 1) : tail[j].role = "caller" /\ tail[j].call = tail[i].call

\* A compaction knows or keeps all that it replaced: what the last one knew and kept, and
\* the messages since.  A turn that is split with nothing before it is the exception.
NothingForgotten ==
    \A c \in Compactions :
        LET before   == SubSeq(branch, 1, c - 1)
            replaced == FactsOf(MessagesOf(Compactable(before)))
            knows    == branch[c].facts \union FactsOf(branch[c].tail)
            prepared == Prepared(before) IN
        /\ replaced \subseteq knows
        /\ prepared.previous \subseteq knows \/ (prepared.prefix # <<>> /\ prepared.history = <<>>)

\* A compaction keeps the conversation whole (find_cut_point, prepare_compaction, compact).
CompactionKeeps == TailComplete /\ NothingForgotten
=============================================================================
