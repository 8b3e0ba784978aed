------------------------------- MODULE EditText -------------------------------
(***************************************************************************)
(* What the edit tool makes of a file (src/agent/harness/tools/edit.rs,    *)
(* edit_diff.rs): every old text is looked for in the original content, as *)
(* it is or after both were normalized, must occur once, and is replaced;  *)
(* then the lines of both contents are compared for the patch.  A text is  *)
(* a sequence of characters of the kinds that this tells apart: "fancy" is *)
(* one that is normalized to "x".                                          *)
(***************************************************************************)
EXTENDS Naturals, Sequences, FiniteSets
LOCAL INSTANCE SequencesExt
LOCAL INSTANCE FiniteSetsExt

CONSTANTS Contents,    \* the files
          Wishes,      \* the lists of edits that a call may ask for: records old, new
          OldLines, NewLines,   \* the contents whose lines are compared, line by line
          Context      \* the lines of context around a change

ASSUME EditAssumption ==
    /\ \A w \in Wishes : w # <<>> /\ \A i \in DOMAIN w : DOMAIN w[i] = {"old", "new"}
    /\ Context \in Nat

VARIABLES original,    \* what the file holds, or the lines of the old content
          wish,        \* the edits of the call, or the lines of the new one
          verdict      \* what becomes of them

editVars == <<original, wish, verdict>>

(***************************** Lines and endings ***************************)

\* detect_line_ending: what the first newline has before it.
UsesCrLf(t) ==
    \E i \in 2..Len(t) : /\ t[i] = "newline" /\ t[i - 1] = "cr"
                         /\ \A j \in 1..(i - 1) : t[j] # "newline"

\* normalize_to_lf: a "cr" alone ends a line too.
ToLF(t) ==
    FlattenSeq([i \in DOMAIN t |->
        IF t[i] = "cr" THEN <<"newline">>
        ELSE IF t[i] = "newline" /\ i > 1 /\ t[i - 1] = "cr" THEN <<>> ELSE <<t[i]>>])

WithEndings(t, crlf) ==
    FlattenSeq([i \in DOMAIN t |-> IF crlf /\ t[i] = "newline" THEN <<"cr", "newline">> ELSE <<t[i]>>])

\* The spaces at the end of a line.
IsTrailing(t, i) ==
    \E j \in i..Len(t) : /\ \A k \in i..j : t[k] = "space"
                         /\ j = Len(t) \/ t[j + 1] = "newline"

\* normalize_for_fuzzy_match.
Fuzzy(t) ==
    FlattenSeq([i \in DOMAIN t |->
        IF IsTrailing(t, i) THEN <<>> ELSE IF t[i] = "fancy" THEN <<"x">> ELSE <<t[i]>>])

\* split_lines_with_endings: where the lines begin.
Begins(t) == {s \in DOMAIN t : s = 1 \/ t[s - 1] = "newline"}
LineNumber(t, i) == Cardinality({s \in Begins(t) : s <= i})

(********************************* Matching ********************************)

Matches(t, p) == {s \in 1..(Len(t) + 1) : s + Len(p) <= Len(t) + 1 /\ SubSeq(t, s, s + Len(p) - 1) = p}

\* fuzzy_find_text: as it is, or else normalized.
IsExact(t, p) == Matches(t, p) # {}
NeedsFuzzy(t, p) == ~IsExact(t, p) /\ Matches(Fuzzy(t), Fuzzy(p)) # {}
IsFound(t, p) == IsExact(t, p) \/ NeedsFuzzy(t, p)
Region(t, e) ==
    IF IsExact(t, e.old) THEN [at |-> Min(Matches(t, e.old)), size |-> Len(e.old), new |-> e.new]
    ELSE [at |-> Min(Matches(Fuzzy(t), Fuzzy(e.old))), size |-> Len(Fuzzy(e.old)), new |-> e.new]

\* count_occurrences: from left to right, none inside another; of nothing, one around
\* every character.
OccurrencesIn(t, p) ==
    LET found == Matches(t, p)
        count[s \in 1..(Len(t) + 2)] ==
            IF s > Len(t) THEN 0
            ELSE IF s \in found THEN 1 + count[s + Len(p)] ELSE count[s + 1]
    IN  IF p = <<>> THEN Len(t) + 1 ELSE count[1]
Occurrences(t, p) == OccurrencesIn(Fuzzy(t), Fuzzy(p))

(********************************* Applying ********************************)

Overlap(q, r) == q # r /\ q.at <= r.at /\ q.at + q.size > r.at

\* What stands at a position once the regions are replaced.
Standing(t, regions, i) ==
    IF \E r \in regions : i = r.at THEN (CHOOSE r \in regions : i = r.at).new
    ELSE IF \E r \in regions : r.at <= i /\ i < r.at + r.size THEN <<>>
    ELSE <<t[i]>>
Spliced(t, regions) == FlattenSeq([i \in DOMAIN t |-> Standing(t, regions, i)])

\* Mutant: only the line in which a region begins counts as touched.
TouchedFirst(b, regions, k) == \E r \in regions : LineNumber(b, r.at) = k

\* A region touches the lines from that of its first character to that of its last.
IsTouched(b, regions, k) ==
    \E r \in regions : LineNumber(b, r.at) <= k /\ k <= LineNumber(b, r.at + r.size - 1)

\* apply_replacements_preserving_unchanged_lines: the lines that no region touches are
\* those of the content itself, not the normalized ones.
Preserved(t, b, regions) ==
    FlattenSeq([k \in 1..Cardinality(Begins(t)) |->
        LET own == {i \in DOMAIN t : LineNumber(t, i) = k}
            based == {i \in DOMAIN b : LineNumber(b, i) = k}
        IN  IF IsTouched(b, regions, k)
            THEN FlattenSeq([n \in 1..Cardinality(based) |-> Standing(b, regions, Min(based) + n - 1)])
            ELSE SubSeq(t, Min(own), Max(own))])

\* Where it panics: the normalized content has not as many lines, or a region lies in none.
Panics(t, b, regions) ==
    \/ Cardinality(Begins(t)) # Cardinality(Begins(b))
    \/ \E r \in regions : r.at > Len(b)

Failed(why, i) == [says |-> why, edit |-> i, base |-> <<>>, text |-> <<>>]

\* sequential_edits_diagnostic: the edit would be found after the ones before it.
Chained(b, es, i) ==
    LET after[n \in 0..(i - 1)] ==
            IF n = 0 THEN [ok |-> TRUE, text |-> b]
            ELSE LET prior == after[n - 1]
                     e == es[n]
                 IN  IF prior.ok /\ IsExact(prior.text, e.old)
                     THEN LET s == Min(Matches(prior.text, e.old)) IN
                          [ok |-> TRUE,
                           text |-> SubSeq(prior.text, 1, s - 1) \o e.new
                                    \o SubSeq(prior.text, s + Len(e.old), Len(prior.text))]
                     ELSE [ok |-> FALSE, text |-> <<>>]
    IN  i > 1 /\ after[i - 1].ok /\ IsExact(after[i - 1].text, es[i].old)

IsFuzzy(t, es) == \E i \in DOMAIN es : NeedsFuzzy(t, es[i].old)
BaseOf(t, es) == IF IsFuzzy(t, es) THEN Fuzzy(t) ELSE t

\* apply_edits_to_normalized_content: every edit is looked for in the same base.
Applied(t, es) ==
    LET fuzzy == IsFuzzy(t, es)
        base == BaseOf(t, es)
        empty == {i \in DOMAIN es : es[i].old = <<>>}
        missing == {i \in DOMAIN es : ~IsFound(base, es[i].old)}
        doubled == {i \in DOMAIN es : Occurrences(base, es[i].old) > 1}
        first == Min(missing \union doubled)
        regions == {Region(base, es[i]) : i \in DOMAIN es}
        new == IF fuzzy THEN Preserved(t, base, regions) ELSE Spliced(base, regions)
    IN  IF empty # {} THEN Failed("empty", Min(empty))
        ELSE IF missing # {} /\ first \in missing
             THEN Failed(IF Chained(base, es, first) THEN "chained" ELSE "missing", first)
        ELSE IF doubled # {} THEN Failed("ambiguous", first)
        ELSE IF \E q, r \in regions : Overlap(q, r) \/ Cardinality(regions) < Len(es)
             THEN Failed("overlap", 0)
        ELSE IF fuzzy /\ Panics(t, base, regions) THEN Failed("panic", 0)
        ELSE IF new = t THEN Failed("unchanged", 0)
        ELSE [says |-> "done", edit |-> 0, base |-> Spliced(base, regions), text |-> new]

(********************************* The patch *******************************)

\* diff_lines: the longest common subsequence of the rest of both, by position, and the
\* walk along it; a line that goes is written before one that comes if either will do.
DiffOps(old, new) ==
    LET common[i \in 1..(Len(old) + 1), j \in 1..(Len(new) + 1)] ==
            IF i > Len(old) \/ j > Len(new) THEN 0
            ELSE IF old[i] = new[j] THEN common[i + 1, j + 1] + 1
            ELSE Max({common[i + 1, j], common[i, j + 1]})
        walk[i \in 1..(Len(old) + 1), j \in 1..(Len(new) + 1)] ==
            IF i > Len(old) /\ j > Len(new) THEN <<>>
            ELSE IF i <= Len(old) /\ j <= Len(new) /\ old[i] = new[j]
                 THEN <<[op |-> "keep", line |-> old[i]]>> \o walk[i + 1, j + 1]
            ELSE IF i <= Len(old) /\ (j > Len(new) \/ common[i + 1, j] >= common[i, j + 1])
                 THEN <<[op |-> "remove", line |-> old[i]]>> \o walk[i + 1, j]
            ELSE <<[op |-> "add", line |-> new[j]]>> \o walk[i, j + 1]
    IN  walk[1, 1]

\* generate_unified_patch: from each change on, the run of changes and the context after
\* it, joined to the hunk before if they meet; changes within that context are not
\* looked at again.
Hunks(ops) ==
    LET Changed(k) == ops[k].op # "keep"
        Least(a, b) == IF a < b THEN a ELSE b
        RunEnd(k) == Max({n \in k..Len(ops) : \A m \in k..n : Changed(m)})
        from[k \in 1..(Len(ops) + 1)] ==   \* the hunks that begin at k or later
            IF \A m \in k..Len(ops) : ~Changed(m) THEN <<>>
            ELSE LET s == Min({m \in k..Len(ops) : Changed(m)})
                     last == Least(RunEnd(s) + Context, Len(ops))
                 IN  <<[first |-> IF s > Context THEN s - Context ELSE 1, last |-> last]>>
                     \o from[last + 1]
        Joined(hunks, h) ==
            IF hunks # <<>> /\ h.first <= Last(hunks).last + 1
            THEN Append(Front(hunks), [first |-> Last(hunks).first, last |-> h.last])
            ELSE Append(hunks, h)
    IN  FoldLeft(Joined, <<>>, from[1])

Those(ops, first, last, kinds) == SelectSeq(SubSeq(ops, first, last), LAMBDA o : o.op \in kinds)
LinesOf(ops) == [k \in DOMAIN ops |-> ops[k].line]
OldSide(ops) == LinesOf(Those(ops, 1, Len(ops), {"keep", "remove"}))
NewSide(ops) == LinesOf(Those(ops, 1, Len(ops), {"keep", "add"}))

\* The header: where the old side of a hunk begins, and what the code takes for where
\* the new one does: it counts no line that is kept (see README).
Header(ops, h) ==
    [old |-> 1 + Len(Those(ops, 1, h.first - 1, {"keep", "remove"})),
     new |-> 1 + Len(Those(ops, 1, h.first - 1, {"add"})),
     body |-> SubSeq(ops, h.first, h.last)]
Patch(ops) == [n \in DOMAIN Hunks(ops) |-> Header(ops, Hunks(ops)[n])]

(******************************** Behaviours *******************************)

EditInit ==
    /\ wish = <<>>
    /\ \/ original \in Contents /\ verdict = [says |-> "asked"]
       \/ original \in OldLines /\ verdict = [says |-> "written"]

\* The operation of the edit tool; a call that fails writes nothing.
EditFile ==
    /\ verdict.says = "asked"
    /\ \E w \in Wishes :
          /\ wish' = w
          /\ \E outcome \in {Applied(ToLF(original), w)} :
                verdict' = [says |-> outcome.says, edit |-> outcome.edit, base |-> outcome.base,
                            file |-> IF outcome.says = "done"
                                     THEN WithEndings(outcome.text, UsesCrLf(original)) ELSE original]
    /\ UNCHANGED original

CompareLines ==
    /\ verdict.says = "written"
    /\ wish' \in NewLines
    /\ \E ops \in {DiffOps(original, wish')} :
          verdict' = [says |-> "compared", ops |-> ops, patch |-> Patch(ops)]
    /\ UNCHANGED original

EditNext == EditFile \/ CompareLines

EditSpec == EditInit /\ [][EditNext]_editVars

(******************************** Properties *******************************)

\* All of the line ends of a file are of one kind.
IsUniform(t) ==
    \/ \A i \in DOMAIN t : t[i] # "cr"
    \/ \A i \in DOMAIN t : /\ t[i] = "newline" => (i > 1 /\ t[i - 1] = "cr")
                           /\ t[i] = "cr" => (i < Len(t) /\ t[i + 1] = "newline")

\* The first or last lines of a text.
LinesTo(t, k) == SelectSeq([i \in DOMAIN t |-> i], LAMBDA i : LineNumber(t, i) <= k)
LinesFrom(t, k) == SelectSeq([i \in DOMAIN t |-> i], LAMBDA i : LineNumber(t, i) >= k)
Taken(t, positions) == [n \in DOMAIN positions |-> t[positions[n]]]

\* The lines that no edit touches are written as they were.
RestIsKept(t, u, es) ==
    LET base == BaseOf(t, es)
        regions == {Region(base, es[i]) : i \in DOMAIN es}
        first == Min({LineNumber(base, r.at) : r \in regions})
        last == Max({LineNumber(base, r.at + r.size - 1) : r \in regions})
    IN  /\ IsPrefix(Taken(t, LinesTo(t, first - 1)), u)
        /\ IsSuffix(Taken(t, LinesFrom(t, last + 1)), u)

\* What an accepted call makes of a file is, but for what normalizing changes, its
\* content with every old text replaced, and the other lines as they were; the order of
\* the edits in the call does not matter; a file whose lines all end alike keeps its
\* line ends; and a call panics for nothing but a blank last line without a newline.
EditsExact ==
    /\ verdict.says = "done" =>
          /\ Fuzzy(ToLF(verdict.file)) = Fuzzy(verdict.base)
          /\ RestIsKept(ToLF(original), ToLF(verdict.file), wish)
          /\ IsUniform(original) => IsUniform(verdict.file)
    /\ verdict.says \in {"done", "unchanged", "overlap"} =>
          LET other == Applied(ToLF(original), Reverse(wish)) IN
          /\ other.says = verdict.says
          /\ verdict.says = "done" => WithEndings(other.text, UsesCrLf(original)) = verdict.file
    /\ verdict.says = "panic" =>
          LET base == ToLF(original) IN base = <<>> \/ IsTrailing(base, Len(base))

\* The patch, applied to the old lines by the old line numbers of its hunks, makes the
\* new lines, and says no more than the two differ in.
Replaced(lines, h) ==
    SubSeq(lines, 1, h.old - 1) \o NewSide(h.body)
    \o SubSeq(lines, h.old + Len(OldSide(h.body)), Len(lines))
PatchApplies ==
    verdict.says = "compared" =>
        /\ OldSide(verdict.ops) = original /\ NewSide(verdict.ops) = wish
        /\ FoldRight(LAMBDA h, lines : Replaced(lines, h), verdict.patch, original) = wish
        /\ \A n \in DOMAIN verdict.patch :
              LET h == verdict.patch[n] IN
              OldSide(h.body) = SubSeq(original, h.old, h.old + Len(OldSide(h.body)) - 1)
=============================================================================
