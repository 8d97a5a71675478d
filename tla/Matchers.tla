------------------------------ MODULE Matchers ------------------------------
(***************************************************************************)
(* The regular-expression engine behind grep (regex/src/lib.rs): a pattern *)
(* is parsed to a tree, the tree is emitted as a program with absolute     *)
(* jump targets, and the program is run on an explicit backtracking stack  *)
(* under a step budget.                                                    *)
(*                                                                         *)
(* A byte is the one-character string of it, and a POSIX class name is one *)
(* byte: only its position between "[:" and ":]" and whether it is known   *)
(* matter.  The fixed arrays are a record of limits `lim`, so that one     *)
(* pattern can be tried under generous and under tight limits.  The        *)
(* wildcards of the shell follow below.                                    *)
(***************************************************************************)
EXTENDS Naturals, Sequences, FiniteSets

CONSTANTS Patterns, Texts, Limits
VARIABLES job, re, m, answer

\* The bytes that occur, in the order of their codes.
ByteOrder == << "LF", "TAB", "CR", " ", "$", "(", ")", "*", "+", "-", ".", "0", "1", "9",
                ":", "?", "A", "B", "[", "\\", "]", "^", "a", "b", "digit", "n", "t", "|" >>
Bytes == {ByteOrder[i] : i \in DOMAIN ByteOrder}
Code == [b \in Bytes |-> CHOOSE i \in DOMAIN ByteOrder : ByteOrder[i] = b]

fold_byte(b) == CASE b = "A" -> "a" [] b = "B" -> "b" [] OTHER -> b
OtherCase(b) == CASE b = "A" -> "a" [] b = "B" -> "b" [] b = "a" -> "A" [] b = "b" -> "B"
                  [] OTHER -> b
EscapeOf(b) == CASE b = "n" -> "LF" [] b = "t" -> "TAB" [] OTHER -> b
posix_class == [digit |-> {"0", "1", "9"}]

(***************************************************************************)
(* The parser.  A result is [err, node, pos, nodes, classes]: the tree     *)
(* read so far, the first byte not read, and how much of the two arrays is *)
(* used.  err is "" or the first error, which every caller passes on.      *)
(***************************************************************************)
Leaf(op) == [op |-> op, set |-> {}, neg |-> FALSE, kids |-> <<>>]
CharNode(b) == [Leaf("Char") EXCEPT !.set = {b}]
Tree(op, kids) == [Leaf(op) EXCEPT !.kids = kids]
At(pat, pos) == IF pos <= Len(pat) THEN pat[pos] ELSE "end"
Fails(r, err) == [r EXCEPT !.err = err]

\* Nodes are pushed into an array of lim.nodes places.
push(r, node, lim) ==
    IF r.err # "" THEN r
    ELSE IF r.nodes >= lim.nodes THEN Fails(r, "TooComplex")
    ELSE [r EXCEPT !.node = node, !.nodes = @ + 1]

\* Whether a tree can match the empty string.
RECURSIVE nullable(_)
nullable(t) ==
    CASE t.op \in {"Empty", "Bol", "Eol", "Star", "Quest"} -> TRUE
      [] t.op \in {"Char", "Any", "Class"} -> FALSE
      [] t.op = "Cat" -> nullable(t.kids[1]) /\ nullable(t.kids[2])
      [] t.op = "Alt" -> nullable(t.kids[1]) \/ nullable(t.kids[2])
      [] t.op = "Plus" -> nullable(t.kids[1])

\* A bracket's members, from after the "[" (and the "^") up to its "]".
RECURSIVE ClassItems(_, _, _, _)
ClassItems(pat, pos, set, first) ==
    LET c == At(pat, pos)
        Err(e) == [err |-> e, pos |-> pos, set |-> set]
        Colon == {i \in pos + 2 .. Len(pat) : pat[i] = ":" /\ At(pat, i + 1) = "]"}
        \* one end of a range, or a single member: its byte and the place after it
        End(p) == IF At(pat, p) = "\\"
                    THEN [b |-> EscapeOf(At(pat, p + 1)), next |-> p + 2, err |-> At(pat, p + 1) = "end"]
                    ELSE [b |-> At(pat, p), next |-> p + 1, err |-> FALSE]
        lo == End(pos)
        isRange == At(pat, lo.next) = "-" /\ At(pat, lo.next + 1) # "]"
        hi == End(lo.next + 1)
    IN CASE c = "end" -> Err("UnterminatedClass")
         [] c = "]" /\ ~first -> [err |-> "", pos |-> pos + 1, set |-> set]
         [] c = "[" /\ At(pat, pos + 1) = ":" ->
              IF Colon = {} THEN Err("UnterminatedClass")
              ELSE LET colon == CHOOSE i \in Colon : \A j \in Colon : i <= j
                       name == SubSeq(pat, pos + 2, colon - 1)
                   IN IF name # <<"digit">> THEN Err("UnknownClassName")
                      ELSE ClassItems(pat, colon + 2, set \cup posix_class["digit"], FALSE)
         [] OTHER ->
              CASE lo.err -> Err("TrailingBackslash")
                [] ~lo.err /\ ~isRange -> ClassItems(pat, lo.next, set \cup {lo.b}, FALSE)
                [] ~lo.err /\ isRange /\ At(pat, lo.next + 1) = "end" -> Err("UnterminatedClass")
                [] ~lo.err /\ isRange /\ At(pat, lo.next + 1) # "end" /\ hi.err -> Err("TrailingBackslash")
                [] OTHER ->
                     IF Code[lo.b] > Code[hi.b] THEN Err("BadRange")
                     ELSE ClassItems(pat, hi.next,
                            set \cup {b \in Bytes : Code[lo.b] <= Code[b] /\ Code[b] <= Code[hi.b]}, FALSE)

parse_class(pat, r, lim) ==
    LET neg == At(pat, r.pos + 1) = "^"
        k == ClassItems(pat, r.pos + (IF neg THEN 2 ELSE 1), {}, TRUE)
        node == [op |-> "Class", neg |-> neg, kids |-> <<>>,
                 set |-> IF neg THEN Bytes \ k.set ELSE k.set]
    IN IF r.classes >= lim.classes THEN Fails(r, "TooComplex")
       ELSE IF k.err # "" THEN Fails(r, k.err)
       ELSE push([r EXCEPT !.pos = k.pos, !.classes = @ + 1], node, lim)

RECURSIVE parse_alt(_, _, _, _), AltTail(_, _, _, _), parse_concat(_, _, _, _), ConcatTail(_, _, _, _),
          parse_atom(_, _, _, _), Repeats(_, _, _)

parse_alt(pat, r, depth, lim) == AltTail(pat, parse_concat(pat, r, depth, lim), depth, lim)

AltTail(pat, left, depth, lim) ==
    IF left.err # "" \/ At(pat, left.pos) # "|" THEN left
    ELSE LET right == parse_concat(pat, [left EXCEPT !.pos = @ + 1], depth, lim)
         IN AltTail(pat, push(right, Tree("Alt", <<left.node, right.node>>), lim), depth, lim)

parse_concat(pat, r, depth, lim) ==
    IF At(pat, r.pos) \in {"end", "|", ")"}
      THEN push(r, Leaf("Empty"), lim)
      ELSE ConcatTail(pat, Repeats(pat, parse_atom(pat, r, depth, lim), lim), depth, lim)

ConcatTail(pat, left, depth, lim) ==
    IF left.err # "" \/ At(pat, left.pos) \in {"end", "|", ")"} THEN left
    ELSE LET piece == Repeats(pat, parse_atom(pat, left, depth, lim), lim)
         IN ConcatTail(pat, push(piece, Tree("Cat", <<left.node, piece.node>>), lim), depth, lim)

\* A mutant: what can match nothing may be repeated.
MayRepeat_anything(t) == TRUE

\* parse_repeat's loop over the postfix operators.
MayRepeat(t) == ~nullable(t)
Repeats(pat, r, lim) ==
    LET op == At(pat, r.pos)
        Applied(o) == Repeats(pat, push([r EXCEPT !.pos = @ + 1], Tree(o, <<r.node>>), lim), lim)
    IN CASE r.err # "" -> r
         [] r.err = "" /\ op = "?" -> Applied("Quest")
         [] r.err = "" /\ op \in {"*", "+"} ->
              IF ~MayRepeat(r.node) THEN Fails(r, "EmptyRepeat")
              ELSE Applied(IF op = "*" THEN "Star" ELSE "Plus")
         [] OTHER -> r

parse_atom(pat, r, depth, lim) ==
    LET c == At(pat, r.pos)
        Past(node) == push([r EXCEPT !.pos = @ + 1], node, lim)
        inner == parse_alt(pat, [r EXCEPT !.pos = @ + 1], depth + 1, lim)
    IN CASE c \in {"*", "+", "?"} -> Fails(r, "NothingToRepeat")
         [] c = "(" ->
              CASE depth + 1 > lim.depth -> Fails(r, "TooComplex")
                [] depth + 1 <= lim.depth /\ inner.err # "" -> inner
                [] depth + 1 <= lim.depth /\ inner.err = "" /\ At(pat, inner.pos) # ")" ->
                     Fails(inner, "UnbalancedParen")
                [] OTHER -> [inner EXCEPT !.pos = @ + 1]
         [] c = ")" -> Fails(r, "UnbalancedParen")
         [] c = "." -> Past(Leaf("Any"))
         [] c = "^" -> Past(Leaf("Bol"))
         [] c = "$" -> Past(Leaf("Eol"))
         [] c = "[" -> parse_class(pat, r, lim)
         [] c = "\\" -> IF At(pat, r.pos + 1) = "end" THEN Fails(r, "TrailingBackslash")
                        ELSE push([r EXCEPT !.pos = @ + 2], CharNode(EscapeOf(At(pat, r.pos + 1))), lim)
         [] OTHER -> Past(CharNode(c))

(***************************************************************************)
(* The emitter: gen appends a tree's instructions to the program; targets  *)
(* are counted from 1.                                                     *)
(***************************************************************************)
Inst(op, t) == [op |-> op, set |-> t.set, neg |-> t.neg, a |-> 0, b |-> 0]
Jump(op, a, b) == [op |-> op, set |-> {}, neg |-> FALSE, a |-> a, b |-> b]

\* Where the exit of a loop or of an option leads: past everything emitted.
PlusSplit(body, end) == Jump("Split", body, end)

RECURSIVE gen(_, _)
gen(prog, t) ==
    CASE t.op = "Empty" -> prog
      [] t.op \in {"Char", "Any", "Class", "Bol", "Eol"} -> Append(prog, Inst(t.op, t))
      [] t.op = "Cat" -> gen(gen(prog, t.kids[1]), t.kids[2])
      [] t.op = "Alt" ->
           LET left == gen(Append(prog, Jump("Split", 0, 0)), t.kids[1])
               all == gen(Append(left, Jump("Jmp", 0, 0)), t.kids[2])
           IN [all EXCEPT ![Len(prog) + 1] = Jump("Split", Len(prog) + 2, Len(left) + 2),
                          ![Len(left) + 1] = Jump("Jmp", Len(all) + 1, 0)]
      [] t.op = "Star" ->
           LET all == Append(gen(Append(prog, Jump("Split", 0, 0)), t.kids[1]),
                             Jump("Jmp", Len(prog) + 1, 0))
           IN [all EXCEPT ![Len(prog) + 1] = Jump("Split", Len(prog) + 2, Len(all) + 1)]
      [] t.op = "Plus" ->
           LET body == gen(prog, t.kids[1])
           IN Append(body, PlusSplit(Len(prog) + 1, Len(body) + 2))
      [] t.op = "Quest" ->
           LET all == gen(Append(prog, Jump("Split", 0, 0)), t.kids[1])
           IN [all EXCEPT ![Len(prog) + 1] = Jump("Split", Len(prog) + 2, Len(all) + 1)]

\* The result of compile: an error, or a program (an empty pattern has none:
\* it matches everything).  tree is kept for the properties.
Compiled(err, prog, tree) == [err |-> err, prog |-> prog, tree |-> tree]
Checked(r, pat, lim) ==
    CASE r.err # "" -> Compiled(r.err, <<>>, Leaf("Empty"))
      [] r.err = "" /\ r.pos # Len(pat) + 1 -> Compiled("UnbalancedParen", <<>>, Leaf("Empty"))
      [] OTHER -> LET prog == Append(gen(<<>>, r.node), Jump("Match", 0, 0))
                  IN Compiled(IF Len(prog) > lim.prog THEN "TooComplex" ELSE "", prog, r.node)
compile(pattern, lim) ==
    CASE Len(pattern) > lim.pattern -> Compiled("TooLong", <<>>, Leaf("Empty"))
      [] Len(pattern) = 0 -> Compiled("", <<>>, Leaf("Empty"))
      [] OTHER -> Checked(parse_alt(pattern, [err |-> "", node |-> Leaf("Empty"), pos |-> 1,
                                              nodes |-> 0, classes |-> 0], 0, lim), pattern, lim)

(***************************************************************************)
(* The matcher, one instruction a step.  job is what grep asks; re what    *)
(* compile made of the pattern; m the attempt from m.start: the program    *)
(* counter, the bytes consumed, the (pc, sp) pairs to go back to, the      *)
(* steps of this attempt and those of the attempts before it.              *)
(***************************************************************************)
\* Whether one instruction accepts the byte b.
Accepts(i, b, fold) ==
    CASE i.op = "Any" -> TRUE
      [] i.op = "Char" -> \E c \in i.set : IF fold THEN fold_byte(b) = fold_byte(c) ELSE b = c
      [] i.op = "Class" -> CASE ~fold -> b \in i.set
                             [] fold /\ i.neg -> b \in i.set /\ OtherCase(b) \in i.set
                             [] OTHER -> b \in i.set \/ OtherCase(b) \in i.set

Attempt(start, total) == [pc |-> 1, sp |-> start, stack |-> <<>>, steps |-> 0, start |-> start, total |-> total]
Init == /\ job \in [pat : Patterns, text : Texts, fold : BOOLEAN, lim : Limits]
        /\ re = Compiled("", <<>>, Leaf("Empty"))
        /\ m = Attempt(0, 0)
        /\ answer = "compiling"

Compile ==
    /\ answer = "compiling"
    /\ re' = compile(job.pat, job.lim)
    /\ answer' = CASE re'.err # "" -> "refused"
                   [] re'.err = "" /\ re'.prog = <<>> -> "Yes"
                   [] re'.err = "" /\ re'.prog # <<>> /\ Len(job.text) > job.lim.text -> "Limit"
                   [] OTHER -> "running"
    /\ UNCHANGED <<job, m>>

Now == re.prog[m.pc]
\* One attempt is over: is_match adds its steps up, then answers or moves on.
Total == m.total + m.steps + 1
Answers(outcome) ==
    answer' = (IF Total > job.lim.total THEN "Limit" ELSE outcome) /\ UNCHANGED <<job, re, m>>
Ends ==
    IF Total <= job.lim.total /\ m.start < Len(job.text)
      THEN m' = Attempt(m.start + 1, Total) /\ UNCHANGED <<job, re, answer>>
      ELSE Answers("No")

InBudget == answer = "running" /\ m.steps + 1 <= job.lim.steps
Goes(pc, sp) == m' = [m EXCEPT !.pc = pc, !.sp = sp, !.steps = @ + 1] /\ UNCHANGED <<job, re, answer>>

OutOfSteps == answer = "running" /\ m.steps + 1 > job.lim.steps /\ Answers("Limit")
Matched == InBudget /\ Now.op = "Match" /\ Answers("Yes")

Holds == CASE Now.op \in {"Char", "Any", "Class"} ->
                m.sp < Len(job.text) /\ Accepts(Now, job.text[m.sp + 1], job.fold)
           [] Now.op = "Bol" -> m.sp = 0
           [] Now.op = "Eol" -> m.sp = Len(job.text)
           [] OTHER -> TRUE
Consume == InBudget /\ Now.op \in {"Char", "Any", "Class"} /\ Holds /\ Goes(m.pc + 1, m.sp + 1)
Anchor == InBudget /\ Now.op \in {"Bol", "Eol"} /\ Holds /\ Goes(m.pc + 1, m.sp)
Jmp == InBudget /\ Now.op = "Jmp" /\ Goes(Now.a, m.sp)
Split ==
    /\ InBudget /\ Now.op = "Split"
    /\ IF Len(m.stack) >= job.lim.stack THEN Answers("Limit")
       ELSE /\ m' = [m EXCEPT !.pc = Now.a, !.stack = Append(@, <<Now.b, m.sp>>), !.steps = @ + 1]
            /\ UNCHANGED <<job, re, answer>>
\* A failed test takes the latest alternative, or ends the attempt.
Back(stack) ==
    IF stack = <<>> THEN Ends
    ELSE /\ m' = [m EXCEPT !.pc = stack[Len(stack)][1], !.sp = stack[Len(stack)][2],
                           !.stack = SubSeq(stack, 1, Len(stack) - 1), !.steps = @ + 1]
         /\ UNCHANGED <<job, re, answer>>
Backtrack == InBudget /\ Now.op # "Match" /\ ~Holds /\ Back(m.stack)

Next == Compile \/ OutOfSteps \/ Matched \/ Consume \/ Anchor \/ Jmp \/ Split \/ Backtrack
vars == <<job, re, m, answer>>
Spec == Init /\ [][Next]_vars

(***************************************************************************)
(* What a pattern means, without programs and stacks: the set of places    *)
(* where a tree can stop when it starts at place i of the text.            *)
(***************************************************************************)
Same(set, neg, b, fold) ==
    IF neg THEN \A c \in (Bytes \ set) : b # c /\ (fold => fold_byte(b) # fold_byte(c))
    ELSE \E c \in set : b = c \/ (fold /\ fold_byte(b) = fold_byte(c))
RECURSIVE StopsAt(_, _, _, _)
StopsAt(t, text, fold, i) ==
    LET Then(u, from) == UNION {StopsAt(u, text, fold, j) : j \in from}
        Times[n \in Nat] == IF n = 0 THEN {i} ELSE Times[n - 1] \cup Then(t.kids[1], Times[n - 1])
    IN CASE t.op = "Empty" -> {i}
         [] t.op = "Bol" -> IF i = 0 THEN {i} ELSE {}
         [] t.op = "Eol" -> IF i = Len(text) THEN {i} ELSE {}
         [] t.op = "Any" -> IF i < Len(text) THEN {i + 1} ELSE {}
         [] t.op \in {"Char", "Class"} ->
              IF i < Len(text) /\ Same(t.set, t.neg, text[i + 1], fold) THEN {i + 1} ELSE {}
         [] t.op = "Cat" -> Then(t.kids[2], StopsAt(t.kids[1], text, fold, i))
         [] t.op = "Alt" -> StopsAt(t.kids[1], text, fold, i) \cup StopsAt(t.kids[2], text, fold, i)
         [] t.op = "Star" -> Times[Len(text) + 1]
         [] t.op = "Plus" -> Then(t.kids[1], Times[Len(text) + 1])
         [] t.op = "Quest" -> {i} \cup StopsAt(t.kids[1], text, fold, i)

Meaning(t, text, fold) == \E i \in 0 .. Len(text) : StopsAt(t, text, fold, i) # {}

\* The engine's answer is the meaning of the pattern: the compiled program,
\* its jump targets and the backtracking agree with the places the tree can
\* stop at, with and without folding case.  Running out of steps or of stack
\* is Limit, "not a silent no match"; under limits that no pattern here needs
\* it never happens, so no accepted repeat runs without consuming.
AnswerIsTheMeaning ==
    /\ answer \in {"Yes", "No"} => (answer = "Yes" <=> Meaning(re.tree, job.text, job.fold))
    /\ answer = "Limit" => ~job.lim.generous

(***************************************************************************)
(* The shell's filename patterns and its Tab key: wildcard_match, one loop *)
(* iteration a step, and complete_word over a directory's listing.         *)
(***************************************************************************)
CONSTANTS Wildcards, Filenames,
          Words,        \* [before: bytes typed before the prefix, prefix]
          Listings,     \* sequences of [name, dir]
          BUFFER_SIZE
\* job is [kind, pat, name] or [kind, word, listing] here.
VARIABLES match,   \* wildcard_match: p, n, star (-1 as 0, so 1 based), mark, res
          tab      \* complete_word: i, lcp, count, only_is_dir, word

wildVars == <<job, match, tab>>
Fold(b) == CASE b = "A" -> "a" [] b = "B" -> "b" [] OTHER -> b
ci_eq(a, b) == Fold(a) = Fold(b)
starts_with_ci(name, prefix) ==
    Len(prefix) <= Len(name) /\ \A k \in DOMAIN prefix : ci_eq(name[k], prefix[k])
NoWord == [before |-> 0, prefix |-> <<>>]
Job(kind, pat, name, word, listing) ==
    [kind |-> kind, pat |-> pat, name |-> name, word |-> word, listing |-> listing]

WildInit == /\ job \in {Job("match", p, n, NoWord, <<>>) : p \in Wildcards, n \in Filenames}
                       \cup {Job("tab", <<>>, <<>>, x, l) : x \in Words, l \in Listings}
            /\ match = [p |-> 0, n |-> 0, star |-> 0, mark |-> 0, res |-> "open"]
            /\ tab = [i |-> 0, lcp |-> <<>>, count |-> 0, dir |-> FALSE, typed |-> <<>>, res |-> "open"]

(***************************************************************************)
(* wildcard_match.  p and n are how many bytes are behind; star is 1 + the *)
(* place of the last "*" tried, 0 for none.                                *)
(***************************************************************************)
Matching == job.kind = "match" /\ match.res = "open" /\ UNCHANGED <<job, tab>>
PatAt(p) == IF p < Len(job.pat) THEN job.pat[p + 1] ELSE "end"
Takes == PatAt(match.p) = "?" \/ (PatAt(match.p) # "end" /\ ci_eq(PatAt(match.p), job.name[match.n + 1]))
Literal == /\ Matching /\ match.n < Len(job.name) /\ Takes
           /\ match' = [match EXCEPT !.p = @ + 1, !.n = @ + 1]
Star == /\ Matching /\ match.n < Len(job.name) /\ ~Takes /\ PatAt(match.p) = "*"
        /\ match' = [match EXCEPT !.star = match.p + 1, !.mark = match.n, !.p = @ + 1]
\* The last star swallows one byte more.
Retry(x) == [x EXCEPT !.p = x.star, !.mark = @ + 1, !.n = x.mark + 1]
StarTakesMore == /\ Matching /\ match.n < Len(job.name) /\ ~Takes /\ PatAt(match.p) # "*"
                 /\ match' = IF match.star > 0 THEN Retry(match) ELSE [match EXCEPT !.res = "no"]
MatchEnd == /\ Matching /\ match.n = Len(job.name)
            /\ match' = [match EXCEPT !.res = IF \A k \in match.p + 1 .. Len(job.pat) : job.pat[k] = "*" THEN "yes" ELSE "no"]

(***************************************************************************)
(* complete_word: one pass over the listing keeps the longest common       *)
(* prefix of the matches, then the typed prefix is replaced by it.         *)
(***************************************************************************)
Tabbing == job.kind = "tab" /\ tab.res = "open" /\ UNCHANGED <<job, match>>
Prefix == job.word.prefix
Hidden(name) == name[1] = "." /\ (Prefix = <<>> \/ Prefix[1] # ".")
IsMatch(name) == ~Hidden(name) /\ starts_with_ci(name, Prefix)
CommonLen(a, b) ==
    CHOOSE k \in 0 .. Len(a) :
       /\ k <= Len(b) /\ \A j \in 1 .. k : ci_eq(a[j], b[j])
       /\ k < Len(a) /\ k < Len(b) => ~ci_eq(a[k + 1], b[k + 1])
\* The first match is taken whole; later ones can only shorten it.
Merged(lcp, name, count) == IF count = 0 THEN name ELSE SubSeq(lcp, 1, CommonLen(lcp, name))
EachEntry ==
    /\ Tabbing /\ tab.i < Len(job.listing)
    /\ \E e \in {job.listing[tab.i + 1]} :
         tab' = IF IsMatch(e.name)
                THEN [tab EXCEPT !.i = @ + 1, !.lcp = Merged(@, e.name, tab.count), !.count = @ + 1,
                               !.dir = IF tab.count = 0 THEN e.dir ELSE @]
                ELSE [tab EXCEPT !.i = @ + 1]
\* Retyping stops at the end of the line buffer.
Room == BUFFER_SIZE - job.word.before
Cut(s) == SubSeq(s, 1, IF Len(s) < Room THEN Len(s) ELSE Room)
Retype ==
    /\ Tabbing /\ tab.i = Len(job.listing)
    /\ tab' = [tab EXCEPT !.res = IF tab.count = 0 THEN "nothing" ELSE "typed",
                      !.typed = CASE tab.count = 0 -> Prefix
                                  [] tab.count = 1 -> Cut(Append(tab.lcp, IF tab.dir THEN "/" ELSE " "))
                                  [] OTHER -> Cut(tab.lcp)]
\* A listing that fails half way leaves the line alone.
ListFails == Tabbing /\ tab.i > 0 /\ tab.i < Len(job.listing)
             /\ tab' = [tab EXCEPT !.res = "nothing", !.typed = Prefix]

WildNext == Literal \/ Star \/ StarTakesMore \/ MatchEnd \/ EachEntry \/ Retype \/ ListFails
WildSpec == WildInit /\ [][WildNext]_vars

(***************************************************************************)
(* Properties.                                                             *)
(***************************************************************************)
\* What a pattern means: some way to give each "*" a run of the name.
Means(pat, name) ==
    LET M[i \in 0 .. Len(pat), j \in 0 .. Len(name)] ==
          CASE i = 0 -> j = 0
            [] i > 0 /\ pat[i] = "*" -> \E k \in 0 .. j : M[i - 1, k]
            [] OTHER -> j > 0 /\ (pat[i] = "?" \/ ci_eq(pat[i], name[j])) /\ M[i - 1, j - 1]
    IN M[Len(pat), Len(name)]

\* wildcard_match, which only ever goes back to the last "*", accepts exactly
\* the names some reading of the pattern accepts.
MatchIsTheMeaning == match.res # "open" => (match.res = "yes" <=> Means(job.pat, job.name))

\* Tab never loses what was typed and never promises more than the matches
\* share: the new word still starts with the old one, and every name the old
\* word could mean is still reachable from it.
TabKeepsEveryMatch ==
    tab.res # "open" =>
      LET matches == {job.listing[k] : k \in {i \in DOMAIN job.listing : IsMatch(job.listing[i].name)}}
          sep == IF tab.dir THEN "/" ELSE " "
      IN /\ Len(Prefix) <= Room => starts_with_ci(tab.typed, Prefix)
         /\ (tab.res = "typed" /\ Cardinality(matches) # 1) => \A e \in matches : starts_with_ci(e.name, tab.typed)
         /\ (tab.res = "typed" /\ Cardinality(matches) = 1) =>
               \A e \in matches : starts_with_ci(Append(e.name, sep), tab.typed)
=============================================================================
