----------------------------- MODULE TextTools ------------------------------
(***************************************************************************)
(* The streaming filters of a pipeline: head, tail, nl, uniq, rev, grep,   *)
(* upper and wc.  Each reads its mail byte by byte into a line buffer of   *)
(* MAX_LINE bytes and writes what it has when a line ends or the buffer is *)
(* full; how the input was cut into messages makes no difference to the    *)
(* loops, so a message is not modelled.  Ending the input is an empty      *)
(* message (Finish).                                                       *)
(*                                                                         *)
(* Bytes are one-character strings.  What is written is a sequence of      *)
(* pieces; a piece carries the number written before it, 0 for none.  sort *)
(* and more, which hold their whole input, follow below.                   *)
(***************************************************************************)
EXTENDS Integers, Sequences, FiniteSets

CONSTANTS Commands, Inputs, MAX_LINE, MAX_KEEP
VARIABLES cmd,    \* [tool, n, needle, fold, invert, numbered]
          src,    \* the whole input, for the properties
          rest,   \* the input not yet read
          t,      \* the tool's buffers
          out,    \* the pieces written
          done

vars == <<cmd, src, rest, t, out, done>>
LF == "LF"
Empty == [line |-> <<>>, prev |-> <<>>, have |-> FALSE, mid |-> FALSE, dropping |-> FALSE,
          n |-> 0, ring |-> [i \in 0 .. MAX_KEEP - 1 |-> <<>>], words |-> 0, inword |-> FALSE, bytes |-> 0]
Init == /\ cmd \in Commands /\ src \in Inputs
        /\ rest = src /\ t = Empty /\ out = <<>> /\ done = FALSE

Piece(num, bytes) == [num |-> num, bytes |-> bytes]
Reads(tool) == ~done /\ rest # <<>> /\ cmd.tool = tool /\ rest' = Tail(rest)
Ends(tool) == ~done /\ rest = <<>> /\ cmd.tool = tool /\ done' = TRUE /\ UNCHANGED rest
Same == UNCHANGED <<cmd, src>>
ToLower(b) == CASE b = "A" -> "a" [] b = "B" -> "b" [] OTHER -> b
ToUpper(b) == CASE b = "a" -> "A" [] b = "b" -> "B" [] OTHER -> b
Reverse(s) == [i \in DOMAIN s |-> s[Len(s) + 1 - i]]
Min(a, b) == IF a < b THEN a ELSE b

(***************************************************************************)
(* head: whole lines until n of them are written, a long line in parts.    *)
(***************************************************************************)
HeadByte(line, b) ==
    /\ Reads("head") /\ Same
    /\ cmd.n > 0
    /\ IF b = LF \/ Len(line) = MAX_LINE
         THEN /\ out' = Append(out, Piece(0, line))
              /\ t' = [t EXCEPT !.line = <<>>, !.n = IF b = LF THEN @ + 1 ELSE @]
              /\ done' = (t'.n >= cmd.n)
         ELSE t' = [t EXCEPT !.line = line] /\ UNCHANGED <<out, done>>
HeadNone == ~done /\ cmd.tool = "head" /\ cmd.n = 0 /\ done' = TRUE /\ UNCHANGED <<cmd, src, rest, t, out>>
HeadEnd == /\ Ends("head") /\ Same /\ cmd.n > 0 /\ UNCHANGED t
           /\ out' = IF t.line # <<>> /\ t.n < cmd.n THEN Append(out, Piece(0, t.line)) ELSE out

(***************************************************************************)
(* tail: a ring of the last `keep` lines, each cut to MAX_LINE bytes.      *)
(***************************************************************************)
keep == Min(cmd.n, MAX_KEEP)
Stored(line) == [t EXCEPT !.ring[t.n % keep] = line, !.n = @ + 1, !.line = <<>>, !.dropping = FALSE]
TailByte(b) ==
    /\ Reads("tail") /\ Same /\ UNCHANGED <<out, done>>
    /\ t' = CASE keep = 0 -> t
              [] keep > 0 /\ b = LF -> Stored(IF Len(t.line) < MAX_LINE THEN Append(t.line, b) ELSE t.line)
              [] keep > 0 /\ b # LF /\ ~t.dropping ->
                   [t EXCEPT !.line = Append(@, b), !.dropping = Len(t.line) + 1 = MAX_LINE]
              [] OTHER -> t
\* Where the oldest kept line is.
RingStart(total) == IF total < keep THEN 0 ELSE total % keep
Kept(total) == [i \in 1 .. Min(total, keep) |-> (RingStart(total) + i - 1) % keep]
TailEnd ==
    /\ Ends("tail") /\ Same
    /\ t' = IF keep > 0 /\ t.line # <<>> THEN Stored(t.line) ELSE t
    /\ out' = IF keep = 0 THEN out
              ELSE [i \in DOMAIN Kept(t'.n) |-> Piece(0, t'.ring[Kept(t'.n)[i]])]

(***************************************************************************)
(* nl, uniq and grep share the loop: a piece ends at a line's end or when  *)
(* the buffer is full.                                                     *)
(***************************************************************************)
Numbered(line, newline) ==
    /\ out' = Append(out, Piece(IF t.mid THEN 0 ELSE t.n + 1, line))
    /\ t' = [t EXCEPT !.line = <<>>, !.n = IF t.mid THEN @ ELSE @ + 1, !.mid = ~newline]
emit_if_new(line, newline) ==
    LET dup == t.have /\ line = t.prev IN
    /\ out' = IF dup THEN out ELSE Append(out, Piece(0, line))
    /\ t' = [t EXCEPT !.line = <<>>, !.prev = line, !.have = TRUE]

trim_eol(line) ==
    LET Cut(s, b) == IF s # <<>> /\ s[Len(s)] = b THEN SubSeq(s, 1, Len(s) - 1) ELSE s
    IN Cut(Cut(line, LF), "CR")
eq(a, b) == IF cmd.fold THEN ToLower(a) = ToLower(b) ELSE a = b
contains(hay, needle) ==
    \E i \in 0 .. Len(hay) - Len(needle) : \A j \in DOMAIN needle : eq(hay[i + j], needle[j])
Grepped(line, newline) ==
    /\ out' = IF contains(trim_eol(line), cmd.needle) = ~cmd.invert
                THEN Append(out, Piece(IF cmd.numbered THEN t.n + 1 ELSE 0, line)) ELSE out
    /\ t' = [t EXCEPT !.line = <<>>, !.n = @ + 1]

Whole(tool, line, newline) ==
    \/ tool = "nl" /\ Numbered(line, newline)
    \/ tool = "uniq" /\ emit_if_new(line, newline)
    \/ tool = "grep" /\ Grepped(line, newline)
LineByte(tool, line, b) ==
    /\ Reads(tool) /\ Same /\ UNCHANGED done
    /\ IF b = LF \/ Len(line) = MAX_LINE THEN Whole(tool, line, b = LF)
       ELSE t' = [t EXCEPT !.line = line] /\ UNCHANGED out
LineEnd(tool) ==
    /\ Ends(tool) /\ Same
    /\ IF t.line # <<>> THEN Whole(tool, t.line, FALSE) ELSE UNCHANGED <<t, out>>

(***************************************************************************)
(* rev, upper and wc.                                                      *)
(***************************************************************************)
RevByte(line, b) ==
    /\ Reads("rev") /\ Same /\ UNCHANGED done
    /\ CASE b = LF -> out' = Append(out, Piece(0, Append(Reverse(t.line), LF))) /\ t' = [t EXCEPT !.line = <<>>]
         [] b # LF /\ Len(line) = MAX_LINE ->
              out' = Append(out, Piece(0, Reverse(line))) /\ t' = [t EXCEPT !.line = <<>>]
         [] OTHER -> t' = [t EXCEPT !.line = line] /\ UNCHANGED out
RevEnd == /\ Ends("rev") /\ Same /\ UNCHANGED t
          /\ out' = IF t.line # <<>> THEN Append(out, Piece(0, Reverse(t.line))) ELSE out

UpperByte(b) == /\ Reads("upper") /\ Same /\ UNCHANGED <<t, done>>
                /\ out' = Append(out, Piece(0, <<ToUpper(b)>>))
UpperEnd == Ends("upper") /\ Same /\ UNCHANGED <<t, out>>

WcByte(b) ==
    LET ws == b \in {" ", "TAB", LF, "CR"} IN
    /\ Reads("wc") /\ Same /\ UNCHANGED <<out, done>>
    /\ t' = [t EXCEPT !.bytes = @ + 1, !.n = IF b = LF THEN @ + 1 ELSE @,
                      !.inword = ~ws, !.words = IF ~ws /\ ~t.inword THEN @ + 1 ELSE @]
WcEnd == /\ Ends("wc") /\ Same /\ UNCHANGED t
         /\ out' = <<Piece(t.n, <<>>), Piece(t.words, <<>>), Piece(t.bytes, <<>>)>>

Byte == rest # <<>> /\ \E b \in {rest[1]} :
            \E line \in {Append(t.line, b)} :
               \/ HeadByte(line, b) \/ TailByte(b) \/ RevByte(line, b) \/ UpperByte(b) \/ WcByte(b)
               \/ \E tool \in {"nl", "uniq", "grep"} : LineByte(tool, line, b)
Finish == HeadNone \/ HeadEnd \/ TailEnd \/ RevEnd \/ UpperEnd \/ WcEnd
          \/ \E tool \in {"nl", "uniq", "grep"} : LineEnd(tool)
Next == Byte \/ Finish
Spec == Init /\ [][Next]_vars

(***************************************************************************)
(* What each filter is for, on whole lines.                                *)
(***************************************************************************)
\* The lines of a text, each with its line end; the last may have none.
LinesOf(s) ==
    LET Stops == {i \in DOMAIN s : s[i] = LF} \cup (IF s # <<>> THEN {Len(s)} ELSE {})
        Nth[k \in Nat] == IF k = 0 THEN 0 ELSE CHOOSE i \in Stops : i > Nth[k - 1] /\ \A j \in Stops : j > Nth[k - 1] => i <= j
    IN [k \in 1 .. Cardinality(Stops) |-> SubSeq(s, Nth[k - 1] + 1, Nth[k])]
Joined(ss) == LET J[k \in Nat] == IF k = 0 THEN <<>> ELSE J[k - 1] \o ss[k] IN J[Len(ss)]
Chosen(ss, keepers) == LET C[k \in Nat] == IF k = 0 THEN <<>>
                                           ELSE IF k \in keepers THEN Append(C[k - 1], ss[k]) ELSE C[k - 1]
                       IN C[Len(ss)]
Written == Joined([k \in DOMAIN out |-> out[k].bytes])
Body(line) == IF line # <<>> /\ line[Len(line)] = LF THEN SubSeq(line, 1, Len(line) - 1) ELSE line
Reversed(line) == Reverse(Body(line)) \o SubSeq(line, Len(Body(line)) + 1, Len(line))
AllShort(ls) == \A k \in DOMAIN ls : Len(ls[k]) <= MAX_LINE
Grep(line) == contains(trim_eol(line), cmd.needle) = ~cmd.invert

\* A filter that has ended wrote what it promises: head the first lines, tail
\* the last ones (each at most MAX_LINE bytes of itself), nl the text with one
\* number per line however long the line is, uniq and grep the lines that are
\* new or that match, with their own line numbers, rev each line reversed, wc
\* the counts.  uniq, grep and rev promise it for lines that fit the buffer.
FilterWritesWhatItPromises ==
    done =>
      LET ls == LinesOf(src)
          Starts == Chosen([k \in DOMAIN out |-> out[k].num], {k \in DOMAIN out : out[k].num # 0})
          Last == SubSeq(ls, Len(ls) + 1 - Min(Len(ls), keep), Len(ls))
      IN CASE cmd.tool = "head" -> Written = Joined(SubSeq(ls, 1, Min(cmd.n, Len(ls))))
           [] cmd.tool = "tail" -> [k \in DOMAIN out |-> out[k].bytes]
                                     = [k \in DOMAIN Last |-> SubSeq(Last[k], 1, Min(MAX_LINE, Len(Last[k])))]
           [] cmd.tool = "nl" -> /\ Written = src /\ Starts = [k \in DOMAIN ls |-> k]
                                 /\ \A k \in DOMAIN out : out[k].num # 0 =>
                                      Joined([j \in 1 .. k - 1 |-> out[j].bytes])
                                        = Joined(SubSeq(ls, 1, out[k].num - 1))
           [] cmd.tool = "uniq" -> AllShort(ls) =>
                 Written = Joined(Chosen(ls, {k \in DOMAIN ls : k > 1 => ls[k] # ls[k - 1]}))
           [] cmd.tool = "grep" -> AllShort(ls) =>
                 /\ Written = Joined(Chosen(ls, {k \in DOMAIN ls : Grep(ls[k])}))
                 /\ cmd.numbered => Starts = Chosen([k \in DOMAIN ls |-> k], {k \in DOMAIN ls : Grep(ls[k])})
           [] cmd.tool = "rev" -> (\A k \in DOMAIN ls : Len(Body(ls[k])) < MAX_LINE) =>
                 Written = Joined([k \in DOMAIN ls |-> Reversed(ls[k])])
           [] cmd.tool = "upper" -> Written = [i \in DOMAIN src |-> ToUpper(src[i])]
           [] cmd.tool = "wc" -> [k \in DOMAIN out |-> out[k].num] =
                 << Cardinality({i \in DOMAIN src : src[i] = LF}),
                    Cardinality({i \in DOMAIN src : /\ src[i] \notin {" ", LF}
                                                    /\ i > 1 => src[i - 1] \in {" ", LF}}),
                    Len(src) >>

(***************************************************************************)
(* sort: the input is held in data_cap bytes, its lines are indexed in     *)
(* max_lines places, the index is heapsorted in place and printed, with -u *)
(* dropping a line equal to the one printed before it.                     *)
(*                                                                         *)
(* A line is a sequence of bytes (one-character strings).  The heapsort is *)
(* one comparison round a step, as its loops are written, so that the heap *)
(* it builds can be looked at.  Places are counted from 0, as in the code. *)
(***************************************************************************)
CONSTANTS SortInputs,  \* [lines: the lines, tail: an unterminated last line or <<>>]
          FlagSets,    \* subsets of {"r", "n", "u", "f"}
          data_cap, max_lines
VARIABLES input, flags, index, pc, start, end, root, truncated   \* it prints to out

sortVars == <<input, flags, index, pc, start, end, root, truncated, out>>

\* Character codes, in order.
Codes == << "TAB", " ", "+", "-", "0", "1", "9", "A", "B", "a", "b" >>
Code(b) == CHOOSE i \in DOMAIN Codes : Codes[i] = b
Digit(b) == CASE b = "0" -> 0 [] b = "1" -> 1 [] b = "9" -> 9 [] OTHER -> -1

\* Orderings are -1, 0, 1.
Cmp(a, b) == IF a < b THEN -1 ELSE IF a > b THEN 1 ELSE 0
lex(a, b, fold) ==
    LET Key(c) == IF fold THEN Code(ToLower(c)) ELSE Code(c)
        both == 1 .. IF Len(a) < Len(b) THEN Len(a) ELSE Len(b)
        differ == {i \in both : Key(a[i]) # Key(b[i])}
    IN IF differ = {} THEN Cmp(Len(a), Len(b))
       ELSE LET i == CHOOSE k \in differ : \A j \in differ : k <= j IN Cmp(Key(a[i]), Key(b[i]))

\* The integer a line starts with: blanks, one sign, digits.
parse_num(s) ==
    LET At(i) == IF i <= Len(s) THEN s[i] ELSE "end"
        blank == CHOOSE i \in 1 .. Len(s) + 1 :
                    At(i) \notin {" ", "TAB"} /\ \A j \in 1 .. i - 1 : At(j) \in {" ", "TAB"}
        first == IF At(blank) \in {"-", "+"} THEN blank + 1 ELSE blank
        Value[i \in Nat] == IF i < first THEN 0 ELSE Value[i - 1] * 10 + Digit(At(i))
        stop == CHOOSE i \in first .. Len(s) + 1 :
                    Digit(At(i)) < 0 /\ \A j \in first .. i - 1 : Digit(At(j)) >= 0
    IN IF At(blank) = "-" THEN -Value[stop - 1] ELSE Value[stop - 1]

compare(a, b, fl) ==
    LET byNumber == IF "n" \in fl THEN Cmp(parse_num(a), parse_num(b)) ELSE 0
        ord == IF byNumber # 0 THEN byNumber ELSE lex(a, b, "f" \in fl)
    IN IF "r" \in fl THEN -ord ELSE ord

SortInit == /\ input \in SortInputs /\ flags \in FlagSets
            /\ index = <<>> /\ pc = "read" /\ start = 0 /\ end = 0 /\ root = 0
            /\ truncated = FALSE /\ out = <<>>

(***************************************************************************)
(* Reading and indexing.  The data is what fits in data_cap bytes: lines   *)
(* with their line ends, then a last line without one.                     *)
(***************************************************************************)
Bytes[k \in Nat] == IF k = 0 THEN 0 ELSE Bytes[k - 1] + Len(input.lines[k]) + 1
Held ==
    LET n == CHOOSE k \in 0 .. Len(input.lines) :
                /\ Bytes[k] <= data_cap
                /\ k < Len(input.lines) => Bytes[k + 1] > data_cap
        next == IF n < Len(input.lines) THEN input.lines[n + 1] ELSE input.tail
        room == data_cap - Bytes[n]
        total == Bytes[Len(input.lines)] + Len(input.tail)
    IN [lines |-> SubSeq(input.lines, 1, n),
        tail |-> SubSeq(next, 1, IF Len(next) < room THEN Len(next) ELSE room),
        cut |-> total > data_cap]

\* An index that is full ends the loop at the next line end; a last line with
\* no line end is indexed when there is a place for it.
Indexed(h) ==
    LET n == IF Len(h.lines) < max_lines THEN Len(h.lines) ELSE max_lines
        first == SubSeq(h.lines, 1, n)
    IN IF h.tail # <<>> /\ n = Len(h.lines) /\ n < max_lines THEN Append(first, h.tail) ELSE first
ReadLines ==
    /\ pc = "read"
    /\ \E h \in {Held} :
         /\ index' = Indexed(h)
         /\ truncated' = (h.cut \/ Len(h.lines) > max_lines)
    /\ start' = Len(index') \div 2
    /\ end' = Len(index')
    /\ root' = 0
    /\ pc' = IF Len(index') < 2 THEN "print" ELSE "build"
    /\ UNCHANGED <<input, flags, out>>

(***************************************************************************)
(* heapsort.                                                               *)
(***************************************************************************)
n == Len(index)
Line(i) == index[i + 1]
line_lt(a, b) == compare(Line(a), Line(b), flags) < 0
swap_line(a, b) == [index EXCEPT ![a + 1] = index[b + 1], ![b + 1] = index[a + 1]]

Build ==
    /\ pc = "build"
    /\ IF start > 0
         THEN start' = start - 1 /\ root' = start - 1 /\ pc' = "siftBuild"
         ELSE UNCHANGED <<start, root>> /\ pc' = "extract"
    /\ UNCHANGED <<input, flags, index, end, truncated, out>>

\* The larger child under end, or the root itself.
Larger(r, e) ==
    LET child == 2 * r + 1
        a == IF child < e /\ line_lt(r, child) THEN child ELSE r
    IN IF child + 1 < e /\ line_lt(a, child + 1) THEN child + 1 ELSE a
sift_down ==
    /\ pc \in {"siftBuild", "siftExtract"}
    /\ \E swap \in {Larger(root, end)} :
         IF swap = root
           THEN pc' = (IF pc = "siftBuild" THEN "build" ELSE "extract") /\ UNCHANGED <<index, root>>
           ELSE index' = swap_line(root, swap) /\ root' = swap /\ UNCHANGED pc
    /\ UNCHANGED <<input, flags, start, end, truncated, out>>

Extract ==
    /\ pc = "extract"
    /\ IF end > 1
         THEN /\ end' = end - 1 /\ index' = swap_line(0, end - 1)
              /\ root' = 0 /\ pc' = "siftExtract"
         ELSE pc' = "print" /\ UNCHANGED <<end, index, root>>
    /\ UNCHANGED <<input, flags, start, truncated, out>>

\* Printing, one line after the other; -u compares with the line printed last.
Dropped(k, cur) == "u" \in flags /\ out # <<>> /\ compare(cur, out[Len(out)], flags) = 0
PrintLine ==
    /\ pc = "print"
    /\ IF start < n
         THEN /\ out' = IF Dropped(start + 1, Line(start)) THEN out ELSE Append(out, Line(start))
              /\ start' = start + 1 /\ UNCHANGED pc
         ELSE pc' = "done" /\ UNCHANGED <<out, start>>
    /\ UNCHANGED <<input, flags, index, end, root, truncated>>

SortNext == ReadLines \/ Build \/ sift_down \/ Extract \/ PrintLine
SortSpec == SortInit /\ [][SortNext]_vars

(***************************************************************************)
(* Properties.                                                             *)
(***************************************************************************)
Count(s, x) == Cardinality({i \in DOMAIN s : s[i] = x})
\* Every line of the input, the one its last line end does not close included.
AllLines == IF input.tail = <<>> THEN input.lines ELSE Append(input.lines, input.tail)
TooLarge == Bytes[Len(input.lines)] + Len(input.tail) > data_cap \/ Len(input.lines) > max_lines
\* What is printed is these lines, each as often; with -u one of each class.
Prints(lines) ==
    IF "u" \in flags
      THEN /\ \A k \in DOMAIN out : \E j \in DOMAIN lines : lines[j] = out[k]
           /\ \A j \in DOMAIN lines : \E k \in DOMAIN out : compare(lines[j], out[k], flags) = 0
      ELSE Len(out) = Len(lines) /\ \A k \in DOMAIN out : Count(out, out[k]) = Count(lines, out[k])
\* The first k lines and j bytes of the next, as much as there is room for.
Fills(k, j) == (k = max_lines /\ j = 0) \/ Bytes[k] + j = data_cap
Beginning(k, j) == SubSeq(AllLines, 1, k) \o IF j = 0 THEN <<>> ELSE <<SubSeq(AllLines[k + 1], 1, j)>>
\* The one line that goes without a word: the index is full of lines that are
\* closed, and one that is not comes last.
LastHasNoPlace == input.tail # <<>> /\ Len(input.lines) = max_lines

\* While the heap shrinks, what has been taken out stands in order behind it
\* and nothing left in it comes after what was taken.  At the end the lines are
\* printed in order, and they are all the lines of the input; or sort says that
\* its input was too large, which it was, and they are the part of it there was
\* room for; or the last line had no line end and no place (LastHasNoPlace).
SortedAndWhole ==
    /\ pc \in {"extract", "siftExtract"} =>
         /\ \A i \in end .. n - 2 : ~line_lt(i + 1, i)
         /\ end < n => \A i \in 0 .. end - 1 : ~line_lt(end, i)
    /\ pc = "done" =>
         /\ \A k \in 1 .. Len(out) - 1 :
               compare(out[k], out[k + 1], flags) <= IF "u" \in flags THEN -1 ELSE 0
         /\ truncated => TooLarge
         /\ \/ Prints(AllLines)
            \/ /\ truncated
               /\ \E k \in 0 .. Len(AllLines) - 1 : \E j \in 0 .. Len(AllLines[k + 1]) :
                     Fills(k, j) /\ Prints(Beginning(k, j))
            \/ LastHasNoPlace /\ Prints(input.lines)

(***************************************************************************)
(* more: the content is read into the heap, then shown a screen at a time. *)
(* A line is the number of screen rows it takes (screen_rows); the content *)
(* is what fits the heap, so only whole lines and a last one cut short     *)
(* occur.  Any key but q, Q and Enter shows another screen.                *)
(***************************************************************************)
CONSTANTS Contents,   \* sequences of line widths, in columns
          Screens,    \* [cols, rows]
          HeapLines   \* how many lines the heap holds
VARIABLES screen, content, pos, used, to_show, fresh   \* and input, pc, as for sort

pageVars == <<input, screen, content, pos, used, to_show, fresh, pc>>
Max(a, b) == IF a > b THEN a ELSE b
page_rows(s) == Max(s.rows, 2) - 1
screen_rows(width, cols) == Max((width + Max(cols, 1) - 1) \div Max(cols, 1), 1)

PageInit == /\ input \in Contents /\ screen \in Screens
            /\ content = <<>> /\ pos = 0 /\ used = 0 /\ to_show = 0 /\ fresh = 0 /\ pc = "read"

ReadContent == /\ pc = "read"
               /\ content' = SubSeq(input, 1, Min(Len(input), HeapLines))
               /\ to_show' = page_rows(screen)
               /\ pc' = IF content' = <<>> THEN "done" ELSE "show"
               /\ UNCHANGED <<input, screen, pos, used, fresh>>

\* A line that does not fit under what this page already shows waits for the
\* next one; the first line of a page is shown whatever its height.
Waits(need) == used > 0 /\ used + need > to_show
Pause == /\ pc' = IF pos' >= Len(content) THEN "done" ELSE "key"
         /\ UNCHANGED <<input, screen, content, to_show>>
ShowLine ==
    /\ pc = "show" /\ pos < Len(content)
    /\ \E need \in {screen_rows(content[pos + 1], screen.cols)} :
         IF Waits(need) THEN UNCHANGED <<pos, used, fresh>> /\ Pause
         ELSE /\ pos' = pos + 1 /\ used' = used + need /\ fresh' = fresh + 1
              /\ IF used' >= to_show THEN Pause
                 ELSE UNCHANGED <<input, screen, content, to_show, pc>>
ShowEnd == pc = "show" /\ pos = Len(content) /\ UNCHANGED <<pos, used, fresh>> /\ Pause

Key == /\ pc = "key"
       /\ \/ pc' = "done" /\ UNCHANGED <<to_show, used, fresh>>
          \/ /\ to_show' \in {1, page_rows(screen)}
             /\ used' = 0 /\ fresh' = 0 /\ pc' = "show"
       /\ UNCHANGED <<input, screen, content, pos>>

PageNext == ReadContent \/ ShowLine \/ ShowEnd \/ Key
PageSpec == PageInit /\ [][PageNext]_vars

\* Nothing scrolls off unread: what a key brought up fits on the screen above
\* the prompt, unless it is one line that is taller than the screen; and every
\* key brings at least one line, so pressing keys gets to the end.
PageFits ==
    pc \in {"key", "done"} /\ content # <<>> =>
        /\ used <= page_rows(screen) \/ fresh = 1
        /\ fresh > 0
=============================================================================
