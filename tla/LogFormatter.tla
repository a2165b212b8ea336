---------------------------- MODULE LogFormatter ----------------------------
(***************************************************************************)
(* LogFormatter::init() (log.cc:506-637): how a pattern is divided into    *)
(* the items of a log line.  A pattern is a sequence of characters, made   *)
(* longer one by one; only the kinds that init() tells apart are needed.   *)
(* A letter that names no item gives "<<error_format>>" in place of the    *)
(* item: that is left to format().                                         *)
(***************************************************************************)
EXTENDS Integers, Sequences, FiniteSetsExt, SequencesExt

CONSTANTS
    Letters,      \* isalpha()
    Others,       \* characters that are neither letters nor "%", "{", "}"
    MaxPattern    \* bound: the length of a pattern

ASSUME LogFormatterConstants ==
    /\ (Letters \cup Others) \cap {"%", "{", "}"} = {}
    /\ Letters \cap Others = {} /\ MaxPattern \in Nat

VARIABLE
    m_pattern

Chars == Letters \cup Others \cup {"%", "{", "}"}

PatternInit == m_pattern = <<>>

LengthenPattern(c) == Len(m_pattern) < MaxPattern /\ m_pattern' = Append(m_pattern, c)

PatternNext == \E c \in Chars : LengthenPattern(c)

PatternSpec == PatternInit /\ [][PatternNext]_m_pattern
-----------------------------------------------------------------------------
NoFmt == <<>>

TextItem(s) == [kind |-> "text", str |-> s, fmt |-> NoFmt]

\* The text collected so far becomes an item, if there is any.
Flush(out, nstr) == IF nstr = <<>> THEN out ELSE Append(out, TextItem(nstr))

\* The first position behind i whose character satisfies Is, or behind the end.
FirstFrom(i, Is(_)) ==
    Min({j \in i .. Len(m_pattern) : Is(m_pattern[j])} \cup {Len(m_pattern) + 1})

IsAt(i, c) == i <= Len(m_pattern) /\ m_pattern[i] = c

\* Where the letters of the item at i end: at "{", or at what is no letter and no brace.
NameEnd(i) == FirstFrom(i + 1, LAMBDA c : c \notin Letters \cup {"}"})

FmtEnd(i) == FirstFrom(NameEnd(i) + 1, LAMBDA c : c = "}")

\* fmt_status is still 1 at the end of the pattern.
Unclosed(i) == IsAt(NameEnd(i), "{") /\ FmtEnd(i) > Len(m_pattern)

ItemAt(i) ==
    [kind |-> "item",
     str  |-> SubSeq(m_pattern, i + 1, NameEnd(i) - 1),
     fmt  |-> IF IsAt(NameEnd(i), "{") THEN SubSeq(m_pattern, NameEnd(i) + 1, FmtEnd(i) - 1)
                                       ELSE NoFmt]

PatternError == [kind |-> "error", str |-> <<>>, fmt |-> NoFmt]

\* Faulty variant: the character behind a name is skipped as well.
ItemNextSkips(i) == IF IsAt(NameEnd(i), "{") THEN FmtEnd(i) + 1 ELSE NameEnd(i) + 1

\* Behind the "}" of its format, or at the end of its name.
ItemNext(i) == IF IsAt(NameEnd(i), "{") THEN FmtEnd(i) + 1 ELSE NameEnd(i)

\* Before a turn of the loop: the character, the text collected so far and the items.
AtChar(i, nstr, out) == [i |-> i, nstr |-> nstr, out |-> out]

\* A turn of the loop.  Of "%%" the first "%" becomes text, and the second is looked at
\* again; an unclosed item is an error, and the characters behind its "%" become text.
ItemTurn(at) ==
    LET i == at.i
    IN  IF i > Len(m_pattern) THEN at
        ELSE IF m_pattern[i] # "%" THEN AtChar(i + 1, Append(at.nstr, m_pattern[i]), at.out)
        ELSE IF IsAt(i + 1, "%") THEN AtChar(i + 1, Append(at.nstr, "%"), at.out)
        ELSE IF Unclosed(i) THEN AtChar(i + 1, at.nstr, Append(at.out, PatternError))
        ELSE AtChar(ItemNext(i), <<>>, Append(Flush(at.out, at.nstr), ItemAt(i)))

\* vec: the loop takes a character or more at each turn.
Items ==
    LET after[k \in 0 .. Len(m_pattern)] ==
            IF k = 0 THEN AtChar(1, <<>>, <<>>) ELSE ItemTurn(after[k - 1])
        end == after[Len(m_pattern)]
    IN  Flush(end.out, end.nstr)

-----------------------------------------------------------------------------
(* Properties.                                                             *)

\* The characters that stand for an item: "%%" for a "%" in the text.
Source(item) ==
    CASE item.kind = "text" ->
           FlattenSeq([k \in DOMAIN item.str |->
               IF item.str[k] = "%" THEN <<"%", "%">> ELSE <<item.str[k]>>])
      [] item.kind = "item" ->
           <<"%">> \o item.str
               \o (IF item.fmt = NoFmt THEN <<>> ELSE <<"{">> \o item.fmt \o <<"}">>)
      [] item.kind = "error" -> <<>>

EmptyFmt == \E i \in DOMAIN m_pattern : m_pattern[i] = "{" /\ IsAt(i + 1, "}")

\* Nothing of a pattern is lost, doubled or moved: its items, written down again, are
\* the pattern.  The exceptions: "%%", which is to be a "%" ("注意%%表示单纯的%",
\* log.cc:509) and is that and an item as well, and a "{" without its "}", whose
\* error comes before the text that it stands behind (line 590).
PatternExact ==
    LET items == Items
    IN  ~ EmptyFmt /\ (\A k \in DOMAIN items : items[k] # PatternError) =>
            (FlattenSeq([k \in DOMAIN items |-> Source(items[k])]) = m_pattern
                <=> \A k \in DOMAIN items : items[k].kind = "text" => ~ Contains(items[k].str, "%"))
=============================================================================
