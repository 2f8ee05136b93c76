----------------------------- MODULE DynString -----------------------------
(***************************************************************************)
(* Dynamic strings (src/lib/dynamic-string.c): the output of the bridge    *)
(* command, the paths of its data and the hardware version are built in    *)
(* one.  A text is a sequence of one-character strings.  One string; each   *)
(* call that reads a file reads one of its own, a sequence of lines.       *)
(***************************************************************************)
EXTENDS Integers, SequencesExt

CONSTANTS
    Chars,         \* the characters
    Octal,         \* how to escape each that is not printable, quotes and backslashes
    Pieces,        \* texts that are put
    Files,
    NUL,
    MaxLength      \* bound: characters in the string before it is escaped

\* What the constants must satisfy; Containers assumes it.
ConstantsOK ==
    /\ NUL \in Chars /\ MaxLength \in Nat
    /\ DOMAIN Octal \subseteq Chars /\ \A c \in DOMAIN Octal : Octal[c] \in Seq(Chars)
    /\ Pieces \subseteq Seq(Chars) /\ Files \subseteq Seq(Seq(Chars))
    /\ \A s \in Pieces \cup UNION {ToSet(file) : file \in Files} : NUL \notin ToSet(s)

VARIABLES
    ds,            \* [string |-> the bytes below length, null |-> no memory yet,
                   \* nul |-> the byte at length is NUL, allocated |-> bytes]
    ret,           \* the answer of the last call
    aborted        \* an assertion failed, or a null pointer was read through

vars == <<ds, ret, aborted>>

ds_init == [string |-> <<>>, null |-> TRUE, nul |-> FALSE, allocated |-> 0]

NoAnswer == [rc |-> 0, text |-> <<>>, read |-> 0]

Init ==
    /\ ds = ds_init
    /\ ret = NoAnswer
    /\ aborted = FALSE

-----------------------------------------------------------------------------
(* The functions *)

Larger(m, n) == IF m > n THEN m ELSE n
Length(d) == Len(d.string)

\* The bytes stay, with the one at length.
ds_clear(d) == [d EXCEPT !.string = <<>>, !.nul = d.nul /\ d.string = <<>>]

ds_truncate(d, k) ==
    IF Length(d) > k THEN [d EXCEPT !.string = SubSeq(@, 1, k), !.nul = TRUE] ELSE d

ds_reserve(d, min) ==
    IF min > d.allocated \/ d.null
    THEN [d EXCEPT !.allocated = Larger(8, @ + Larger(min, @)), !.null = FALSE]
    ELSE d

\* The bytes are written, with a NUL behind them.
Written(d, s) == [d EXCEPT !.string = @ \o s, !.nul = TRUE]

\* ds_put_uninit() and what its callers copy there.
Put(d, s) == Written(ds_reserve(d, Length(d) + Len(s)), s)

\* Variant: the terminator is not counted.
ds_put_charFits(d, c) ==
    IF Length(d) <= d.allocated /\ ~d.null THEN Written(d, <<c>>) ELSE Put(d, <<c>>)

ds_put_char(d, c) == IF Length(d) < d.allocated THEN Written(d, <<c>>) ELSE Put(d, <<c>>)

Available(d) == d.allocated - Length(d) + 1

\* What vsnprintf() makes of the arguments is tried in place, then with memory enough.
ds_put_format(d, s) ==
    IF ~d.null /\ Len(s) < Available(d) THEN Written(d, s)
    ELSE Written(ds_reserve(d, Length(d) + Len(s)), s)

FormatAsserts(d, s) ==
    (d.null \/ Len(s) >= Available(d))
        => Len(s) < Available(ds_reserve(d, Length(d) + Len(s)))

\* A quote, say, becomes \042; what has been reserved may then be short.
ds_put_printable(d, s) ==
    LET Char(e, c) == IF c \in DOMAIN Octal THEN ds_put_format(e, Octal[c])
                      ELSE ds_put_char(e, c)
        done[k \in 0..Len(s)] ==
            IF k = 0 THEN ds_reserve(d, Length(d) + Len(s)) ELSE Char(done[k - 1], s[k])
    IN done[Len(s)]

ds_cstr(d) == [(IF d.null THEN ds_reserve(d, 0) ELSE d) EXCEPT !.nul = TRUE]

\* What a reader of the pointer sees: the bytes up to a NUL, garbage if there is none.
Upto(s, c) ==
    LET at == {k \in DOMAIN s : s[k] = c}
    IN IF at = {} THEN s ELSE SubSeq(s, 1, Min(at) - 1)
Seen(d) ==
    IF NUL \in ToSet(d.string) \/ d.nul THEN Upto(d.string, NUL)
    ELSE Append(d.string, "garbage")

ds_get_line(d, line) ==
    LET got[k \in 0..Len(line)] ==
            IF k = 0 THEN ds_clear(d) ELSE ds_put_char(got[k - 1], line[k])
    IN got[Len(line)]

\* The comment is cut off with a NUL; length stays.
Cut(d) ==
    LET at == {k \in DOMAIN d.string : d.string[k] = "#"}
    IN IF at = {} THEN d ELSE [d EXCEPT !.string[Min(at)] = NUL]

Space == " "
IsSpace(s) == ToSet(s) \subseteq {Space}

\* Lines are read until one is not blank; at the end of the file ds_get_line() has
\* cleared the string.
ds_get_preprocessed_line(d, file) ==
    LET After[k \in 0..Len(file)] ==
            IF k = 0 THEN d ELSE Cut(ds_cstr(ds_get_line(After[k - 1], file[k])))
        useful == {k \in DOMAIN file : ~IsSpace(Seen(After[k]))}
    IN IF useful = {}
       THEN [d |-> ds_clear(After[Len(file)]), rc |-> -1, read |-> Len(file)]
       ELSE [d |-> After[Min(useful)], rc |-> 0, read |-> Min(useful)]

-----------------------------------------------------------------------------
(* Calls *)

Answers(answer) == ret' = answer /\ UNCHANGED aborted
Returns(rc) == Answers([NoAnswer EXCEPT !.rc = rc])
Shows(text) == Answers([NoAnswer EXCEPT !.text = text])
Silent == Returns(0)

\* ds_put_cstr(), ds_put_buffer(), ds_put_char_multiple(), ds_put_printable() or
\* ds_put_format().
PutPiece(s) ==
    /\ Length(ds) + Len(s) <= MaxLength
    /\ ds' \in {Put(ds, s), ds_put_printable(ds, s), ds_put_format(ds, s)}
    /\ ret' = NoAnswer
    /\ aborted' = ~FormatAsserts(ds, s)

PutChar(c) ==
    /\ Length(ds) < MaxLength
    /\ ds' = ds_put_char(ds, c)
    /\ Silent

Clear == ds' = ds_clear(ds) /\ Silent

Truncate(k) == ds' = ds_truncate(ds, k) /\ Silent

GetLine(file) ==
    IF file = <<>> THEN ds' = ds_clear(ds) /\ Returns(-1)
    ELSE ds' = ds_get_line(ds, file[1]) /\ Returns(0)

\* ds_get_preprocessed_line(); ds_get_test_line() differs in what it prints.
GetUsefulLine(file) ==
    LET got == ds_get_preprocessed_line(ds, file) IN
    /\ ds' = got.d
    /\ Answers([NoAnswer EXCEPT !.rc = got.rc, !.read = got.read])

Cstr == ds' = ds_cstr(ds) /\ Shows(Seen(ds'))

Steal == ds' = ds_init /\ Shows(Seen(ds_cstr(ds)))

AskLast ==
    /\ Shows(IF ds.string = <<>> THEN <<>> ELSE <<Last(ds.string)>>)
    /\ UNCHANGED ds

Chomp(c) ==
    IF ds.string # <<>> /\ Last(ds.string) = c
    THEN ds' = [ds EXCEPT !.string = Front(@), !.nul = TRUE] /\ Returns(1)
    ELSE UNCHANGED ds /\ Returns(0)

\* The caller goes on with the clone and destroys the source.  The byte at length is
\* copied too.
Clone ==
    IF ds.null THEN aborted' = TRUE /\ UNCHANGED <<ds, ret>>
    ELSE ds' = [ds EXCEPT !.allocated = Length(ds)] /\ Silent

Next ==
    /\ ~aborted
    /\ \/ \E s \in Pieces :
            \/ PutPiece(s)
            \/ s # <<>> /\ PutChar(Head(s))
            \/ Truncate(Len(s))
       \/ Clear
       \/ \E file \in Files : GetLine(file) \/ GetUsefulLine(file)
       \/ Cstr
       \/ Steal
       \/ AskLast
       \/ Chomp(Space)
       \/ Clone

Spec == Init /\ [][Next]_vars

-----------------------------------------------------------------------------
(* Properties *)

\* What has been written of a string, its terminator included, lies in its memory.
Fits(d) == IF d.null THEN d.string = <<>> ELSE Length(d) <= d.allocated

\* However its memory grows, is cleared without a trace in the bytes, cut or copied,
\* each string is the text that was put, is terminated when it is asked for, and
\* stays in its memory; only a string that never had memory cannot be cloned.
Abstract == INSTANCE Texts
    WITH A <- ds.string, safe <- ~aborted /\ Fits(ds)
ImplementsTexts == Abstract!Spec

=============================================================================
