------------------------------- MODULE Texts -------------------------------
(* What src/lib/dynamic-string.h promises: a text that never outgrows its    *)
(* memory.  Whoever asks for one gets it up to its first NUL.                 *)
EXTENDS Integers, SequencesExt

CONSTANTS Octal, Pieces, Files, NUL

VARIABLES
    A,
    ret,           \* the answer of the last call
    safe           \* no call has read or written outside the memory of a text

vars == <<A, ret, safe>>

NoAnswer == [rc |-> 0, text |-> <<>>, read |-> 0]
Answers(answer) == ret' = answer /\ UNCHANGED safe
Returns(rc) == Answers([NoAnswer EXCEPT !.rc = rc])
Silent == Returns(0)

UpTo(text, c) ==
    IF c \in ToSet(text)
    THEN SubSeq(text, 1, Min({k \in DOMAIN text : text[k] = c}) - 1)
    ELSE text

Space == " "

\* What is left of a line without its comment, and if there is anything.
Uncommented(line) == UpTo(line, "#")
Blank(line) == ToSet(Uncommented(line)) \subseteq {Space}

Escaped(text) ==
    LET Char(c) == IF c \in DOMAIN Octal THEN Octal[c] ELSE <<c>>
        before[k \in 0..Len(text)] ==
            IF k = 0 THEN <<>> ELSE before[k - 1] \o Char(text[k])
    IN before[Len(text)]

Init == A = <<>> /\ ret = NoAnswer /\ safe = TRUE

Put(s) ==
    A' \in {A \o s, A \o Escaped(s)} /\ Silent

Truncate ==
    (\E k \in 0..Len(A) : A' = SubSeq(A, 1, k)) /\ Silent

\* The first line, if there is one.
GetLine(file) ==
    \/ file # <<>> /\ A' = file[1] /\ Returns(0)
    \/ file = <<>> /\ A' = <<>> /\ Returns(-1)

\* The first line that is not blank, without its comment; the answer of a call that
\* found none is the end of the file, and the number of lines looked at is right.
GetUsefulLine(file) ==
    LET useful == {k \in DOMAIN file : ~Blank(file[k])} IN
    \/ /\ useful # {}
       /\ UpTo(A', NUL) = Uncommented(file[Min(useful)])
       /\ Answers([NoAnswer EXCEPT !.read = Min(useful)])
    \/ /\ useful = {}
       /\ A' = <<>>
       /\ Answers([NoAnswer EXCEPT !.rc = -1, !.read = Len(file)])

AnswersText(text) == Answers([NoAnswer EXCEPT !.text = text])

Cstr == AnswersText(UpTo(A, NUL)) /\ UNCHANGED A

Steal == AnswersText(UpTo(A, NUL)) /\ A' = <<>>

AskLast == AnswersText(IF A = <<>> THEN <<>> ELSE <<Last(A)>>) /\ UNCHANGED A

Chomp(c) ==
    \/ A # <<>> /\ Last(A) = c /\ A' = Front(A) /\ Returns(1)
    \/ (A # <<>> => Last(A) # c) /\ UNCHANGED A /\ Returns(0)

\* An empty text may have no memory yet that could be read.
Clone ==
    \/ Silent /\ UNCHANGED A
    \/ A = <<>> /\ safe' = FALSE /\ UNCHANGED <<A, ret>>

Next ==
    /\ safe
    /\ \/ \E s \in Pieces : Put(s) \/ (s # <<>> /\ Put(<<Head(s)>>))
       \/ Truncate
       \/ \E file \in Files : GetLine(file) \/ GetUsefulLine(file)
       \/ Cstr
       \/ Steal
       \/ AskLast
       \/ Chomp(Space)
       \/ Clone

Spec == Init /\ [][Next]_vars

=============================================================================
