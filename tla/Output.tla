------------------------------- MODULE Output -------------------------------
(* What is kept of the output of a command: Capture::push, Capture::render *)
(* and bounded of src/src/tool/shell.rs.                                   *)
(*                                                                         *)
(* A byte of a stream is its position.  A byte that is no text takes three *)
(* bytes when it is rendered; a character of several bytes that is cut     *)
(* apart becomes such bytes, so the instance may choose any to be bad.     *)
EXTENDS Integers, Sequences, FiniteSetsExt

CONSTANTS
    Half,       \* HALF_OUTPUT; MAX_OUTPUT is twice that
    Mark,       \* length of MARKER
    MaxStream,  \* bound: bytes a command writes to a stream
    MaxChunk    \* bound: bytes of one read of a pipe

VARIABLES
    capture,  \* per stream: head, tail and total
    bad       \* the bytes of both streams that are no text

outputVars == <<capture, bad>>

Stream == {"stdout", "stderr"}
MaxOutput == 2 * Half

\* n bytes of a stream after the first m; n bytes of a marker, which are of no stream.
Stretch(m, n) == [i \in 1 .. n |-> m + i]
Elided(n) == [i \in 1 .. n |-> 0]
Marker == Elided(Mark)
Empty == [head |-> <<>>, tail |-> <<>>, total |-> 0]

ASSUME OutputAssumption ==
    /\ Half \in Nat
    /\ Mark \in Nat \ {0, 1}  \* a byte that does not fit leaves two free
    /\ MaxStream \in Nat /\ MaxChunk \in Nat \ {0}

OutputInit ==
    /\ capture = [s \in Stream |-> Empty]
    /\ bad \in SUBSET (1 .. MaxStream)

AtMost(a, b) == IF a < b THEN a ELSE b

\* Capture::push: the head takes what it has room for, the tail keeps the last of
\* the rest.
Push(kept, bytes) ==
    LET room == AtMost(Half - Len(kept.head), Len(bytes))
        rest == SubSeq(bytes, room + 1, Len(bytes))
        excess == Len(kept.tail) + Len(rest) - Half
    IN  [head  |-> kept.head \o SubSeq(bytes, 1, room),
         tail  |-> IF Len(rest) >= Half
                   THEN SubSeq(rest, Len(rest) - Half + 1, Len(rest))
                   ELSE SubSeq(kept.tail, (IF excess > 0 THEN excess ELSE 0) + 1, Len(kept.tail))
                        \o rest,
         total |-> kept.total + Len(bytes)]

Reads(s) ==
    /\ \E n \in 1 .. AtMost(MaxChunk, MaxStream - capture[s].total) :
        capture' = [capture EXCEPT ![s] = Push(@, Stretch(@.total, n))]
    /\ UNCHANGED bad

OutputNext == \E s \in Stream : Reads(s)

OutputSpec == OutputInit /\ [][OutputNext]_outputVars

----------------------------------------------------------------------------

\* A byte that is no text is rendered as three.
Size(text) == Len(text) + 2 * Cardinality({i \in DOMAIN text : text[i] \in bad})

\* Where a text may be cut: after how many characters the bytes are at most n, and
\* from which character on they are at most n.
Upto(text, n) == Max({i \in 0 .. Len(text) : Size(SubSeq(text, 1, i)) <= n})
From(text, n) == Min({i \in 1 .. Len(text) + 1 : Size(SubSeq(text, i, Len(text))) <= n})

\* Mutant: only the bytes that came are counted.
BoundNever(text, limit) == text

\* bound: a text that has grown when it was rendered is cut again.
Bound(text, limit) ==
    IF Size(text) <= limit THEN text
    ELSE IF limit <= Mark THEN SubSeq(text, 1, Upto(text, limit))
    ELSE LET keep == limit - Mark
             left == SubSeq(text, 1, Upto(text, keep \div 2))
         IN  left \o Marker
                  \o SubSeq(text, From(text, keep - Size(left)), Len(text))

Render(kept, limit) ==
    LET bytes == kept.head \o kept.tail
        keep == IF limit > Mark THEN limit - Mark ELSE 0
        prefix == AtMost(keep \div 2, Len(bytes))
        suffix == AtMost(keep - keep \div 2, Len(bytes))
    IN  IF limit = 0 THEN <<>>
        ELSE IF kept.total <= limit THEN Bound(bytes, limit)
        ELSE Bound(SubSeq(bytes, 1, prefix) \o Marker
                   \o SubSeq(bytes, Len(bytes) - suffix + 1, Len(bytes)), limit)

\* bounded: how much each stream may take.
Limits(out, err) ==
    LET spare == MaxOutput - out - err IN
    IF out + err <= MaxOutput
    THEN IF out = 0 THEN <<0, MaxOutput>>
         ELSE IF err = 0 THEN <<MaxOutput, 0>>
         ELSE <<out + spare \div 2, err + spare - spare \div 2>>
    ELSE IF out <= Half THEN <<out, MaxOutput - out>>
    ELSE IF err <= Half THEN <<MaxOutput - err, err>>
    ELSE <<Half, Half>>

Rendered ==
    LET out == capture["stdout"]
        err == capture["stderr"]
        limits == Limits(out.total, err.total)
    IN  <<Render(out, limits[1]), Render(err, limits[2])>>

----------------------------------------------------------------------------

\* The beginning of a stream and the end of it, and only the elision between them.
Abridged(text, total) ==
    \E a, b \in 0 .. Len(text) :
        /\ a + b <= AtMost(total, Len(text))
        /\ text = Stretch(0, a) \o Elided(Len(text) - a - b) \o Stretch(total - b, b)

\* What the agent is shown of a command: both streams together never exceed the
\* limit, also when bytes grow in the rendering; each is a beginning of the stream
\* and an end of it with the elision between, and no byte is shown twice; and when
\* all of it is text that fits, nothing is elided, however the reads cut the streams.
OutputKept ==
    LET shown == Rendered
        out == capture["stdout"].total
        err == capture["stderr"].total
    IN  /\ Size(shown[1]) + Size(shown[2]) <= MaxOutput
        /\ Abridged(shown[1], out) /\ Abridged(shown[2], err)
        /\ bad = {} /\ out + err <= MaxOutput => shown = <<Stretch(0, out), Stretch(0, err)>>
=============================================================================
