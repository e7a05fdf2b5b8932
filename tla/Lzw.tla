-------------------------------- MODULE Lzw --------------------------------
(***************************************************************************)
(* compress42.c of ncompress: compress() of a text and decompress() of the *)
(* file it leaves.  The file is kept bit by bit (the set of the positions  *)
(* of its 1 bits), because output() ORs a code in without masking it, and  *)
(* the two sides must agree on where each code begins and how wide it is,  *)
(* padding included.  The hash table is a function from pairs to codes.    *)
(***************************************************************************)
EXTENDS Integers, Sequences

CONSTANTS
    Literals,       \* 256: the values of a byte
    InitBits,       \* INIT_BITS, 9
    Bits,           \* what -b may be
    BlockModes,     \* {TRUE}, {FALSE} with -C
    ByteBits,       \* 8
    OBufSiz,        \* OBUFSIZ, in bytes
    OutSpare,       \* 2048: bytes outbuf has beyond OBUFSIZ
    OutSlack,       \* 32: bytes at its end that a chunk leaves free
    InSpare,        \* 64: bytes inbuf has beyond IBUFSIZ
    IBufSiz,        \* IBUFSIZ: what read returns before the end of a file
    CheckGap,       \* CHECK_GAP, 10000
    Openings,       \* bound: a text begins with one of these,
    Letters,        \* ends with these bytes
    MaxTail         \* and has at most so many of them

CLEAR == Literals
FIRST == Literals + 1
MAXCODE(n) == 2 ^ n

ASSUME WidthAssumption ==
    /\ Literals \in Nat \ {0} /\ InitBits \in Nat /\ ByteBits \in Nat \ {0}
    /\ MAXCODE(InitBits) = 2 * Literals
    /\ \A b \in Bits : b \in InitBits .. Literals
    /\ Letters \subseteq 0 .. Literals - 1 /\ Openings \subseteq Seq(0 .. Literals - 1)
\* The code relies on it: the codes of a width fill whole groups; the last code
\* of a file may be read with one bit more than it has; what is left of the
\* last byte is never taken for a code.
ASSUME PackingAssumption ==
    /\ Literals % ByteBits = 0
    /\ \A b \in Bits : \A n \in InitBits .. b - 1 : n % ByteBits # 0
    /\ InitBits >= ByteBits
\* What a chunk leaves free in outbuf takes two codes and the rest of a group
\* (160 of 256 bits), and so much is written with a full buffer.
ASSUME BufferAssumption ==
    /\ OBufSiz \in Nat \ {0} /\ OutSpare \in Nat /\ OutSlack \in 0..OutSpare
    /\ IBufSiz \in Nat \ {0} /\ CheckGap \in Nat \ {0} /\ InSpare \in Nat
    /\ \A b \in Bits : /\ InSpare >= b
                       /\ (2 + ByteBits) * b <= OutSlack * ByteBits
                       /\ (2 + ByteBits) * b <= OBufSiz * ByteBits
\* Arithmetic that the provers lack.
ASSUME PowersAssumption ==
    \A n \in 0 .. Literals : 2 ^ n \in Nat \ {0} /\ 2 ^ (n + 1) = 2 * 2 ^ n

VARIABLES
    maxbits, block_mode,
    opening,    \* how the input begins
    pc,         \* where the program is
    text,       \* what compress has taken from its input; rpos is its length
    enc,        \* the other local variables of compress
    file,       \* positions of the 1 bits of the compressed file
    dec,        \* the local variables of decompress
    out         \* what decompress has put out

vars == <<maxbits, block_mode, opening, pc, text, enc, file, dec, out>>

Byte == 0 .. Literals - 1
Lower(a, b) == IF a < b THEN a ELSE b
With(f, x, y) == [z \in DOMAIN f \cup {x} |-> IF z = x THEN y ELSE f[z]]
HeaderBits == 3 * ByteBits

\* From bit "at" on to the end of the group of ByteBits codes it is in; the
\* groups of this width begin at "from".
GroupEnd(at, from, width) ==
    LET group == width * ByteBits
    IN  (at - 1) + group - ((at - from - 1 + group) % group)

(***************************************************************************)
(* compress.  Positions in the input count from its first byte, so rlop is *)
(* also bytes_in; a position in outbuf is bytes_out bytes into the file.   *)
(***************************************************************************)
EncInit == [ent |-> 0, rlop |-> 0, rsize |-> 0, checkpoint |-> CheckGap,
            outbits |-> HeaderBits, boff |-> HeaderBits, bytes_out |-> 0,
            n_bits |-> InitBits, extcode |-> MAXCODE(InitBits) + 1,
            free_ent |-> FIRST, stcode |-> TRUE, htab |-> <<>>]

Bit(code, k) == (code \div 2 ^ k) % 2 = 1

\* output(): the bits of the code, however many, are ORed in.
Written(e, code) ==
    file \cup {e.bytes_out * ByteBits + e.outbits + k :
                   k \in {j \in 0 .. Literals : Bit(code, j)}}
Past(e) == [e EXCEPT !.outbits = @ + e.n_bits]

Padded(e) ==
    LET end == GroupEnd(e.outbits, e.boff, e.n_bits)
    IN  [e EXCEPT !.outbits = end, !.boff = end]

\* The table outgrew the width: wider codes, or no more entries.
Widened(e) ==
    LET p == Padded(e)
        n == e.n_bits + 1
    IN  IF e.free_ent < e.extcode \/ e.ent >= FIRST THEN e
        ELSE IF e.n_bits < maxbits
        THEN [p EXCEPT !.n_bits = n,
                       !.extcode = MAXCODE(n) + (IF n < maxbits THEN 1 ELSE 0)]
        ELSE [e EXCEPT !.extcode = MAXCODE(16) + OBufSiz, !.stcode = FALSE]

CheckDue(e) == ~e.stcode /\ e.rlop >= e.checkpoint /\ e.ent < FIRST
NextCheck(e) == [e EXCEPT !.checkpoint = e.rlop + CheckGap]
Restarted(e) == [Padded(Past(e)) EXCEPT
                    !.n_bits = InitBits, !.extcode = MAXCODE(InitBits) + 1,
                    !.free_ent = FIRST, !.stcode = TRUE, !.htab = <<>>]

\* Seeded defect: the groups of codes no longer begin where they did.
FlushedInPlace(e) ==
    LET full == OBufSiz * ByteBits
    IN  IF e.outbits < full THEN e
        ELSE [e EXCEPT !.outbits = @ - full, !.bytes_out = @ + OBufSiz, !.boff = 0]

\* A full buffer is written and what lies beyond it moved to the front.
Flushed(e) ==
    LET full == OBufSiz * ByteBits
    IN  IF e.outbits < full THEN e
        ELSE [e EXCEPT !.outbits = @ - full, !.bytes_out = @ + OBufSiz,
                       !.boff = -((full - e.boff) % (e.n_bits * ByteBits))]

Room(e) == ((OBufSiz + OutSpare - OutSlack) * ByteBits - e.outbits) \div e.n_bits
\* Seeded defect: a chunk takes no heed of the space in outbuf.
ChunkUnbounded(e) == Lower(Lower(e.rsize - e.rlop, e.extcode - e.free_ent),
                           IF e.stcode THEN e.rsize ELSE e.checkpoint - e.rlop)
Chunk(e) == Lower(Lower(Lower(e.rsize - e.rlop, e.extcode - e.free_ent), Room(e)),
                  IF e.stcode THEN e.rsize ELSE e.checkpoint - e.rlop)
Chunked(e) == [e EXCEPT !.rlop = @ + Chunk(e)]

\* What the next byte of the input may be.
Upcoming == LET n == Len(text) + 1
            IN  IF n <= Len(opening) THEN {opening[n]} ELSE Letters

Fill ==
    /\ pc = "read" /\ enc.rsize % IBufSiz = 0
    /\ \E n \in 1 .. IBufSiz :
         /\ enc.rsize + n <= Len(opening) + MaxTail
         /\ IF text = <<>>
            THEN \E c \in Upcoming : /\ text' = <<c>>
                                     /\ enc' = [enc EXCEPT !.rsize = n, !.ent = c]
            ELSE text' = text /\ enc' = [enc EXCEPT !.rsize = @ + n]
    /\ pc' = "top"
    /\ UNCHANGED <<maxbits, block_mode, opening, file, dec, out>>

\* The head of the loop.  Whether the compression rate fell is left open.
StartChunk ==
    /\ pc = "top"
    /\ LET w == Widened(enc)
       IN  \/ /\ enc' = Chunked(Flushed(IF CheckDue(w) THEN NextCheck(w) ELSE w))
              /\ file' = file
           \/ /\ CheckDue(w)
              /\ enc' = Chunked(Flushed(Restarted(NextCheck(w))))
              /\ file' = Written(w, CLEAR)
    /\ pc' = "chars"
    /\ UNCHANGED <<maxbits, block_mode, opening, text, dec, out>>

InChunk == Len(text) < enc.rlop \/ (enc.ent >= FIRST /\ Len(text) < enc.rsize)

NextByte ==
    /\ pc = "chars" /\ InChunk
    /\ \E c \in Upcoming :
         LET pair == <<enc.ent, c>>
         IN  /\ text' = Append(text, c)
             /\ \/ /\ pair \in DOMAIN enc.htab
                   /\ enc' = [enc EXCEPT !.ent = enc.htab[pair]]
                   /\ file' = file
                \/ /\ pair \notin DOMAIN enc.htab
                   /\ file' = Written(enc, enc.ent)
                   /\ LET e == [Past(enc) EXCEPT !.ent = c]
                      IN  enc' = IF ~e.stcode THEN e
                                 ELSE [e EXCEPT !.htab = With(@, pair, e.free_ent),
                                                !.free_ent = @ + 1]
    /\ UNCHANGED <<maxbits, block_mode, opening, pc, dec, out>>

EndChunk ==
    /\ pc = "chars" /\ ~InChunk
    /\ LET rlop == Len(text)
       IN  /\ enc' = [enc EXCEPT !.rlop = rlop]
           /\ pc' = IF rlop < enc.rsize THEN "top" ELSE "read"
    /\ UNCHANGED <<maxbits, block_mode, opening, text, file, dec, out>>

\* read returns 0: the pending code and the rest of the buffer are written.
EndOfInput ==
    /\ pc = "read"
    /\ IF text = <<>> THEN UNCHANGED <<enc, file>>
       ELSE enc' = Past(enc) /\ file' = Written(enc, enc.ent)
    /\ pc' = "header"
    /\ UNCHANGED <<maxbits, block_mode, opening, text, dec, out>>

FileBytes == enc.bytes_out + (enc.outbits + ByteBits - 1) \div ByteBits

(***************************************************************************)
(* decompress.  base is how many bytes have been dropped from the front of *)
(* inbuf; posbits counts from there.                                       *)
(***************************************************************************)
DecInit == [insize |-> 0, base |-> 0, rsize |-> 0, posbits |-> HeaderBits,
            inbits |-> 0, n_bits |-> InitBits, maxcode |-> MAXCODE(InitBits) - 1,
            free_ent |-> IF block_mode THEN FIRST ELSE FIRST - 1,
            oldcode |-> -1, finchar |-> 0, tab |-> <<>>]

\* A read into inbuf; at the end of the file it returns 0.
Read(d) ==
    LET n == Lower(IBufSiz, FileBytes - (d.base + d.insize))
    IN  [d EXCEPT !.rsize = n, !.insize = @ + n]

ReadHeader ==
    /\ pc = "header"
    /\ IF dec.insize < 3 THEN dec' = Read(dec) /\ pc' = pc
       ELSE dec' = dec /\ pc' = "reset"
    /\ UNCHANGED <<maxbits, block_mode, opening, text, enc, file, out>>

\* resetbuf: only whole groups of codes are taken while there is more to read.
ResetBuf ==
    /\ pc = "reset"
    /\ LET o == dec.posbits \div ByteBits
           d == [dec EXCEPT !.base = @ + o, !.insize = @ - o, !.posbits = 0]
           r == IF d.insize \in 0 .. InSpare - 1 THEN Read(d) ELSE d
       IN  dec' = [r EXCEPT !.inbits =
                      IF r.rsize > 0 THEN (r.insize - (r.insize % r.n_bits)) * ByteBits
                      ELSE r.insize * ByteBits - (r.n_bits - 1)]
    /\ pc' = "codes"
    /\ UNCHANGED <<maxbits, block_mode, opening, text, enc, file, out>>

EndOfCodes ==
    /\ pc = "codes" /\ dec.inbits <= dec.posbits
    /\ pc' = IF dec.rsize > 0 THEN "reset" ELSE "done"
    /\ UNCHANGED <<maxbits, block_mode, opening, text, enc, file, dec, out>>

More == pc = "codes" /\ dec.inbits > dec.posbits
\* Seeded defect: off by one, so that a group that is just full is followed by
\* the skipping of another.
SkipGroupTwice(at) == GroupEnd(at + 1, 0, dec.n_bits)
SkipGroup(at) == GroupEnd(at, 0, dec.n_bits)

WidenCodes ==
    /\ More /\ dec.free_ent > dec.maxcode
    /\ LET n == dec.n_bits + 1
       IN  dec' = [dec EXCEPT !.posbits = SkipGroup(@), !.n_bits = n,
                              !.maxcode = IF n = maxbits THEN MAXCODE(maxbits)
                                          ELSE MAXCODE(n) - 1]
    /\ pc' = "reset"
    /\ UNCHANGED <<maxbits, block_mode, opening, text, enc, file, out>>

Ready == More /\ dec.free_ent <= dec.maxcode
\* input(): the n_bits bits at posbits.
Code == LET at == dec.base * ByteBits + dec.posbits
        IN  CHOOSE c \in 0 .. MAXCODE(dec.n_bits) - 1 :
               \A k \in 0 .. dec.n_bits - 1 : Bit(c, k) <=> at + k \in file
Cleared == Code = CLEAR /\ block_mode
Taken == [dec EXCEPT !.posbits = @ + dec.n_bits]

FirstCode ==
    /\ Ready /\ dec.oldcode = -1
    /\ out' = <<Code % Literals>>
    /\ dec' = [Taken EXCEPT !.oldcode = Code, !.finchar = Code]
    /\ UNCHANGED <<maxbits, block_mode, opening, pc, text, enc, file>>

ClearTable ==
    /\ Ready /\ dec.oldcode # -1 /\ Cleared
    /\ dec' = [dec EXCEPT !.free_ent = FIRST - 1,
                          !.posbits = SkipGroup(Taken.posbits),
                          !.n_bits = InitBits, !.maxcode = MAXCODE(InitBits) - 1]
    /\ pc' = "reset"
    /\ UNCHANGED <<maxbits, block_mode, opening, text, enc, file, out>>

\* The text a code stands for, along the chain of prefixes.  CLEAR stands for
\* none: after it entry 256 is filled with what was left over.
Strings(code) == {c \in 0 .. code : ~(block_mode /\ c = CLEAR)}
Expand(code) ==
    LET string[c \in Strings(code)] ==
          IF c < Literals THEN <<c>>
          ELSE Append(string[dec.tab[c].prefix], dec.tab[c].suffix)
    IN  string[code]

NewEntry(d, finchar) ==
    LET entry == [prefix |-> dec.oldcode, suffix |-> finchar]
    IN  [d EXCEPT !.tab = With(@, d.free_ent, entry), !.free_ent = @ + 1]

\* A code one past the table stands for the last string and its first byte;
\* one beyond that is "corrupt input".
NextCode ==
    /\ Ready /\ dec.oldcode # -1 /\ ~Cleared
    /\ IF Code > dec.free_ent
       THEN pc' = "corrupt" /\ UNCHANGED <<dec, out>>
       ELSE LET string == IF Code = dec.free_ent
                          THEN Append(Expand(dec.oldcode), dec.finchar)
                          ELSE Expand(Code)
                d == [Taken EXCEPT !.finchar = Head(string), !.oldcode = Code]
            IN  /\ out' = out \o string
                /\ dec' = IF dec.free_ent < MAXCODE(maxbits)
                          THEN NewEntry(d, Head(string)) ELSE d
                /\ pc' = pc
    /\ UNCHANGED <<maxbits, block_mode, opening, text, enc, file>>

(***************************************************************************)
Init ==
    /\ maxbits \in Bits /\ block_mode \in BlockModes
    /\ opening \in Openings
    /\ pc = "read" /\ text = <<>> /\ enc = EncInit /\ file = {}
    /\ dec = DecInit /\ out = <<>>

Compress == Fill \/ StartChunk \/ NextByte \/ EndChunk \/ EndOfInput
Decompress == \/ ReadHeader \/ ResetBuf \/ EndOfCodes \/ WidenCodes \/ FirstCode
              \/ ClearTable \/ NextCode
Next == Compress \/ Decompress

Spec == Init /\ [][Next]_vars /\ WF_vars(Next)

(***************************************************************************)
(* The arrays are as long as the code declares them, and a code always     *)
(* fits the width it is written with.                                      *)
(***************************************************************************)
\* Type invariant.  The 32 bytes that a chunk leaves free in outbuf are
\* enough for what is written after it (one code, the CLEAR code, padding),
\* inbuf holds what is read on top of a rest, and each entry has a code of
\* at most maxbits bits.
TypeOK ==
    /\ pc \in {"read", "top", "chars", "header", "reset", "codes", "done", "corrupt"}
    /\ text \in Seq(Byte) /\ Len(text) <= enc.rsize /\ out \in Seq(Byte)
    /\ enc.outbits \in 0 .. (OBufSiz + OutSpare) * ByteBits
    /\ enc.n_bits \in InitBits .. maxbits /\ dec.n_bits \in InitBits .. maxbits
    /\ enc.free_ent \in FIRST .. MAXCODE(maxbits)
    /\ enc.htab \in [DOMAIN enc.htab -> FIRST .. enc.free_ent - 1]
    /\ DOMAIN enc.htab \subseteq (0 .. enc.free_ent - 1) \X Byte
    /\ dec.insize \in 0 .. IBufSiz + InSpare
    /\ dec.free_ent \in CLEAR .. MAXCODE(maxbits)

\* decompress never calls its input corrupt, and once it has read all of it,
\* what it has put out is the text compress was given.
Restored == pc # "corrupt" /\ (pc = "done" => out = text)

\* decompress ends, and what it puts out is the text compress was given:
\* both sides add the same entries, change the width and skip the rest of a
\* group at the same codes, across full buffers and short reads.
RoundTrip == <>[](pc = "done" /\ out = text)
=============================================================================
