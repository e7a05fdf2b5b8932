----------------------------- MODULE LzwProofs -----------------------------
(***************************************************************************)
(* What compress writes, decompress turns back into the text: the proof    *)
(* for texts, buffers and widths of any size.                              *)
(*                                                                         *)
(* The two programs meet in the file only, so the invariant speaks of the  *)
(* codes that were written: there is a log of them such that the file and  *)
(* the variables of compress are what the log says, and decompress has     *)
(* read some first part of it.                                             *)
(***************************************************************************)
EXTENDS Lzw, ChainLemmas

(***************************************************************************)
(* The log.  A code is written with n bits as number q of its width, the   *)
(* first of which begins at bit "from" of the file; it is number m since   *)
(* the start or the last CLEAR, and the text up to "end" is dealt with.    *)
(***************************************************************************)
Entry == [code : Nat, n : Nat, from : Nat, q : Nat, m : Nat, end : Nat]
At(r) == r.from + r.n * r.q

\* What position and width follow an entry, or the header.
After(b, log, i) ==
    IF i = 0 THEN [m |-> 1, n |-> InitBits, from |-> HeaderBits, q |-> 0]
    ELSE LET r == log[i]
         IN  IF r.code = CLEAR
             THEN [m |-> 1, n |-> InitBits, q |-> 0,
                   from |-> r.from + (r.n * ByteBits) * (r.q \div ByteBits + 1)]
             ELSE IF r.n < b /\ FIRST + r.m > MAXCODE(r.n)
             THEN [m |-> r.m + 1, n |-> r.n + 1, q |-> 0, from |-> At(r) + r.n]
             ELSE [m |-> r.m + 1, n |-> r.n, q |-> r.q + 1, from |-> r.from]

Done(log, i) == IF i = 0 THEN 0 ELSE log[i].end

\* The codes there are when number m is written.
Known(m, c) == c \in Byte \/ c \in FIRST .. FIRST + m - 2

\* The piece of the text after "from" up to "to" is the string of code c, when
\* the first code since the last CLEAR is number d + 1 of the log: that of a
\* code in the table is the string of the code with which the entry was made,
\* and one byte more.
Piece(text_, from, to, at) ==
    \A k \in 1 .. to - from : text_[from + k] = text_[at + k]
Origin(d, c) == d + (c - FIRST) + 1
Denotes(text_, log, d, c, from, to) ==
    IF c \in Byte THEN to = from + 1 /\ text_[to] = c
    ELSE LET e == Origin(d, c)
         IN  /\ to - from = (log[e].end + 1) - Done(log, e - 1)
             /\ Piece(text_, from, to, Done(log, e - 1))

\* Where each entry is, and how wide.
Shaped(b, log) == \A i \in 1 .. Len(log) :
    LET r == log[i]
        a == After(b, log, i - 1)
    IN  r.m = a.m /\ r.n = a.n /\ r.from = a.from /\ r.q = a.q
\* The width and the place in it are given by the number since CLEAR.
WidthOf(b, a) ==
    /\ a.n \in InitBits .. b /\ a.m \in Nat \ {0} /\ a.q \in Nat /\ a.from \in Nat
    /\ a.q = Literals + a.m - 1 - MAXCODE(a.n - 1)
    /\ a.n < b => Literals + a.m <= MAXCODE(a.n)
    /\ a.from % ByteBits = 0
Sized(b, log) == \A i \in 1 .. Len(log) :
    WidthOf(b, log[i]) /\ log[i].code < MAXCODE(log[i].n)
Counts(log) == \A i \in 1 .. Len(log) :
    /\ log[i].m \in 1 .. i
    /\ \A e \in i - log[i].m + 1 .. i :
          /\ log[e].m = log[i].m - (i - e)
          /\ e < i => log[e].code # CLEAR
Ordered(log) == \A i \in 0 .. Len(log) : /\ Done(log, i) \in Nat
                                        /\ \A e \in 0 .. i : Done(log, e) <= Done(log, i)
\* What each entry stands for.
Told(text_, log) == \A i \in 1 .. Len(log) :
    LET r == log[i]
        s == Done(log, i - 1)
    IN  IF r.code = CLEAR THEN r.end = s /\ i > 1
        ELSE /\ r.end \in s + 1 .. Len(text_)
             /\ Known(r.m, r.code)
             /\ Denotes(text_, log, i - r.m, r.code, s, r.end)
\* The bits of the file, all before "stop".
Placed(file_, log, stop) ==
    /\ \A i \in 1 .. Len(log) :
          /\ At(log[i]) + log[i].n <= stop
          /\ \A k \in 0 .. log[i].n - 1 : Bit(log[i].code, k) <=> At(log[i]) + k \in file_
    /\ \A p \in file_ : p \in Nat /\ p < stop

Log(b, text_, log) ==
    /\ log \in Seq(Entry) /\ text_ \in Seq(Byte)
    /\ Shaped(b, log) /\ Sized(b, log) /\ Counts(log) /\ Ordered(log) /\ Told(text_, log)
    /\ WidthOf(b, After(b, log, Len(log)))

(***************************************************************************)
(* compress.  e is enc, b is maxbits, t is text and a is what follows the  *)
(* last entry.                                                             *)
(***************************************************************************)
EncRecord(b, htab) ==
    [ent : Nat, rlop : Int, rsize : Nat, checkpoint : Int, outbits : Nat, boff : Int,
     bytes_out : Nat, n_bits : InitBits .. b, extcode : Int,
     free_ent : FIRST .. MAXCODE(b), stcode : BOOLEAN, htab : {htab}]
EncType(b, e) ==
    /\ e \in EncRecord(b, e.htab)
    /\ e.htab \in [DOMAIN e.htab -> FIRST .. e.free_ent - 1]
    /\ DOMAIN e.htab \subseteq (0 .. e.free_ent - 1) \X Byte
Extcode(b, n) == IF n < b THEN MAXCODE(n) + 1 ELSE MAXCODE(n)

\* free_ent counts the codes since the last CLEAR, until the table is full.
Counting(b, e, a) ==
    IF e.stcode THEN /\ e.free_ent = Literals + a.m
                     /\ e.extcode = Extcode(b, e.n_bits)
                     /\ e.free_ent <= e.extcode
                     /\ e.ent >= FIRST => e.free_ent < e.extcode
    ELSE /\ e.n_bits = b /\ e.free_ent = MAXCODE(b)
         /\ Literals + a.m >= e.free_ent

\* The width may still have to grow; the groups of codes have not moved.
Grown(e, a) == e.n_bits + 1 = a.n /\ a.q = 0 /\ e.stcode /\ e.free_ent = e.extcode
Aligned(e, a) ==
    /\ e.bytes_out * ByteBits + e.outbits = At(a)
    /\ \/ /\ e.n_bits = a.n
          /\ \E g \in Int : e.outbits - e.boff = a.n * a.q + (a.n * ByteBits) * g
       \/ /\ Grown(e, a)
          /\ \E g \in Int : e.outbits - e.boff = (e.n_bits * ByteBits) * g

Table(e, t, log, a) == \A pair \in DOMAIN e.htab :
    LET o == Origin(Len(log) + 1 - a.m, e.htab[pair])
    IN  log[o].code = pair[1] /\ t[log[o].end + 1] = pair[2]

\* What is in ent stands for what was taken since the last code.
Pending(e, t, log, a) ==
    IF t = <<>> THEN log = <<>> /\ e.ent = 0
    ELSE LET s == Done(log, Len(log))
         IN  /\ s < Len(t)
             /\ e.ent \in Byte \/ e.ent \in FIRST .. e.free_ent - 1
             /\ Known(a.m, e.ent)
             /\ Denotes(t, log, Len(log) + 1 - a.m, e.ent, s, Len(t))

Synced(b, e, t, log) ==
    LET a == After(b, log, Len(log))
    IN  /\ Log(b, t, log) /\ EncType(b, e)
        /\ Counting(b, e, a) /\ Aligned(e, a) /\ Table(e, t, log, a) /\ Pending(e, t, log, a)

\* How far a chunk may go: to the end of the input, of the room in outbuf, and
\* of the codes of this width.
ChunkLimit == (OBufSiz + OutSpare - OutSlack) * ByteBits
Between(e, t) == /\ e.rlop <= Len(t) /\ Len(t) <= e.rsize
                 /\ e.outbits <= ChunkLimit + e.n_bits
InChunkBounds(e, t) ==
    LET left == e.rlop - Len(t)
    IN  /\ Len(t) <= e.rsize /\ e.rlop <= e.rsize
        /\ e.stcode /\ left >= 0 => e.free_ent + left <= e.extcode
        /\ e.stcode => e.free_ent < e.extcode \/ e.ent < FIRST
        /\ left >= 0 => e.outbits + e.n_bits * left <= ChunkLimit
        /\ e.outbits <= ChunkLimit + (IF e.ent < FIRST THEN e.n_bits ELSE 0)

Compressing == pc \in {"read", "top", "chars"}
Writing(log) ==
    /\ Synced(maxbits, enc, text, log)
    /\ Placed(file, log, At(After(maxbits, log, Len(log))))
    /\ pc = "read" => Between(enc, text) /\ Len(text) = enc.rsize
    /\ pc = "top" => Between(enc, text) /\ text # <<>>
    /\ pc = "chars" => InChunkBounds(enc, text) /\ text # <<>>
    /\ dec = DecInit /\ out = <<>>

(***************************************************************************)
(* decompress, when it has read the first j entries.  d is dec.            *)
(***************************************************************************)
FileEnd(log) == IF log = <<>> THEN HeaderBits
                ELSE At(log[Len(log)]) + log[Len(log)].n
Complete(b, t, log, file_, bytes) ==
    /\ Log(b, t, log) /\ Placed(file_, log, FileEnd(log))
    /\ Done(log, Len(log)) = Len(t)
    /\ log # <<>> => log[Len(log)].code # CLEAR
    /\ bytes \in Nat /\ bytes * ByteBits \in FileEnd(log) .. FileEnd(log) + ByteBits - 1

DecType(b, d) ==
    d \in [insize : Nat, base : Nat, rsize : Nat, posbits : Nat, inbits : Int,
           n_bits : InitBits .. b, maxcode : Nat, free_ent : CLEAR .. MAXCODE(b),
           oldcode : Nat \cup {-1}, finchar : Byte, tab : {d.tab}]

DecFree(b, log, j) ==
    IF j = 0 THEN FIRST
    ELSE IF log[j].code = CLEAR THEN CLEAR
    ELSE Lower(Literals + log[j].m, MAXCODE(b))
DecMax(b, n) == IF n = b THEN MAXCODE(b) ELSE MAXCODE(n) - 1

\* The width is that of the next entry, unless it is about to grow.
InStep(b, d, log, j, a) ==
    /\ d.free_ent = DecFree(b, log, j)
    /\ d.maxcode = DecMax(b, d.n_bits)
    /\ d.base * ByteBits + d.posbits = At(a)
    /\ IF d.free_ent > d.maxcode THEN d.n_bits + 1 = a.n /\ a.q = 0
       ELSE d.n_bits = a.n
\* inbuf begins where a group does.
Grouped(d, a) ==
    \E g \in Int : d.posbits + (d.n_bits * ByteBits) * g =
                      IF d.n_bits = a.n THEN a.n * a.q ELSE 0
AtGroup(d, a) == /\ d.posbits % ByteBits = 0
                 /\ d.n_bits = a.n => a.q % ByteBits = 0

Entries(d, t, log, j) ==
    /\ d.oldcode = -1 <=> j = 0
    /\ j > 0 /\ log[j].code # CLEAR =>
         /\ d.oldcode = log[j].code /\ d.finchar = t[Done(log, j - 1) + 1]
         /\ FIRST .. d.free_ent - 1 \subseteq DOMAIN d.tab
         /\ \A c \in FIRST .. d.free_ent - 1 :
               LET e == Origin(j - log[j].m, c)
               IN  d.tab[c] = [prefix |-> log[e].code, suffix |-> t[log[e].end + 1]]

\* bytes is the size of the file.
Buffered(d, bytes) ==
    /\ d.base + d.insize <= bytes
    /\ d.insize <= IBufSiz + InSpare
    /\ d.posbits <= d.insize * ByteBits
    /\ d.rsize = 0 => d.base + d.insize = bytes
InHeader(d, bytes) ==
    /\ d.base = 0 /\ d.posbits = HeaderBits /\ d.insize < 3 + IBufSiz /\ d.insize <= bytes
    /\ d.insize >= 3 => d.rsize > 0
InCodes(d) ==
    /\ d.inbits = IF d.rsize > 0 THEN (d.insize - (d.insize % d.n_bits)) * ByteBits
                  ELSE d.insize * ByteBits - (d.n_bits - 1)
    /\ d.rsize > 0 => d.posbits <= d.inbits

Decoded(t, log, j, out_) ==
    /\ out_ \in Seq(Byte) /\ Len(out_) = Done(log, j)
    /\ \A k \in 1 .. Len(out_) : out_[k] = t[k]

Tracks(b, d, t, log, j, out_) ==
    LET a == After(b, log, j)
    IN  /\ DecType(b, d) /\ InStep(b, d, log, j, a)
        /\ Entries(d, t, log, j) /\ Decoded(t, log, j, out_)

Decompressing == pc \in {"header", "reset", "codes", "done"}
Reading(log) ==
    /\ Complete(maxbits, text, log, file, FileBytes)
    /\ EncType(maxbits, enc) /\ Len(text) <= enc.rsize
    /\ enc.outbits <= (OBufSiz + OutSpare) * ByteBits
    /\ \E j \in 0 .. Len(log) :
          LET a == After(maxbits, log, j)
          IN  /\ Tracks(maxbits, dec, text, log, j, out)
              /\ pc = "header" => j = 0 /\ InHeader(dec, FileBytes)
              /\ pc # "header" => Buffered(dec, FileBytes)
              /\ pc = "reset" => AtGroup(dec, a)
              /\ pc = "codes" => InCodes(dec) /\ Grouped(dec, a)
              /\ pc = "done" => j = Len(log)

Static == maxbits \in Bits /\ block_mode \in BlockModes /\ opening \in Openings
IInv == /\ Static
        /\ \E log : (Compressing /\ Writing(log)) \/ (Decompressing /\ Reading(log))

(***************************************************************************)
(* Arithmetic.                                                             *)
(***************************************************************************)
LEMMA Constants ==
  /\ Literals \in Nat \ {0} /\ InitBits \in Nat \ {0} /\ ByteBits \in Nat \ {0}
  /\ Literals % ByteBits = 0 /\ InitBits >= ByteBits
  /\ FIRST \in Nat /\ CLEAR \in Nat /\ HeaderBits \in Nat
  /\ IBufSiz \in Nat \ {0} /\ InSpare \in Nat /\ CheckGap \in Nat
  /\ OBufSiz \in Nat \ {0} /\ OutSpare \in Nat /\ OutSlack \in 0..OutSpare
BY WidthAssumption, PackingAssumption, BufferAssumption
   DEF FIRST, CLEAR, HeaderBits

(* Remainders and quotients.                                               *)
LEMMA Divided ==
  ASSUME NEW g \in Nat \ {0}, NEW x \in Int
  PROVE  /\ x = g * (x \div g) + (x % g)
         /\ x % g \in 0 .. g - 1 /\ x \div g \in Int
OBVIOUS

LEMMA Quotient ==
  ASSUME NEW g \in Nat \ {0}, NEW k \in Int, NEW r \in 0 .. g - 1
  PROVE  (g * k + r) % g = r /\ (g * k + r) \div g = k
OBVIOUS

LEMMA Multiples ==
  ASSUME NEW g \in Nat \ {0}, NEW k \in Int, NEW h \in Int
  PROVE  /\ g * k + g * h = g * (k + h) /\ g * k - g * h = g * (k - h)
         /\ g * k < g * h => g * k + g <= g * h
         /\ g * k = g * h => k = h
         /\ k <= h => g * k <= g * h
OBVIOUS

(* The end of a group that code number q is in, counted from a place where *)
(* some group begins.                                                      *)
LEMMA GroupEnds ==
  ASSUME NEW n \in Nat \ {0}, NEW from \in Int, NEW at \in Int, NEW q \in Nat, NEW g \in Int,
         at - from = n * (q + 1) + (n * ByteBits) * g
  PROVE  GroupEnd(at, from, n) = from + (n * ByteBits) * (q \div ByteBits + 1 + g)
<1> DEFINE B == ByteBits  G == n * B  d == q \div B  r == q % B
<1>0. B \in Nat \ {0}
  BY Constants
<1>1. q = B * d + r /\ r \in 0 .. B - 1 /\ d \in Int
  BY <1>0, Divided
<1>2. G \in Nat \ {0}
  BY <1>0
<1>3. n * (q + 1) = G * d + n * (r + 1)
  BY <1>0, <1>1
<1>4. n * (r + 1) \in 1 .. G
  <2>1. n * (r + 1) >= n * 1
    BY <1>0, <1>1
  <2>2. n * (r + 1) <= n * B
    BY <1>0, <1>1
  <2> QED BY <2>1, <2>2, <1>0, <1>1
<1> DEFINE X == n * (r + 1)  Y == G * d  Z == G * g  W == G * (d + g + 1)
<1>5. W = Y + Z + G /\ X \in 1 .. G /\ Y \in Int /\ Z \in Int /\ at - from = Y + X + Z
  <2>1. G * (d + g + 1) = G * d + G * g + G
    BY <1>1, <1>2
  <2> QED BY <1>1, <1>2, <1>3, <1>4, <2>1
<1> HIDE DEF X, Y, Z
<1>6. (at - from - 1 + G) % G = X - 1
  <2> DEFINE k == d + g + 1  s == X - 1
  <2>1. k \in Int /\ s \in 0 .. G - 1 /\ at - from - 1 + G = G * k + s
    BY <1>1, <1>2, <1>5
  <2> HIDE DEF k, s, G, W
  <2>2. (G * k + s) % G = s
    BY <2>1, <1>2, Quotient
  <2> QED BY <2>1, <2>2 DEF s
<1>7. GroupEnd(at, from, n) = (at - 1) + G - (X - 1)
  BY <1>6 DEF GroupEnd, B
<1>9. GroupEnd(at, from, n) = from + W
  <2> HIDE DEF G, W
  <2> QED BY <1>7, <1>5, <1>2
<1> QED BY <1>9, <1>1 DEF B, d

(* A place where a group begins is its own end.                            *)
LEMMA GroupBegins ==
  ASSUME NEW n \in Nat \ {0}, NEW from \in Int, NEW at \in Int, NEW g \in Int,
         at - from = (n * ByteBits) * g
  PROVE  GroupEnd(at, from, n) = at
<1> DEFINE G == n * ByteBits
<1>1. G \in Nat \ {0} /\ ByteBits \in Nat \ {0}
  BY Constants
<1>2. at - from - 1 + G = G * g + (G - 1)
  BY <1>1
<1>3. GroupEnd(at, from, n) = (at - 1) + G - ((at - from - 1 + G) % G)
  BY DEF GroupEnd
<1> HIDE DEF G
<1>4. (at - from - 1 + G) % G = G - 1
  BY <1>1, <1>2, Quotient, G - 1 \in 0 .. G - 1
<1> QED BY <1>3, <1>4, <1>1

LEMMA GroupEndNear ==
  ASSUME NEW n \in Nat \ {0}, NEW from \in Int, NEW at \in Int
  PROVE  /\ GroupEnd(at, from, n) \in Int
         /\ at <= GroupEnd(at, from, n) /\ GroupEnd(at, from, n) <= at + n * ByteBits
<1> DEFINE N == n * ByteBits  v == (at - from - 1 + N) % N
<1>1. N \in Nat \ {0}
  BY Constants
<1>2. GroupEnd(at, from, n) = (at - 1) + N - v
  BY DEF GroupEnd
<1> HIDE DEF N
<1>3. v \in 0 .. N - 1
  BY <1>1, Divided, at - from - 1 + N \in Int
<1> HIDE DEF v
<1>4. /\ (at - 1) + N - v \in Int
      /\ at <= (at - 1) + N - v /\ (at - 1) + N - v <= at + N
  BY <1>1, <1>3
<1> QED BY <1>2, <1>4 DEF N

(* Code number q of the width that begins at bit "from" of the file is o   *)
(* bits into a buffer, which is X bits into the file.  A group of codes    *)
(* begins f0 bits into it.                                                 *)
Reached(n, q, from, o, f0, X, g) ==
    /\ n \in Nat \ {0} /\ q \in Nat /\ from \in Int /\ o \in Int /\ f0 \in Int /\ X \in Int /\ g \in Int
    /\ o - f0 = n * q + (n * ByteBits) * g
    /\ X + o = from + n * q

LEMMA NextGroup ==
  ASSUME NEW n, NEW q, NEW from, NEW o, NEW f0, NEW X, NEW g, Reached(n, q, from, o, f0, X, g)
  PROVE  /\ X + GroupEnd(o + n, f0, n) = from + (n * ByteBits) * (q \div ByteBits + 1)
         /\ GroupEnd(o + n, f0, n) = f0 + (n * ByteBits) * (q \div ByteBits + 1 + g)
<1>0. /\ n \in Nat \ {0} /\ q \in Nat /\ from \in Int /\ o \in Int /\ f0 \in Int /\ X \in Int /\ g \in Int
      /\ o - f0 = n * q + (n * ByteBits) * g /\ X + o = from + n * q
  BY DEF Reached
<1> DEFINE N == n * ByteBits  nq == n * q  Ng == N * g  y == q \div ByteBits + 1
<1>1. N \in Int /\ nq \in Int /\ Ng \in Int /\ n * (q + 1) = nq + n /\ y \in Int
  BY <1>0, Constants
<1>2. o - f0 = nq + Ng /\ X + o = from + nq
  BY <1>0
<1>3. (o + n) - f0 = n * (q + 1) + Ng
  <2> HIDE DEF nq, Ng
  <2> QED BY <1>0, <1>1, <1>2
<1>4. GroupEnd(o + n, f0, n) = f0 + (n * ByteBits) * (q \div ByteBits + 1 + g)
  <2> DEFINE at == o + n
  <2>1. at \in Int /\ at - f0 = n * (q + 1) + (n * ByteBits) * g
    BY <1>0, <1>3
  <2> HIDE DEF at
  <2>2. GroupEnd(at, f0, n) = f0 + (n * ByteBits) * (q \div ByteBits + 1 + g)
    BY <1>0, <2>1, GroupEnds
  <2> QED BY <2>2 DEF at
<1> HIDE DEF N, y
<1>5. N * (y + g) = N * y + N * g
  BY <1>0, <1>1
<1>6. X + (f0 + (N * y + N * g)) = from + N * y
  <2> DEFINE Ny == N * y
  <2>1. Ny \in Int
    BY <1>1
  <2> HIDE DEF nq, Ng, Ny
  <2>2. X + (f0 + (Ny + Ng)) = from + Ny
    BY <1>0, <1>1, <1>2, <2>1
  <2> QED BY <2>2 DEF Ny, Ng
<1>7. GroupEnd(o + n, f0, n) = f0 + N * (y + g)
  BY <1>4 DEF N, y
<1>8. X + GroupEnd(o + n, f0, n) = from + N * y
  BY <1>5, <1>6, <1>7
<1> QED BY <1>4, <1>8 DEF N, y

(* Powers of two.                                                          *)
LEMMA Powers ==
  /\ MAXCODE(0) = 1
  /\ \A n \in 0 .. Literals : MAXCODE(n) \in Nat \ {0} /\ MAXCODE(n + 1) = 2 * MAXCODE(n)
  /\ \A n \in 0 .. Literals + 1 : MAXCODE(n) \in Nat \ {0}
<1>1. \A n \in 0 .. Literals : MAXCODE(n) \in Nat \ {0} /\ MAXCODE(n + 1) = 2 * MAXCODE(n)
  BY PowersAssumption DEF MAXCODE
<1>2. MAXCODE(0) = 1
  BY DEF MAXCODE
<1>3. ASSUME NEW n \in 0 .. Literals + 1 PROVE MAXCODE(n) \in Nat \ {0}
  <2>1. CASE n \in 0 .. Literals
    BY <1>1, <2>1
  <2>2. CASE n = Literals + 1
    BY <1>1, <2>2, Constants, Literals \in 0 .. Literals
  <2> QED BY <2>1, <2>2, Constants
<1> QED BY <1>1, <1>2, <1>3

LEMMA PowersGrow ==
  ASSUME NEW n \in Nat, NEW m \in n .. Literals + 1
  PROVE  MAXCODE(n) <= MAXCODE(m)
<1> DEFINE T == {k \in n .. Literals + 1 : ~(MAXCODE(n) <= MAXCODE(k))}
<1>1. SUFFICES ASSUME T # {} PROVE FALSE
  OBVIOUS
<1>2. T \in SUBSET Nat
  BY Constants
<1>3. PICK k \in T : \A j \in T : k <= j
  BY <1>1, <1>2, Least
<1>4. k # n
  BY <1>3, Powers, Constants
<1>5. k - 1 \in n .. Literals + 1 /\ k - 1 \in 0 .. Literals /\ k - 1 \notin T
  BY <1>3, <1>4, Constants
<1>6. MAXCODE(n) <= MAXCODE(k - 1)
  BY <1>5
<1>7. MAXCODE(k) = 2 * MAXCODE(k - 1) /\ MAXCODE(k - 1) \in Nat
  BY <1>5, <1>3, Powers, Constants, (k - 1) + 1 = k
<1>8. MAXCODE(n) \in Nat
  BY Powers, Constants
<1> QED BY <1>3, <1>6, <1>7, <1>8

(* The codes of a width fill whole groups.                                 *)
LEMMA PowersPacked ==
  ASSUME InitBits <= Literals, NEW m \in InitBits - 1 .. Literals + 1
  PROVE  MAXCODE(m) % ByteBits = 0
<1> DEFINE T == {k \in InitBits - 1 .. Literals + 1 : MAXCODE(k) % ByteBits # 0}
<1>1. SUFFICES ASSUME T # {} PROVE FALSE
  OBVIOUS
<1>2. T \in SUBSET Nat
  BY Constants
<1>3. PICK k \in T : \A j \in T : k <= j
  BY <1>1, <1>2, Least
<1>4. InitBits - 1 \in 0 .. Literals
  BY <1>3, Constants, <1>2
<1>5. MAXCODE(InitBits - 1) = Literals
  <2>1. MAXCODE((InitBits - 1) + 1) = 2 * MAXCODE(InitBits - 1) /\ MAXCODE(InitBits - 1) \in Nat
    BY <1>4, Powers
  <2>2. MAXCODE(InitBits) = 2 * Literals /\ (InitBits - 1) + 1 = InitBits
    BY WidthAssumption, Constants
  <2> QED BY <2>1, <2>2, Constants
<1>6. k # InitBits - 1
  BY <1>3, <1>5, Constants
<1>7. k - 1 \in InitBits - 1 .. Literals + 1 /\ k - 1 \in 0 .. Literals /\ k - 1 \notin T
  BY <1>3, <1>6, <1>4, Constants
<1>8. MAXCODE(k - 1) % ByteBits = 0
  BY <1>7
<1>9. MAXCODE(k) = 2 * MAXCODE(k - 1) /\ MAXCODE(k - 1) \in Nat
  BY <1>7, <1>3, Powers, Constants, (k - 1) + 1 = k
<1>10. MAXCODE(k) % ByteBits = 0
  <2> DEFINE B == ByteBits  x == MAXCODE(k - 1)  d == x \div B
  <2>0. B \in Nat \ {0} /\ x \in Nat /\ x % B = 0
    BY <1>8, <1>9, Constants
  <2> HIDE DEF B, x
  <2>1. x = B * d + (x % B) /\ d \in Int
    BY <2>0, Divided
  <2> HIDE DEF d
  <2>2. 2 * x = B * (2 * d) + 0 /\ 2 * d \in Int
    BY <2>0, <2>1
  <2>3. (B * (2 * d) + 0) % B = 0
    BY <2>0, <2>2, Quotient, 0 \in 0 .. B - 1
  <2> QED BY <2>2, <2>3, <1>9 DEF B, x
<1> QED BY <1>3, <1>10

LEMMA FirstWidth ==
  ASSUME NEW b \in Bits
  PROVE  /\ b \in InitBits .. Literals /\ b \in Nat
         /\ MAXCODE(InitBits - 1) = Literals /\ MAXCODE(InitBits) = 2 * Literals
         /\ \A n \in InitBits .. b : /\ MAXCODE(n) = 2 * MAXCODE(n - 1)
                                     /\ MAXCODE(n - 1) \in Nat \ {0} /\ MAXCODE(n) \in Nat \ {0}
                                     /\ MAXCODE(n) <= MAXCODE(b) /\ 2 * Literals <= MAXCODE(n)
                                     /\ FIRST < MAXCODE(n) \/ Literals = 1
<1>1. b \in InitBits .. Literals
  BY WidthAssumption
<1>2. InitBits - 1 \in 0 .. Literals /\ b \in Nat
  BY <1>1, Constants
<1>3. MAXCODE(InitBits) = 2 * Literals
  BY WidthAssumption
<1>4. ASSUME NEW n \in InitBits .. b
      PROVE  /\ MAXCODE(n) = 2 * MAXCODE(n - 1)
             /\ MAXCODE(n - 1) \in Nat \ {0} /\ MAXCODE(n) \in Nat \ {0}
             /\ MAXCODE(n) <= MAXCODE(b) /\ 2 * Literals <= MAXCODE(n)
             /\ FIRST < MAXCODE(n) \/ Literals = 1
  <2>1. n - 1 \in 0 .. Literals /\ n \in 0 .. Literals + 1 /\ (n - 1) + 1 = n
    BY <1>1, Constants
  <2>2. MAXCODE((n - 1) + 1) = 2 * MAXCODE(n - 1)
    BY <2>1, Powers
  <2>3. MAXCODE(n - 1) \in Nat \ {0} /\ MAXCODE(n) \in Nat \ {0}
    BY <2>1, Powers, Constants
  <2>4. n \in Nat /\ b \in n .. Literals + 1
    BY <1>1, <1>2, Constants
  <2>5. MAXCODE(n) <= MAXCODE(b)
    BY <2>4, PowersGrow
  <2>6. InitBits \in Nat /\ n \in InitBits .. Literals + 1
    BY <1>1, <1>2, Constants
  <2>7. MAXCODE(InitBits) <= MAXCODE(n)
    BY <2>6, PowersGrow
  <2>8. MAXCODE(n) = 2 * MAXCODE(n - 1)
    BY <2>1, <2>2
  <2>9. FIRST < MAXCODE(n) \/ Literals = 1
    BY <2>3, <2>7, <1>3, Constants DEF FIRST
  <2> QED BY <2>3, <2>5, <2>7, <2>8, <2>9, <1>3
<1>5. MAXCODE(InitBits - 1) = Literals
  <2>1. InitBits \in InitBits .. b
    BY <1>1, Constants
  <2>2. MAXCODE(InitBits) = 2 * MAXCODE(InitBits - 1) /\ MAXCODE(InitBits - 1) \in Nat
    BY <2>1, <1>4
  <2> QED BY <1>3, <2>2, Constants
<1> QED BY <1>1, <1>2, <1>3, <1>4, <1>5

(***************************************************************************)
(* Bits.                                                                   *)
(***************************************************************************)
LEMMA Halved ==
  ASSUME NEW c \in Nat, NEW p \in Nat \ {0}
  PROVE  c \div p = 2 * (c \div (2 * p)) + ((c \div p) % 2)
<1> DEFINE a == c \div p  r == c % p  h == a \div 2  s == a % 2
<1>1. c = p * a + r /\ r \in 0 .. p - 1 /\ a \in Int
  BY Divided
<1>2. a = 2 * h + s /\ s \in 0 .. 1 /\ h \in Int
  BY <1>1
<1> HIDE DEF r, a, h, s
<1>3. c = (2 * p) * h + (p * s + r)
  BY <1>1, <1>2
<1>4. p * s + r \in 0 .. 2 * p - 1
  <2>1. CASE s = 0
    BY <1>1, <2>1
  <2>2. CASE s = 1
    BY <1>1, <2>2
  <2> QED BY <1>2, <2>1, <2>2
<1>5. ((2 * p) * h + (p * s + r)) \div (2 * p) = h
  <2> DEFINE g == 2 * p  t == p * s + r
  <2>1. g \in Nat \ {0} /\ t \in 0 .. g - 1
    BY <1>4
  <2> HIDE DEF g, t
  <2>2. (g * h + t) \div g = h
    BY <2>1, <1>2, Quotient
  <2> QED BY <2>2 DEF g, t
<1> QED BY <1>2, <1>3, <1>5 DEF a, s

LEMMA NoBitAbove ==
  ASSUME NEW n \in Nat, NEW c \in Nat, NEW k \in n .. Literals, c < MAXCODE(n)
  PROVE  ~ Bit(c, k)
<1>1. MAXCODE(n) <= MAXCODE(k)
  BY PowersGrow, Constants
<1>2. MAXCODE(k) \in Nat \ {0} /\ MAXCODE(n) \in Nat
  BY Powers, Constants
<1>3. c = MAXCODE(k) * 0 + c /\ c \in 0 .. MAXCODE(k) - 1
  BY <1>1, <1>2
<1>4. (MAXCODE(k) * 0 + c) \div MAXCODE(k) = 0
  BY <1>2, <1>3, Quotient
<1>5. c \div MAXCODE(k) = 0
  BY <1>3, <1>4
<1>6. (c \div MAXCODE(k)) % 2 = 0
  BY <1>5
<1> QED BY <1>6 DEF Bit, MAXCODE

(* A number of n bits is given by its bits.                                *)
LEMMA SameBits ==
  ASSUME NEW n \in 0 .. Literals, NEW c \in 0 .. MAXCODE(n) - 1, NEW d \in 0 .. MAXCODE(n) - 1,
         \A k \in 0 .. n - 1 : Bit(c, k) <=> Bit(d, k)
  PROVE  c = d
<1> DEFINE Same(k) == c \div MAXCODE(k) = d \div MAXCODE(k)
           T == {i \in 0 .. n : ~ Same(n - i)}
<1>0. \A k \in 0 .. n : MAXCODE(k) \in Nat \ {0}
  BY Powers, Constants
<1>1. Same(n)
  <2>1. MAXCODE(n) \in Nat \ {0} /\ c = MAXCODE(n) * 0 + c /\ d = MAXCODE(n) * 0 + d
    BY <1>0, Constants
  <2>2. (MAXCODE(n) * 0 + c) \div MAXCODE(n) = 0 /\ (MAXCODE(n) * 0 + d) \div MAXCODE(n) = 0
    BY <2>1, Quotient
  <2> QED BY <2>1, <2>2
<1>2. ASSUME NEW k \in 0 .. n - 1, Same(k + 1) PROVE Same(k)
  <2> DEFINE p == MAXCODE(k)
  <2>1. p \in Nat \ {0} /\ MAXCODE(k + 1) = 2 * p /\ c \in Nat /\ d \in Nat
    BY Powers, Constants
  <2>2. Bit(c, k) <=> Bit(d, k)
    OBVIOUS
  <2>3. (c \div p) % 2 = 1 <=> (d \div p) % 2 = 1
    BY <2>2 DEF Bit, MAXCODE
  <2> HIDE DEF p
  <2>4. c \div p \in Int /\ d \div p \in Int
    BY <2>1, Divided
  <2>5. (c \div p) % 2 \in {0, 1} /\ (d \div p) % 2 \in {0, 1}
    BY <2>4
  <2>6. c \div p = 2 * (c \div (2 * p)) + ((c \div p) % 2)
    BY <2>1, Halved
  <2>7. d \div p = 2 * (d \div (2 * p)) + ((d \div p) % 2)
    BY <2>1, Halved
  <2>8. c \div (2 * p) = d \div (2 * p)
    BY <1>2, <2>1
  <2>9. c \div p = d \div p
    BY <2>3, <2>5, <2>6, <2>7, <2>8
  <2> QED BY <2>9 DEF p
<1>3. T = {}
  <2>1. SUFFICES ASSUME T # {} PROVE FALSE
    OBVIOUS
  <2>2. T \in SUBSET Nat
    OBVIOUS
  <2>3. PICK i \in T : \A j \in T : i <= j
    BY <2>1, <2>2, Least
  <2>4. i # 0
    BY <1>1, <2>3
  <2>5. i - 1 \in 0 .. n /\ i - 1 \notin T
    BY <2>3, <2>4
  <2>6. Same((n - i) + 1) /\ n - i \in 0 .. n - 1
    BY <2>5, <2>3, <2>4, n - (i - 1) = (n - i) + 1
  <2> QED BY <2>6, <1>2, <2>3
<1>4. Same(0)
  <2>1. n \in 0 .. n /\ n - n = 0
    BY Constants
  <2>2. n \notin T
    BY <1>3
  <2> QED BY <2>1, <2>2
<1>5. c \div 1 = c /\ d \div 1 = d
  OBVIOUS
<1> QED BY <1>4, <1>5, Powers

(***************************************************************************)
(* The log.                                                                *)
(***************************************************************************)
LEMMA AfterFields ==
  ASSUME NEW b, NEW log, NEW i \in Nat
  PROVE  LET a == After(b, log, i)
             r == log[i]
         IN  /\ i = 0 => a.m = 1 /\ a.n = InitBits /\ a.from = HeaderBits /\ a.q = 0
             /\ i # 0 /\ r.code = CLEAR =>
                  /\ a.m = 1 /\ a.n = InitBits /\ a.q = 0
                  /\ a.from = r.from + (r.n * ByteBits) * (r.q \div ByteBits + 1)
             /\ i # 0 /\ r.code # CLEAR /\ r.n < b /\ FIRST + r.m > MAXCODE(r.n) =>
                  a.m = r.m + 1 /\ a.n = r.n + 1 /\ a.q = 0 /\ a.from = At(r) + r.n
             /\ i # 0 /\ r.code # CLEAR /\ ~(r.n < b /\ FIRST + r.m > MAXCODE(r.n)) =>
                  a.m = r.m + 1 /\ a.n = r.n /\ a.q = r.q + 1 /\ a.from = r.from
BY DEF After

LEMMA EntryFields ==
  ASSUME NEW r \in Entry
  PROVE  /\ r.code \in Nat /\ r.n \in Nat /\ r.from \in Nat /\ r.q \in Nat
         /\ r.m \in Nat /\ r.end \in Nat
BY DEF Entry

LEMMA AtType ==
  ASSUME NEW r, r.from \in Nat, r.n \in Nat, r.q \in Nat
  PROVE  At(r) \in Nat /\ At(r) + r.n \in Nat /\ At(r) = r.from + r.n * r.q
<1>1. \A f, n, q \in Nat : f + n * q \in Nat /\ f + n * q + n \in Nat
  OBVIOUS
<1>2. r.from + r.n * r.q \in Nat /\ r.from + r.n * r.q + r.n \in Nat
  BY <1>1, Zenon
<1> QED BY <1>2 DEF At

(* A width grows when its codes have filled whole groups.                  *)
LEMMA WiderAtGroup ==
  ASSUME NEW b \in Bits, NEW r, WidthOf(b, r), r.n < b, FIRST + r.m > MAXCODE(r.n)
  PROVE  /\ Literals + r.m = MAXCODE(r.n)
         /\ r.q + 1 = MAXCODE(r.n - 1) /\ (r.q + 1) % ByteBits = 0
<1>1. /\ r.n \in InitBits .. b /\ r.m \in Nat \ {0} /\ r.q \in Nat
      /\ r.q = Literals + r.m - 1 - MAXCODE(r.n - 1)
      /\ Literals + r.m <= MAXCODE(r.n)
  BY DEF WidthOf
<1>2. MAXCODE(r.n) = 2 * MAXCODE(r.n - 1) /\ MAXCODE(r.n - 1) \in Nat
  BY <1>1, FirstWidth
<1>3. Literals + r.m = MAXCODE(r.n)
  BY <1>1, <1>2, Constants DEF FIRST
<1>4. r.q + 1 = MAXCODE(r.n - 1)
  BY <1>1, <1>2, <1>3, Constants
<1>5. b \in InitBits .. Literals
  BY FirstWidth
<1>6. r.n - 1 \in InitBits - 1 .. Literals + 1 /\ InitBits <= Literals
  BY <1>1, <1>5, Constants
<1>7. MAXCODE(r.n - 1) % ByteBits = 0
  BY <1>6, PowersPacked
<1> QED BY <1>3, <1>4, <1>7

LEMMA PackedSum ==
  ASSUME NEW g \in Nat \ {0}, NEW x \in Int, NEW k \in Int, x % g = 0
  PROVE  (x + g * k) % g = 0
<1>1. x = g * (x \div g) + 0 /\ x \div g \in Int
  BY Divided
<1> DEFINE d == x \div g
<1> HIDE DEF d
<1>2. x = g * d + 0 /\ d \in Int
  BY <1>1 DEF d
<1>3. x + g * k = g * (d + k) + 0
  BY <1>2
<1>4. (g * (d + k) + 0) % g = 0
  BY <1>2, Quotient, 0 \in 0 .. g - 1
<1> QED BY <1>3, <1>4

LEMMA AfterWidth ==
  ASSUME NEW b \in Bits, InitBits < b, NEW log, NEW i \in Nat,
         i # 0 => log[i] \in Entry /\ WidthOf(b, log[i])
  PROVE  WidthOf(b, After(b, log, i))
<1> DEFINE r == log[i]  a == After(b, log, i)
<1>0. /\ b \in InitBits .. Literals /\ b \in Nat /\ MAXCODE(InitBits - 1) = Literals
      /\ MAXCODE(InitBits) = 2 * Literals
  BY FirstWidth
<1>1. CASE i = 0
  <2>1. a.m = 1 /\ a.n = InitBits /\ a.from = HeaderBits /\ a.q = 0
    BY <1>1, AfterFields
  <2>2. HeaderBits % ByteBits = 0
    <3>1. ByteBits \in Nat \ {0} /\ HeaderBits = ByteBits * 3 + 0 /\ 0 \in 0 .. ByteBits - 1
      BY Constants DEF HeaderBits
    <3> QED BY <3>1, Quotient
  <2> QED BY <2>1, <2>2, <1>0, Constants DEF WidthOf
<1>2. CASE i # 0
  <2>1. r \in Entry /\ r.n \in Nat /\ r.from \in Nat /\ r.q \in Nat /\ r.m \in Nat
    BY <1>2, EntryFields
  <2>2. /\ r.n \in InitBits .. b /\ r.m \in Nat \ {0}
        /\ r.q = Literals + r.m - 1 - MAXCODE(r.n - 1)
        /\ r.n < b => Literals + r.m <= MAXCODE(r.n)
        /\ r.from % ByteBits = 0
    BY <1>2 DEF WidthOf
  <2>3. MAXCODE(r.n) = 2 * MAXCODE(r.n - 1) /\ MAXCODE(r.n - 1) \in Nat \ {0}
    BY <2>2, FirstWidth
  <2> HIDE DEF r, a
  <2>4. CASE r.code = CLEAR
    <3>1. /\ a.m = 1 /\ a.n = InitBits /\ a.q = 0
          /\ a.from = r.from + (r.n * ByteBits) * (r.q \div ByteBits + 1)
      BY <1>2, <2>4, AfterFields DEF a, r
    <3> DEFINE d == r.q \div ByteBits + 1
    <3>2. d \in Nat /\ a.from = r.from + (r.n * ByteBits) * d
      BY <2>1, <3>1, Constants
    <3> HIDE DEF d
    <3>3. (r.n * ByteBits) * d = ByteBits * (r.n * d) /\ r.n * d \in Nat /\ ByteBits * (r.n * d) \in Nat
      BY <3>2, <2>1, Constants
    <3>4. (r.from + ByteBits * (r.n * d)) % ByteBits = 0
      <4> DEFINE g == ByteBits  x == r.from  k == r.n * d
      <4>1. g \in Nat \ {0} /\ x \in Int /\ k \in Int /\ x % g = 0
        BY <3>3, <2>1, <2>2, Constants
      <4> HIDE DEF g, x, k
      <4>2. (x + g * k) % g = 0
        BY <4>1, PackedSum
      <4> QED BY <4>2 DEF g, x, k
    <3>5. a.from \in Nat /\ a.from % ByteBits = 0
      BY <3>2, <3>3, <3>4, <2>1
    <3>6. InitBits \in InitBits .. b /\ 1 \in Nat \ {0} /\ 0 = Literals + 1 - 1 - Literals
      BY <1>0, Constants
    <3>7. /\ a.n \in InitBits .. b /\ a.m \in Nat \ {0} /\ a.q \in Nat /\ a.from \in Nat
          /\ a.from % ByteBits = 0
      BY <3>1, <3>5, <3>6
    <3>8. a.q = Literals + a.m - 1 - MAXCODE(a.n - 1)
      BY <3>1, <3>6, <1>0
    <3>9. Literals + a.m <= MAXCODE(a.n)
      BY <3>1, <1>0, Constants
    <3>10. WidthOf(b, a)
      BY <3>7, <3>8, <3>9 DEF WidthOf
    <3> QED BY <3>10 DEF a
  <2>5. CASE r.code # CLEAR /\ r.n < b /\ FIRST + r.m > MAXCODE(r.n)
    <3>1. a.m = r.m + 1 /\ a.n = r.n + 1 /\ a.q = 0 /\ a.from = At(r) + r.n
      BY <1>2, <2>5, AfterFields DEF a, r
    <3>2. Literals + r.m = MAXCODE(r.n) /\ (r.q + 1) % ByteBits = 0
      BY <1>2, <2>5, WiderAtGroup DEF r
    <3> DEFINE d == (r.q + 1) \div ByteBits
    <3>3. r.q + 1 = ByteBits * d /\ d \in Nat
      <4>1. \A x \in Nat, B \in Nat \ {0} : x % B = 0 => x = B * (x \div B) /\ x \div B \in Nat
        OBVIOUS
      <4> QED BY <4>1, <3>2, <2>1, Constants
    <3> HIDE DEF d
    <3>4. a.from = r.from + ByteBits * (r.n * d) /\ r.n * d \in Nat /\ ByteBits * (r.n * d) \in Nat
      <4>1. a.from = r.from + r.n * (r.q + 1)
        <5>1. r.n * (r.q + 1) = r.n * r.q + r.n /\ r.n * r.q \in Nat
          BY <2>1
        <5> QED BY <5>1, <3>1, <2>1 DEF At
      <4>2. r.n * (ByteBits * d) = ByteBits * (r.n * d)
        BY <2>1, <3>3, Constants
      <4> QED BY <4>1, <4>2, <3>3, <2>1, Constants
    <3>5. (r.from + ByteBits * (r.n * d)) % ByteBits = 0
      <4> DEFINE g == ByteBits  x == r.from  k == r.n * d
      <4>1. g \in Nat \ {0} /\ x \in Int /\ k \in Int /\ x % g = 0
        BY <3>4, <2>1, <2>2, Constants
      <4> HIDE DEF g, x, k
      <4>2. (x + g * k) % g = 0
        BY <4>1, PackedSum
      <4> QED BY <4>2 DEF g, x, k
    <3>6. a.n \in InitBits .. b /\ (a.n - 1) = r.n /\ MAXCODE(a.n) = 2 * MAXCODE(r.n)
      <4>1. r.n + 1 \in InitBits .. b /\ (r.n + 1) - 1 = r.n
        BY <2>1, <2>2, <2>5, <1>0, Constants
      <4> QED BY <3>1, <4>1, FirstWidth
    <3>7. /\ a.n \in InitBits .. b /\ a.m \in Nat \ {0} /\ a.q \in Nat /\ a.from \in Nat
          /\ a.from % ByteBits = 0
      <4>1. a.from \in Nat /\ a.from % ByteBits = 0
        BY <3>4, <3>5, <2>1
      <4> QED BY <3>1, <4>1, <3>6, <2>1, <2>2
    <3>8. a.q = Literals + a.m - 1 - MAXCODE(a.n - 1)
      BY <3>1, <3>2, <3>6, <2>1, <2>3, Constants
    <3>9. Literals + a.m <= MAXCODE(a.n)
      BY <3>1, <3>2, <3>6, <2>1, <2>3, Constants
    <3>10. WidthOf(b, a)
      BY <3>7, <3>8, <3>9 DEF WidthOf
    <3> QED BY <3>10 DEF a
  <2>6. CASE r.code # CLEAR /\ ~(r.n < b /\ FIRST + r.m > MAXCODE(r.n))
    <3>1. a.m = r.m + 1 /\ a.n = r.n /\ a.q = r.q + 1 /\ a.from = r.from
      BY <1>2, <2>6, AfterFields DEF a, r
    <3> QED BY <3>1, <2>1, <2>2, <2>3, <2>6, Constants DEF WidthOf, a, FIRST
  <2> QED BY <2>4, <2>5, <2>6
<1> QED BY <1>1, <1>2

(* What a log says of its first entries stays true as it grows.            *)
LEMMA SamePrefix ==
  ASSUME NEW b, NEW log, NEW log2, NEW K \in Nat,
         \A i \in 1 .. K : log2[i] = log[i]
  PROVE  \A i \in 0 .. K : After(b, log2, i) = After(b, log, i) /\ Done(log2, i) = Done(log, i)
<1> TAKE i \in 0 .. K
<1>1. i # 0 => log2[i] = log[i]
  OBVIOUS
<1>2. Done(log2, i) = Done(log, i)
  BY <1>1 DEF Done
<1>3. After(b, log2, i) = After(b, log, i)
  BY <1>1 DEF After
<1> QED BY <1>2, <1>3

LEMMA DenotesKept ==
  ASSUME NEW t, NEW t2, NEW T \in Nat, \A k \in 1 .. T : t2[k] = t[k],
         NEW log, NEW log2, NEW K \in Nat, \A i \in 1 .. K : log2[i] = log[i],
         NEW d \in Nat, NEW c, NEW from \in Nat, NEW to \in 1 .. T,
         Denotes(t, log, d, c, from, to),
         c \in Byte \/ /\ Origin(d, c) \in 1 .. K /\ log[Origin(d, c)].end \in 0 .. T - 1
                       /\ Done(log, Origin(d, c) - 1) \in Nat
  PROVE  Denotes(t2, log2, d, c, from, to)
<1>1. CASE c \in Byte
  BY <1>1 DEF Denotes
<1>2. CASE c \notin Byte
  <2> DEFINE e == Origin(d, c)  s == Done(log, e - 1)
  <2>1. e \in 1 .. K /\ log[e].end \in 0 .. T - 1 /\ s \in Nat
    BY <1>2
  <2>2. log2[e] = log[e] /\ Done(log2, e - 1) = s
    BY <2>1, SamePrefix, e - 1 \in 0 .. K
  <2>3. to - from = log[e].end + 1 - s /\ Piece(t, from, to, s)
    BY <1>2 DEF Denotes
  <2> HIDE DEF e, s
  <2>4. Piece(t2, from, to, s)
    <3>1. SUFFICES ASSUME NEW k \in 1 .. to - from PROVE t2[from + k] = t2[s + k]
      BY DEF Piece
    <3>2. from + k \in 1 .. T /\ s + k \in 1 .. T
      BY <2>1, <2>3
    <3>3. t[from + k] = t[s + k]
      BY <2>3 DEF Piece
    <3> QED BY <3>2, <3>3
  <2> QED BY <1>2, <2>2, <2>3, <2>4 DEF Denotes, e, s
<1> QED BY <1>1, <1>2

(* Codes of the same table that denote two pieces of the text: the pieces  *)
(* are alike.                                                              *)
LEMMA SameString ==
  ASSUME NEW t, NEW log, NEW d, NEW c,
         NEW f1 \in Nat, NEW t1 \in Nat, NEW f2 \in Nat, NEW t2 \in Nat,
         Denotes(t, log, d, c, f1, t1), Denotes(t, log, d, c, f2, t2)
  PROVE  t1 - f1 = t2 - f2 /\ Piece(t, f1, t1, f2)
<1>1. CASE c \in Byte
  BY <1>1 DEF Denotes, Piece
<1>2. CASE c \notin Byte
  BY <1>2 DEF Denotes, Piece
<1> QED BY <1>1, <1>2

(* A code of the table is that of an entry since the last CLEAR.           *)
LEMMA OriginKnown ==
  ASSUME NEW d \in Nat, NEW m \in Nat, NEW c, Known(m, c), c \notin Byte
  PROVE  Origin(d, c) \in d + 1 .. d + m - 1 /\ c = FIRST + (Origin(d, c) - d) - 1 /\ c \in Nat
BY Constants DEF Known, Origin, FIRST

LEMMA NotClear ==
  ASSUME NEW m \in Nat, NEW c, Known(m, c)
  PROVE  c # CLEAR /\ c \in Nat
BY Constants DEF Known, FIRST, CLEAR, Byte

LEMMA LogFields ==
  ASSUME NEW b, NEW t, NEW log, Log(b, t, log), NEW i \in 1 .. Len(log)
  PROVE  /\ log[i] \in Entry /\ WidthOf(b, log[i]) /\ log[i].code < MAXCODE(log[i].n)
         /\ Done(log, i) = log[i].end /\ log[i].m \in 1 .. i
         /\ log[i].code = CLEAR => log[i].end = Done(log, i - 1)
         /\ log[i].code # CLEAR =>
              /\ log[i].end \in Done(log, i - 1) + 1 .. Len(t)
              /\ Known(log[i].m, log[i].code)
              /\ Denotes(t, log, i - log[i].m, log[i].code, Done(log, i - 1), log[i].end)
BY DEF Log, Sized, Counts, Told, Done

LEMMA LogEnds ==
  ASSUME NEW b, NEW t, NEW log, Log(b, t, log), NEW i \in 0 .. Len(log)
  PROVE  /\ Done(log, i) \in Nat /\ \A e \in 0 .. i : Done(log, e) \in Nat /\ Done(log, e) <= Done(log, i)
         /\ Len(log) \in Nat /\ Len(t) \in Nat
BY DEF Log, Ordered

(* The table begins after entry d.                                         *)
LEMMA Epoch ==
  ASSUME NEW b, NEW t, NEW log, Log(b, t, log), NEW i \in 0 .. Len(log)
  PROVE  LET d == i + 1 - After(b, log, i).m
         IN  /\ d \in 0 .. i
             /\ \A e \in d + 1 .. i : log[e].m = e - d /\ log[e].code # CLEAR
<1> DEFINE a == After(b, log, i)  d == i + 1 - a.m
<1>1. CASE i = 0
  BY <1>1, AfterFields
<1>2. CASE i # 0 /\ log[i].code = CLEAR
  <2>1. a.m = 1
    BY <1>2, AfterFields
  <2> QED BY <2>1
<1>3. CASE i # 0 /\ log[i].code # CLEAR
  <2>1. a.m = log[i].m + 1
    BY <1>3, AfterFields
  <2>2. log[i].m \in 1 .. i
        /\ \A e \in i - log[i].m + 1 .. i :
             /\ log[e].m = log[i].m - (i - e)
             /\ e < i => log[e].code # CLEAR
    BY <1>3 DEF Log, Counts
  <2>3. d = i - log[i].m
    BY <2>1, <2>2
  <2> QED BY <1>3, <2>2, <2>3
<1> QED BY <1>1, <1>2, <1>3

LEMMA Agreeing ==
  ASSUME NEW b, NEW t, NEW log, Log(b, t, log),
         NEW t2 \in Seq(Byte), Len(t) <= Len(t2), \A k \in 1 .. Len(t) : t2[k] = t[k],
         NEW log2, \A i \in 1 .. Len(log) : log2[i] = log[i],
         NEW i \in 1 .. Len(log)
  PROVE  LET r == log2[i]
             s == Done(log2, i - 1)
         IN  IF r.code = CLEAR THEN r.end = s /\ i > 1
             ELSE /\ r.end \in s + 1 .. Len(t2)
                  /\ Known(r.m, r.code)
                  /\ Denotes(t2, log2, i - r.m, r.code, s, r.end)
<1> DEFINE r == log[i]  s == Done(log, i - 1)
<1>1. log2[i] = r /\ Done(log2, i - 1) = s
  <2>1. Len(log) \in Nat /\ i - 1 \in 0 .. Len(log)
    BY LogEnds, 0 \in 0 .. Len(log) DEF Log
  <2> QED BY <2>1, SamePrefix
<1>2. i > 1 \/ r.code # CLEAR
  BY DEF Log, Told
<1>3. CASE r.code = CLEAR
  BY <1>1, <1>2, <1>3, LogFields
<1>4. CASE r.code # CLEAR
  <2>1. /\ r.end \in s + 1 .. Len(t) /\ Known(r.m, r.code) /\ r.m \in 1 .. i
        /\ Denotes(t, log, i - r.m, r.code, s, r.end)
    BY <1>4, LogFields
  <2>2. Len(t) \in Nat /\ Len(log) \in Nat /\ Len(t2) \in Nat
    BY DEF Log
  <2>3. s \in Nat /\ \A e \in 0 .. i - 1 : Done(log, e) \in Nat /\ Done(log, e) <= s
    <3>1. i - 1 \in 0 .. Len(log)
      BY <2>2
    <3> QED BY <3>1, LogEnds
  <2> DEFINE d == i - r.m  e == Origin(d, r.code)
  <2>5. d \in Nat /\ r.end \in 1 .. Len(t) /\ r.m \in Nat /\ s + 1 <= Len(t)
    BY <2>1, <2>3
  <2>4. r.code \notin Byte => e \in 1 .. Len(log) /\ log[e].end \in 0 .. Len(t) - 1 /\ Done(log, e - 1) \in Nat
    <3>1. SUFFICES ASSUME r.code \notin Byte
                   PROVE  e \in 1 .. Len(log) /\ log[e].end \in 0 .. Len(t) - 1 /\ Done(log, e - 1) \in Nat
      OBVIOUS
    <3>2. Origin(d, r.code) \in d + 1 .. d + r.m - 1
      <4> HIDE DEF d
      <4> QED BY <3>1, <2>1, <2>5, OriginKnown
    <3> HIDE DEF e
    <3>3. e \in 1 .. i - 1 /\ e - 1 \in 0 .. i - 1 /\ e \in 0 .. i - 1 /\ e \in 1 .. Len(log)
      BY <3>2, <2>1, <2>2 DEF e
    <3>4. Done(log, e) = log[e].end
      BY <3>3 DEF Done
    <3>5. log[e].end \in Nat /\ log[e].end <= s /\ Done(log, e - 1) \in Nat
      BY <3>3, <3>4, <2>3
    <3>6. s \in Nat /\ s + 1 <= Len(t)
      BY <2>3, <2>5
    <3> HIDE DEF s
    <3> QED BY <3>3, <3>5, <3>6, <2>2
  <2>6. Denotes(t2, log2, d, r.code, s, r.end)
    <3> HIDE DEF d, r, s
    <3>1. Denotes(t, log, d, r.code, s, r.end)
      BY <2>1 DEF d
    <3> HIDE DEF e
    <3>2. \/ r.code \in Byte
          \/ /\ Origin(d, r.code) \in 1 .. Len(log)
             /\ log[Origin(d, r.code)].end \in 0 .. Len(t) - 1
             /\ Done(log, Origin(d, r.code) - 1) \in Nat
      BY <2>4 DEF e
    <3> QED BY <3>1, <3>2, <2>2, <2>3, <2>5, DenotesKept
  <2> HIDE DEF d, e, r, s
  <2> QED BY <1>1, <1>4, <2>1, <2>2, <2>3, <2>6 DEF d
<1> QED BY <1>3, <1>4

LEMMA Extended ==
  ASSUME NEW b, NEW t, NEW log, Log(b, t, log), NEW c \in Byte
  PROVE  Log(b, Append(t, c), log)
<1> DEFINE t2 == Append(t, c)
<1>1. t \in Seq(Byte) /\ t2 \in Seq(Byte) /\ Len(t) <= Len(t2) /\ \A k \in 1 .. Len(t) : t2[k] = t[k]
  BY DEF Log
<1> HIDE DEF t2
<1>2. Told(t2, log)
  BY <1>1, Agreeing DEF Told
<1> QED BY <1>1, <1>2 DEF Log, t2

(* The entry that is written next.                                         *)
Follows(b, t, log, r) ==
    LET a == After(b, log, Len(log))
        s == Done(log, Len(log))
    IN  /\ r \in Entry /\ r.m = a.m /\ r.n = a.n /\ r.from = a.from /\ r.q = a.q
        /\ r.code < MAXCODE(r.n)
        /\ IF r.code = CLEAR THEN r.end = s /\ log # <<>>
           ELSE /\ r.end \in s + 1 .. Len(t) /\ Known(r.m, r.code)
                /\ Denotes(t, log, Len(log) + 1 - r.m, r.code, s, r.end)

LEMMA Appended ==
  ASSUME NEW b \in Bits, InitBits < b, NEW t, NEW log, Log(b, t, log), NEW r, Follows(b, t, log, r)
  PROVE  Log(b, t, Append(log, r))
<1> DEFINE K == Len(log)  log2 == Append(log, r)  a == After(b, log, K)
<1>1. log \in Seq(Entry) /\ r \in Entry /\ K \in Nat /\ t \in Seq(Byte) /\ Len(t) \in Nat
  BY DEF Log, Follows
<1>2. /\ log2 \in Seq(Entry) /\ Len(log2) = K + 1 /\ log2[K + 1] = r
      /\ \A i \in 1 .. K : log2[i] = log[i]
  BY <1>1
<1> HIDE DEF log2
<1>3. \A i \in 0 .. K : After(b, log2, i) = After(b, log, i) /\ Done(log2, i) = Done(log, i)
  BY <1>1, <1>2, SamePrefix
<1>4. \A i \in 1 .. K + 1 : i # K + 1 => i \in 1 .. K /\ i - 1 \in 0 .. K
  BY <1>1
<1>5. K \in 0 .. K /\ (K + 1) - 1 = K
  BY <1>1
<1>6. r.m = a.m /\ r.n = a.n /\ r.from = a.from /\ r.q = a.q /\ r.code < MAXCODE(r.n)
  BY DEF Follows
<1> HIDE DEF K
<1>7. Shaped(b, log2)
  <2>1. SUFFICES ASSUME NEW i \in 1 .. K + 1
                 PROVE  LET x == log2[i]
                            y == After(b, log2, i - 1)
                        IN  x.m = y.m /\ x.n = y.n /\ x.from = y.from /\ x.q = y.q
    BY <1>2, Zenon DEF Shaped
  <2>2. CASE i = K + 1
    BY <2>2, <1>2, <1>3, <1>5, <1>6
  <2>3. CASE i # K + 1
    <3>1. i \in 1 .. K /\ i - 1 \in 0 .. K
      BY <2>3, <1>4
    <3>2. log2[i] = log[i] /\ After(b, log2, i - 1) = After(b, log, i - 1)
      BY <3>1, <1>2, <1>3
    <3> QED BY <3>1, <3>2 DEF Log, Shaped, K
  <2> QED BY <2>2, <2>3
<1>8. Sized(b, log2)
  <2>1. SUFFICES ASSUME NEW i \in 1 .. K + 1
                 PROVE  WidthOf(b, log2[i]) /\ log2[i].code < MAXCODE(log2[i].n)
    BY <1>2, Zenon DEF Sized
  <2>2. CASE i = K + 1
    <3>1. WidthOf(b, a)
      BY DEF Log, K
    <3>2. WidthOf(b, r)
      BY <3>1, <1>6 DEF WidthOf
    <3> QED BY <3>2, <2>2, <1>2, <1>6
  <2>3. CASE i # K + 1
    BY <2>3, <1>2, <1>4, LogFields DEF K
  <2> QED BY <2>2, <2>3
<1>9. Counts(log2)
  <2>1. SUFFICES ASSUME NEW i \in 1 .. K + 1
                 PROVE  /\ log2[i].m \in 1 .. i
                        /\ \A e \in i - log2[i].m + 1 .. i :
                              /\ log2[e].m = log2[i].m - (i - e)
                              /\ e < i => log2[e].code # CLEAR
    BY <1>2, Zenon DEF Counts
  <2>2. CASE i = K + 1
    <3> DEFINE d == K + 1 - a.m
    <3>1. d \in 0 .. K /\ \A e \in d + 1 .. K : log[e].m = e - d /\ log[e].code # CLEAR
      BY Epoch, <1>5 DEF K
    <3>2. r.m \in Nat
      BY <1>1, EntryFields
    <3> HIDE DEF a
    <3>3. \A e \in d + 1 .. K : log2[e].m = e - d /\ log2[e].code # CLEAR
      BY <3>1, <1>2, <1>1
    <3>4. log2[i] = r /\ i - r.m = d /\ r.m \in 1 .. i /\ r.m = i - d
      <4>1. log2[i] = r
        BY <2>2, <1>2
      <4>2. d = K + 1 - r.m /\ d \in 0 .. K /\ i = K + 1 /\ K \in Nat /\ r.m \in Nat
        BY <2>2, <3>1, <3>2, <1>6, <1>1
      <4> HIDE DEF d
      <4>3. i - r.m = d /\ r.m \in 1 .. i /\ r.m = i - d
        BY <4>2
      <4> QED BY <4>1, <4>3
    <3>5. ASSUME NEW e \in d + 1 .. i
          PROVE  log2[e].m = r.m - (i - e) /\ (e < i => log2[e].code # CLEAR)
      <4>1. CASE e = i
        BY <4>1, <3>4, <3>2, <1>1
      <4>2. CASE e # i
        <5> HIDE DEF d
        <5>1. e \in d + 1 .. K
          BY <4>2, <2>2, <3>1, <1>1
        <5> QED BY <5>1, <3>1, <3>3, <3>4, <1>1
      <4> QED BY <4>1, <4>2
    <3> HIDE DEF d
    <3> QED BY <3>4, <3>5
  <2>3. CASE i # K + 1
    <3>1. i \in 1 .. K
      BY <2>3, <1>4
    <3>2. /\ log[i].m \in 1 .. i
          /\ \A e \in i - log[i].m + 1 .. i :
                log[e].m = log[i].m - (i - e) /\ (e < i => log[e].code # CLEAR)
      BY <3>1 DEF Log, Counts, K
    <3>3. \A e \in i - log[i].m + 1 .. i : e \in 1 .. K
      BY <3>1, <3>2, <1>1
    <3> QED BY <3>1, <3>2, <3>3, <1>2
  <2> QED BY <2>2, <2>3
<1>10. r.end \in Nat /\ Done(log, K) <= r.end
  <2>1. r.end \in Nat /\ Done(log, K) \in Nat
    BY <1>1, <1>5, LogEnds, EntryFields DEF K
  <2> QED BY <2>1, <1>1 DEF Follows, K
<1>11. Ordered(log2)
  <2>1. Done(log2, K + 1) = r.end
    BY <1>1, <1>2 DEF Done
  <2>2. SUFFICES ASSUME NEW i \in 0 .. K + 1
                 PROVE  Done(log2, i) \in Nat /\ \A e \in 0 .. i : Done(log2, e) <= Done(log2, i)
    BY <1>2, Zenon DEF Ordered
  <2>3. CASE i = K + 1
    <3>1. \A e \in 0 .. K : Done(log, e) \in Nat /\ Done(log, e) <= Done(log, K)
      BY <1>5, LogEnds DEF K
    <3>2. \A e \in 0 .. K : Done(log2, e) <= r.end
      BY <3>1, <1>3, <1>5, <1>10
    <3>3. \A e \in 0 .. K + 1 : e \in 0 .. K \/ e = K + 1
      BY <1>1
    <3> QED BY <2>3, <2>1, <3>2, <3>3, <1>10
  <2>4. CASE i # K + 1
    <3>1. i \in 0 .. K
      BY <2>4, <1>1
    <3>2. Done(log, i) \in Nat /\ \A e \in 0 .. i : Done(log, e) <= Done(log, i)
      BY <3>1, LogEnds DEF K
    <3>3. \A e \in 0 .. i : e \in 0 .. K
      BY <3>1, <1>1
    <3> QED BY <3>1, <3>2, <3>3, <1>3
  <2> QED BY <2>3, <2>4
<1>12. Told(t, log2)
  <2>1. SUFFICES ASSUME NEW i \in 1 .. K + 1
                 PROVE  LET x == log2[i]
                            s == Done(log2, i - 1)
                        IN  IF x.code = CLEAR THEN x.end = s /\ i > 1
                            ELSE /\ x.end \in s + 1 .. Len(t)
                                 /\ Known(x.m, x.code)
                                 /\ Denotes(t, log2, i - x.m, x.code, s, x.end)
    BY <1>2, Zenon DEF Told
  <2>2. CASE i = K + 1
    <3> DEFINE s == Done(log, K)  d == K + 1 - r.m
    <3>1. IF r.code = CLEAR THEN r.end = s /\ log # <<>>
          ELSE /\ r.end \in s + 1 .. Len(t) /\ Known(r.m, r.code)
               /\ Denotes(t, log, d, r.code, s, r.end)
      BY DEF Follows, K
    <3>2. d \in 0 .. K /\ r.m \in Nat /\ r.code \in Nat
      BY <1>1, <1>5, <1>6, Epoch, EntryFields DEF K
    <3>3. s \in Nat /\ \A e \in 0 .. K : Done(log, e) \in Nat /\ Done(log, e) <= s
      BY <1>5, LogEnds DEF K
    <3>4. r.code # CLEAR => Denotes(t, log2, d, r.code, s, r.end)
      <4>1. SUFFICES ASSUME r.code # CLEAR PROVE Denotes(t, log2, d, r.code, s, r.end)
        OBVIOUS
      <4>2. r.end \in s + 1 .. Len(t) /\ Known(r.m, r.code) /\ Denotes(t, log, d, r.code, s, r.end)
        BY <4>1, <3>1
      <4> DEFINE e == Origin(d, r.code)
      <4>3. r.code \notin Byte => e \in 1 .. K /\ log[e].end \in 0 .. Len(t) - 1 /\ Done(log, e - 1) \in Nat
        <5>1. SUFFICES ASSUME r.code \notin Byte
                       PROVE  e \in 1 .. K /\ log[e].end \in 0 .. Len(t) - 1 /\ Done(log, e - 1) \in Nat
          OBVIOUS
        <5>2. Origin(d, r.code) \in d + 1 .. d + r.m - 1
          <6>1. d \in Nat
            BY <3>2, <1>1
          <6> HIDE DEF d
          <6> QED BY <6>1, <5>1, <4>2, <3>2, OriginKnown
        <5> HIDE DEF e
        <5>3. e \in 1 .. K /\ e - 1 \in 0 .. K /\ e \in 0 .. K
          <6>1. d \in 0 .. K /\ d + r.m = K + 1 /\ r.m \in Nat /\ K \in Nat
            <7>1. \A x, y \in Nat : x + 1 - y + y = x + 1
              OBVIOUS
            <7>2. K \in Nat
              BY <1>1
            <7> QED BY <3>2, <7>1, <7>2
          <6>2. e \in d + 1 .. d + r.m - 1
            BY <5>2 DEF e
          <6> HIDE DEF d
          <6> QED BY <6>1, <6>2
        <5>4. Done(log, e) = log[e].end
          BY <5>3 DEF Done
        <5> HIDE DEF s
        <5> QED BY <5>3, <5>4, <4>2, <3>3, <1>1
      <4> HIDE DEF e, s
      <4>4. d \in Nat /\ r.end \in 1 .. Len(t) /\ \A k \in 1 .. Len(t) : t[k] = t[k]
        BY <3>2, <3>3, <4>2, <1>1
      <4> HIDE DEF d
      <4> QED BY <4>2, <4>3, <4>4, <3>3, <1>1, <1>2, DenotesKept DEF e
    <3>5. log # <<>> => K + 1 > 1
      BY <1>1 DEF K
    <3>6. log2[i] = r /\ Done(log2, i - 1) = s
      BY <2>2, <1>2, <1>3, <1>5
    <3>7. i - r.m = d
      <4>1. r.m \in Int /\ i \in Int /\ K \in Int
        BY <3>2, <1>1, <2>2
      <4>2. \A x \in Int : i - x = K + 1 - x
        BY <2>2, <4>1
      <4> QED BY <4>1, <4>2
    <3>8. i > 1 \/ log = <<>>
      BY <2>2, <3>5
    <3> HIDE DEF s, d
    <3>9. CASE r.code = CLEAR
      BY <3>9, <3>1, <3>6, <3>8
    <3>10. CASE r.code # CLEAR
      BY <3>10, <3>1, <3>4, <3>6, <3>7
    <3> QED BY <3>9, <3>10
  <2>3. CASE i # K + 1
    <3>1. i \in 1 .. K
      BY <2>3, <1>4
    <3>2. t \in Seq(Byte) /\ Len(t) <= Len(t) /\ (\A k \in 1 .. Len(t) : t[k] = t[k])
          /\ i \in 1 .. Len(log) /\ \A k \in 1 .. Len(log) : log2[k] = log[k]
      BY <3>1, <1>1, <1>2 DEF K
    <3> QED BY <3>2, Agreeing
  <2> QED BY <2>2, <2>3
<1>13. WidthOf(b, After(b, log2, K + 1))
  <2>1. log2[K + 1] \in Entry /\ WidthOf(b, log2[K + 1])
    BY <1>1, <1>2, <1>8 DEF Sized
  <2> QED BY <2>1, <1>1, AfterWidth
<1> QED BY <1>1, <1>2, <1>7, <1>8, <1>9, <1>11, <1>12, <1>13 DEF Log, log2


(* A code is written where nothing is yet, and fits its width: the codes   *)
(* before it keep their bits.                                              *)
LEMMA PlacedNext ==
  ASSUME NEW log \in Seq(Entry), NEW r \in Entry, NEW f, NEW f2,
         Placed(f, log, At(r)), r.n \in 0 .. Literals, r.code < MAXCODE(r.n),
         f2 = f \cup {At(r) + k : k \in {j \in 0 .. Literals : Bit(r.code, j)}}
  PROVE  Placed(f2, Append(log, r), At(r) + r.n)
<1> DEFINE K == Len(log)  log2 == Append(log, r)  at == At(r)
<1>1. at \in Nat /\ K \in Nat /\ r.n \in Nat /\ r.code \in Nat
  <2>1. r.from \in Nat /\ r.n \in Nat /\ r.q \in Nat /\ r.code \in Nat
    BY EntryFields
  <2> QED BY <2>1, AtType
<1>2. Len(log2) = K + 1 /\ log2[K + 1] = r /\ \A i \in 1 .. K : log2[i] = log[i] /\ log[i] \in Entry
  OBVIOUS
<1>3. \A j \in r.n .. Literals : ~ Bit(r.code, j)
  BY <1>1, NoBitAbove
<1>4. ASSUME NEW p PROVE p \in f2 <=> p \in f \/ \E j \in 0 .. r.n - 1 : p = at + j /\ Bit(r.code, j)
  <2>1. p \in f2 <=> p \in f \/ \E j \in 0 .. Literals : p = at + j /\ Bit(r.code, j)
    OBVIOUS
  <2>2. \A j \in 0 .. Literals : Bit(r.code, j) => j \in 0 .. r.n - 1
    BY <1>1, <1>3, Constants
  <2>3. \A j \in 0 .. r.n - 1 : j \in 0 .. Literals
    BY <1>1, Constants
  <2> QED BY <2>1, <2>2, <2>3
<1>5. \A p \in f : p \in Nat /\ p < at
  BY DEF Placed
<1> HIDE DEF log2, at, K
<1>6. \A p \in f2 : p \in Nat /\ p < at + r.n
  <2> TAKE p \in f2
  <2>1. CASE p \in f
    BY <2>1, <1>1, <1>5
  <2>2. CASE p \notin f
    <3>1. PICK j \in 0 .. r.n - 1 : p = at + j
      BY <2>2, <1>4
    <3> QED BY <3>1, <1>1
  <2> QED BY <2>1, <2>2
<1>7. ASSUME NEW i \in 1 .. K + 1
      PROVE  /\ At(log2[i]) + log2[i].n <= at + r.n
             /\ \A k \in 0 .. log2[i].n - 1 :
                   Bit(log2[i].code, k) <=> At(log2[i]) + k \in f2
  <2>1. CASE i = K + 1
    <3>1. log2[i] = r /\ At(log2[i]) = at
      BY <2>1, <1>2 DEF at
    <3>2. ASSUME NEW k \in 0 .. r.n - 1 PROVE Bit(r.code, k) <=> at + k \in f2
      <4>1. at + k \notin f
        BY <1>1, <1>5
      <4>2. \A j \in 0 .. r.n - 1 : at + k = at + j => j = k
        BY <1>1
      <4> QED BY <4>1, <4>2, <1>4
    <3>3. at + r.n <= at + r.n
      BY <1>1
    <3> QED BY <3>1, <3>2, <3>3
  <2>2. CASE i # K + 1
    <3> DEFINE x == log[i]
    <3>1. i \in 1 .. K
      BY <2>2, <1>1
    <3>2. /\ At(x) + x.n <= at
          /\ \A k \in 0 .. x.n - 1 : Bit(x.code, k) <=> At(x) + k \in f
      BY <3>1 DEF Placed, K, at
    <3>3. log2[i] = x /\ x \in Entry
      BY <3>1, <1>2
    <3> HIDE DEF x
    <3>4. x.from \in Nat /\ x.n \in Nat /\ x.q \in Nat
      BY <3>3, EntryFields
    <3>5. At(x) \in Nat
      BY <3>4, AtType
    <3> DEFINE y == At(x)  n == x.n  rn == r.n
    <3>6. y \in Nat /\ n \in Nat /\ y + n <= at /\ rn \in Nat
      BY <3>2, <3>4, <3>5, <1>1
    <3> HIDE DEF y, n, rn
    <3>7. y + n <= at + rn
      BY <3>6, <1>1
    <3>8. ASSUME NEW k \in 0 .. n - 1 PROVE y + k \in f2 <=> y + k \in f
      <4>1. \A j \in 0 .. rn - 1 : y + k # at + j
        BY <3>6, <1>1
      <4> QED BY <4>1, <1>4 DEF rn
    <3>9. \A k \in 0 .. n - 1 : Bit(x.code, k) <=> y + k \in f2
      BY <3>2, <3>8 DEF y, n
    <3> QED BY <3>3, <3>7, <3>9 DEF y, n, rn
  <2> QED BY <2>1, <2>2
<1> QED BY <1>2, <1>6, <1>7 DEF Placed, log2, at

LEMMA PlacedBefore ==
  ASSUME NEW f, NEW log \in Seq(Entry), NEW s \in Nat, NEW t \in Nat, s <= t, Placed(f, log, s)
  PROVE  Placed(f, log, t)
<1>1. \A i \in 1 .. Len(log) : At(log[i]) + log[i].n \in Nat
  <2> TAKE i \in 1 .. Len(log)
  <2> DEFINE x == log[i]
  <2>1. x \in Entry
    OBVIOUS
  <2> HIDE DEF x
  <2>2. x.from \in Nat /\ x.n \in Nat /\ x.q \in Nat
    BY <2>1, EntryFields
  <2>3. At(x) + x.n \in Nat
    BY <2>2, AtType
  <2> QED BY <2>3 DEF x
<1>2. ASSUME NEW i \in 1 .. Len(log) PROVE At(log[i]) + log[i].n <= t
  <2> DEFINE x == At(log[i]) + log[i].n
  <2>1. x \in Nat /\ x <= s
    BY <1>1 DEF Placed
  <2> HIDE DEF x
  <2>2. x <= t
    BY <2>1
  <2> QED BY <2>2 DEF x
<1>3. \A p \in f : p \in Nat /\ p < t
  BY DEF Placed
<1> QED BY <1>2, <1>3 DEF Placed


(***************************************************************************)
(* The steps of compress, on the record of its variables.                  *)
(***************************************************************************)
LEMMA EncFields ==
  ASSUME NEW b, NEW e, EncType(b, e)
  PROVE  /\ e.ent \in Nat /\ e.rlop \in Int /\ e.rsize \in Nat /\ e.checkpoint \in Int
         /\ e.outbits \in Nat /\ e.boff \in Int /\ e.bytes_out \in Nat
         /\ e.n_bits \in InitBits .. b /\ e.extcode \in Int
         /\ e.free_ent \in FIRST .. MAXCODE(b) /\ e.stcode \in BOOLEAN
         /\ e.htab \in [DOMAIN e.htab -> FIRST .. e.free_ent - 1]
         /\ DOMAIN e.htab \subseteq (0 .. e.free_ent - 1) \X Byte
BY DEF EncType, EncRecord

LEMMA EncMoved ==
  ASSUME NEW b, NEW h, NEW e \in EncRecord(b, h), NEW o \in Nat, NEW f \in Int
  PROVE  LET p == [e EXCEPT !.outbits = o, !.boff = f]
         IN  /\ p \in EncRecord(b, h) /\ p.outbits = o /\ p.boff = f
             /\ p.ent = e.ent /\ p.rlop = e.rlop /\ p.rsize = e.rsize
             /\ p.checkpoint = e.checkpoint /\ p.bytes_out = e.bytes_out
             /\ p.n_bits = e.n_bits /\ p.extcode = e.extcode /\ p.free_ent = e.free_ent
             /\ p.stcode = e.stcode /\ p.htab = e.htab
BY DEF EncRecord

LEMMA WidthFields ==
  ASSUME NEW b \in Bits, NEW a, WidthOf(b, a)
  PROVE  /\ a.n \in InitBits .. b /\ a.n \in Nat \ {0} /\ a.n \in 0 .. Literals
         /\ a.m \in Nat \ {0} /\ a.q \in Nat /\ a.from \in Nat
         /\ a.q = Literals + a.m - 1 - MAXCODE(a.n - 1)
         /\ a.n < b => Literals + a.m <= MAXCODE(a.n)
         /\ a.from % ByteBits = 0
         /\ At(a) \in Nat /\ At(a) + a.n \in Nat /\ At(a) = a.from + a.n * a.q
<1>1. b \in InitBits .. Literals
  BY FirstWidth
<1>2. a.n \in InitBits .. b /\ a.m \in Nat \ {0} /\ a.q \in Nat /\ a.from \in Nat
  BY DEF WidthOf
<1>3. a.n \in Nat \ {0} /\ a.n \in 0 .. Literals
  BY <1>1, <1>2, Constants
<1> QED BY <1>2, <1>3, AtType DEF WidthOf

LEMMA SyncedParts ==
  ASSUME NEW b \in Bits, NEW e, NEW t, NEW log, Synced(b, e, t, log)
  PROVE  LET a == After(b, log, Len(log))
         IN  /\ Log(b, t, log) /\ EncType(b, e) /\ WidthOf(b, a)
             /\ Counting(b, e, a) /\ Aligned(e, a) /\ Table(e, t, log, a) /\ Pending(e, t, log, a)
             /\ log \in Seq(Entry) /\ Len(log) \in Nat /\ t \in Seq(Byte) /\ Len(t) \in Nat
BY DEF Synced, Log

(* In front of a code: the width is that of the entry that follows, unless *)
(* the table is as full as the width allows.                               *)
LEMMA NotGrown ==
  ASSUME NEW b \in Bits, NEW e, NEW a, EncType(b, e), WidthOf(b, a), Aligned(e, a),
         e.stcode => e.free_ent < e.extcode
  PROVE  e.n_bits = a.n
<1>1. e.free_ent \in Int /\ e.extcode \in Int
  <2>1. \A x \in FIRST .. MAXCODE(b) : x \in Int
    OBVIOUS
  <2> QED BY <2>1, EncFields
<1>2. ~ Grown(e, a)
  BY <1>1 DEF Grown
<1> QED BY <1>2 DEF Aligned

LEMMA WidenedKeeps ==
  ASSUME maxbits \in Bits, InitBits < maxbits,
         NEW e, NEW t, NEW log, Synced(maxbits, e, t, log), t # <<>>
  PROVE  LET w == Widened(e)
             a == After(maxbits, log, Len(log))
         IN  /\ Synced(maxbits, w, t, log) /\ w.n_bits = a.n /\ e.n_bits <= w.n_bits
             /\ w.ent = e.ent /\ w.rlop = e.rlop /\ w.rsize = e.rsize
             /\ w.outbits = e.outbits /\ w.bytes_out = e.bytes_out
             /\ w.stcode => w.free_ent < w.extcode
             /\ ~w.stcode => w.n_bits = maxbits
<1> DEFINE b == maxbits  w == Widened(e)  a == After(b, log, Len(log))
<1>0. /\ b \in InitBits .. Literals /\ b \in Nat /\ MAXCODE(b) \in Nat
      /\ \A n \in InitBits .. b : /\ MAXCODE(n) = 2 * MAXCODE(n - 1) /\ MAXCODE(n) \in Nat \ {0}
                                  /\ MAXCODE(n) <= MAXCODE(b) /\ 2 * Literals <= MAXCODE(n)
  <2>1. b \in InitBits .. b
    BY FirstWidth
  <2> QED BY <2>1, FirstWidth
<1>1. /\ Log(b, t, log) /\ EncType(b, e) /\ WidthOf(b, a)
      /\ Counting(b, e, a) /\ Aligned(e, a) /\ Table(e, t, log, a) /\ Pending(e, t, log, a)
  BY SyncedParts
<1>2. /\ a.n \in InitBits .. b /\ a.m \in Nat \ {0}
      /\ a.n < b => Literals + a.m <= MAXCODE(a.n)
      /\ a.q = Literals + a.m - 1 - MAXCODE(a.n - 1)
  BY <1>1, WidthFields
<1>3. /\ e.ent \in Nat /\ e.outbits \in Nat /\ e.boff \in Int /\ e.n_bits \in InitBits .. b
      /\ e.extcode \in Int /\ e.free_ent \in FIRST .. MAXCODE(b) /\ e.stcode \in BOOLEAN
      /\ e.n_bits \in Nat \ {0} /\ e.free_ent \in Nat
  <2>1. \A x \in InitBits .. b : x \in Nat \ {0}
    BY Constants, <1>0
  <2>2. \A x \in FIRST .. MAXCODE(b) : x \in Nat
    BY Constants, <1>0
  <2> QED BY <1>1, EncFields, <2>1, <2>2
<1>4. e.stcode \/ e.n_bits = b
  BY <1>1 DEF Counting
<1> HIDE DEF a, b
<1>5. CASE e.free_ent < e.extcode \/ e.ent >= FIRST
  <2>1. w = e
    BY <1>5 DEF Widened
  <2>2. e.stcode => e.free_ent < e.extcode
    BY <1>1, <1>5 DEF Counting
  <2>3. e.n_bits = a.n
    BY <1>1, <2>2, NotGrown DEF b
  <2>4. ~e.stcode => e.n_bits = b
    BY <1>4
  <2>5. e.n_bits <= e.n_bits
    BY <1>3
  <2> QED BY <2>1, <2>2, <2>3, <2>4, <2>5 DEF a, b
<1>6. CASE ~(e.free_ent < e.extcode \/ e.ent >= FIRST) /\ e.n_bits < b
  <2> DEFINE n == e.n_bits + 1
             end == GroupEnd(e.outbits, e.boff, e.n_bits)
             x == MAXCODE(n) + (IF n < b THEN 1 ELSE 0)
  <2>1. w = [[e EXCEPT !.outbits = end, !.boff = end] EXCEPT !.n_bits = n, !.extcode = x]
    BY <1>6 DEF Widened, Padded, b
  <2>2. e.stcode /\ e.free_ent = Literals + a.m /\ e.extcode = MAXCODE(e.n_bits) + 1
        /\ e.free_ent = e.extcode
    <3>1. e.stcode
      BY <1>4, <1>6, <1>3, <1>0
    <3>2. e.free_ent = Literals + a.m /\ e.extcode = Extcode(b, e.n_bits) /\ e.free_ent <= e.extcode
      BY <3>1, <1>1 DEF Counting
    <3>3. e.extcode = MAXCODE(e.n_bits) + 1
      BY <3>2, <1>6 DEF Extcode
    <3>4. e.free_ent = e.extcode
      BY <3>2, <1>6, <1>3
    <3> QED BY <3>1, <3>2, <3>3, <3>4
  <2>3. Literals + a.m > MAXCODE(e.n_bits)
    BY <2>2, <1>0, <1>3
  <2>4. Grown(e, a) /\ \E g \in Int : e.outbits - e.boff = (e.n_bits * ByteBits) * g
    <3>1. e.n_bits # a.n
      <4>1. SUFFICES ASSUME e.n_bits = a.n PROVE FALSE
        OBVIOUS
      <4>2. Literals + a.m <= MAXCODE(a.n) /\ Literals + a.m > MAXCODE(a.n)
        BY <4>1, <1>2, <1>6, <2>3
      <4>3. MAXCODE(a.n) \in Int /\ Literals + a.m \in Int
        BY <1>2, <1>0, Constants
      <4> QED BY <4>2, <4>3
    <3> QED BY <3>1, <1>1 DEF Aligned
  <2>5. end = e.outbits
    <3>1. PICK g \in Int : e.outbits - e.boff = (e.n_bits * ByteBits) * g
      BY <2>4
    <3> QED BY <3>1, <1>3, GroupBegins
  <2>6. n = a.n /\ a.q = 0 /\ n \in InitBits .. b
    BY <2>4, <1>2 DEF Grown
  <2>7. MAXCODE(n) = 2 * MAXCODE(e.n_bits) /\ MAXCODE(e.n_bits) \in Nat /\ MAXCODE(n) \in Nat
        /\ MAXCODE(e.n_bits) >= 2 * Literals
    <3>1. n - 1 = e.n_bits
      BY <1>3
    <3>2. MAXCODE(n) = 2 * MAXCODE(n - 1) /\ MAXCODE(n) \in Nat
      BY <2>6, <1>0
    <3> QED BY <3>1, <3>2, <1>0, <1>3
  <2> HIDE DEF n, end
  <2>8. x = Extcode(b, n) /\ x \in Int /\ e.free_ent < x
    <3>1. x = Extcode(b, n)
      BY <2>7 DEF Extcode
    <3>2. x \in Int /\ x >= MAXCODE(n)
      BY <2>7
    <3> HIDE DEF x
    <3>3. e.free_ent = MAXCODE(e.n_bits) + 1
      BY <2>2
    <3> QED BY <3>1, <3>2, <3>3, <2>7, Constants
  <2> HIDE DEF x, w
  <2>9. /\ w.n_bits = n /\ w.extcode = x /\ w.boff = e.outbits /\ w.outbits = e.outbits
        /\ w.ent = e.ent /\ w.rlop = e.rlop /\ w.rsize = e.rsize /\ w.bytes_out = e.bytes_out
        /\ w.free_ent = e.free_ent /\ w.stcode = e.stcode /\ w.htab = e.htab
    BY <2>1, <2>5, <1>1 DEF EncType, EncRecord
  <2>10. EncType(b, w)
    <3>1. w \in EncRecord(b, w.htab)
      <4> DEFINE p == [e EXCEPT !.outbits = end, !.boff = end]
      <4>1. p \in EncRecord(b, e.htab)
        <5>1. e \in EncRecord(b, e.htab) /\ end \in Nat /\ end \in Int
          BY <2>5, <1>1, <1>3 DEF EncType
        <5> QED BY <5>1, EncMoved
      <4>2. w = [p EXCEPT !.n_bits = n, !.extcode = x]
        BY <2>1
      <4> HIDE DEF p
      <4> QED BY <4>1, <4>2, <2>6, <2>8, <2>9 DEF EncRecord
    <3> QED BY <3>1, <2>9, <1>1, EncFields DEF EncType
  <2>11. Counting(b, w, a)
    BY <2>2, <2>8, <2>9, <1>3 DEF Counting
  <2>12. Aligned(w, a)
    <3>1. w.bytes_out * ByteBits + w.outbits = At(a)
      BY <1>1, <2>9 DEF Aligned
    <3>2. w.outbits - w.boff = a.n * a.q + (a.n * ByteBits) * 0
      <4>1. w.outbits - w.boff = 0
        BY <2>9, <1>3
      <4>2. \A y, z \in Int : y * 0 + (y * z) * 0 = 0
        OBVIOUS
      <4>3. a.n \in Int /\ ByteBits \in Int
        BY <1>2, <1>0, Constants
      <4> QED BY <4>1, <4>2, <4>3, <2>6
    <3>3. \E g \in Int : w.outbits - w.boff = a.n * a.q + (a.n * ByteBits) * g
      BY <3>2, 0 \in Int
    <3> QED BY <3>1, <3>3, <2>6, <2>9 DEF Aligned
  <2>13. Table(w, t, log, a)
    BY <2>9, <1>1 DEF Table
  <2>14. Pending(w, t, log, a)
    BY <2>9, <1>1 DEF Pending
  <2>15. Synced(b, w, t, log)
    BY <1>1, <2>10, <2>11, <2>12, <2>13, <2>14 DEF Synced, a
  <2>16. e.n_bits <= n
    BY <1>3 DEF n
  <2> QED BY <2>2, <2>6, <2>8, <2>9, <2>15, <2>16 DEF b, a, w
<1>7. CASE ~(e.free_ent < e.extcode \/ e.ent >= FIRST) /\ ~(e.n_bits < b)
  <2> DEFINE x == MAXCODE(16) + OBufSiz
  <2>0. x \in Int
    BY Constants DEF MAXCODE
  <2> HIDE DEF x
  <2>1. w = [e EXCEPT !.extcode = x, !.stcode = FALSE]
    BY <1>7 DEF Widened, b, x
  <2> HIDE DEF w
  <2>2. /\ w.n_bits = e.n_bits /\ w.boff = e.boff /\ w.outbits = e.outbits
        /\ w.ent = e.ent /\ w.rlop = e.rlop /\ w.rsize = e.rsize /\ w.bytes_out = e.bytes_out
        /\ w.free_ent = e.free_ent /\ w.stcode = FALSE /\ w.htab = e.htab
    BY <2>1, <1>1 DEF EncType, EncRecord
  <2>3. EncType(b, w)
    <3>1. w \in EncRecord(b, w.htab)
      BY <2>0, <2>1, <2>2, <1>1 DEF EncType, EncRecord
    <3> QED BY <3>1, <2>2, <1>1, EncFields DEF EncType
  <2>4. e.n_bits = b
    BY <1>7, <1>3, <1>0
  <2>5. ~ Grown(e, a)
    BY <2>4, <1>2, <1>0, <1>3 DEF Grown
  <2>6. e.n_bits = a.n /\ Aligned(w, a)
    BY <2>2, <2>5, <1>1 DEF Aligned
  <2>7. Counting(b, w, a)
    <3>1. CASE ~e.stcode
      BY <3>1, <2>2, <1>1 DEF Counting
    <3>2. CASE e.stcode
      <4>1. e.free_ent = Literals + a.m /\ e.extcode = MAXCODE(b) /\ e.free_ent <= e.extcode
        BY <3>2, <1>1, <2>4, <1>0 DEF Counting, Extcode
      <4>2. e.free_ent = MAXCODE(b)
        BY <4>1, <1>7, <1>3, <1>0
      <4>3. Literals + a.m >= e.free_ent
        BY <4>1, <1>3
      <4> QED BY <4>2, <4>3, <2>2, <2>4 DEF Counting
    <3> QED BY <3>1, <3>2
  <2>8. Table(w, t, log, a)
    BY <2>2, <1>1 DEF Table
  <2>9. Pending(w, t, log, a)
    BY <2>2, <1>1 DEF Pending
  <2>10. Synced(b, w, t, log)
    BY <1>1, <2>3, <2>6, <2>7, <2>8, <2>9 DEF Synced, a
  <2> QED BY <2>2, <2>4, <2>6, <2>10, <1>3 DEF b, a, w
<1> QED BY <1>5, <1>6, <1>7


LEMMA EncPast ==
  ASSUME NEW b, NEW h, NEW e \in EncRecord(b, h), e.n_bits \in Nat
  PROVE  LET p == Past(e)
         IN  /\ p \in EncRecord(b, h) /\ p.outbits = e.outbits + e.n_bits
             /\ p.ent = e.ent /\ p.rlop = e.rlop /\ p.rsize = e.rsize /\ p.boff = e.boff
             /\ p.checkpoint = e.checkpoint /\ p.bytes_out = e.bytes_out
             /\ p.n_bits = e.n_bits /\ p.extcode = e.extcode /\ p.free_ent = e.free_ent
             /\ p.stcode = e.stcode /\ p.htab = e.htab
<1> DEFINE o == e.outbits + e.n_bits
<1>1. o \in Nat
  BY DEF EncRecord
<1>2. Past(e) = [e EXCEPT !.outbits = o]
  BY DEF Past
<1> HIDE DEF o
<1>3. /\ Past(e) \in EncRecord(b, h) /\ Past(e).outbits = o
      /\ Past(e).ent = e.ent /\ Past(e).rlop = e.rlop /\ Past(e).rsize = e.rsize
      /\ Past(e).boff = e.boff
      /\ Past(e).checkpoint = e.checkpoint /\ Past(e).bytes_out = e.bytes_out
      /\ Past(e).n_bits = e.n_bits /\ Past(e).extcode = e.extcode
      /\ Past(e).free_ent = e.free_ent
      /\ Past(e).stcode = e.stcode /\ Past(e).htab = e.htab
  BY <1>1, <1>2 DEF EncRecord
<1> QED BY <1>3 DEF o

(* The room in outbuf, in bits: two codes and a group fit behind what a    *)
(* chunk may fill, and into a full buffer.                                 *)
LEMMA Space ==
  ASSUME NEW b \in Bits, NEW n \in InitBits .. b
  PROVE  /\ ChunkLimit \in Nat /\ OBufSiz * ByteBits \in Nat
         /\ n \in Nat \ {0} /\ n * ByteBits \in Nat \ {0}
         /\ ChunkLimit + (n + n + n * ByteBits) <= (OBufSiz + OutSpare) * ByteBits
         /\ n + n + n * ByteBits <= OBufSiz * ByteBits
         /\ OBufSiz * ByteBits <= ChunkLimit
<1> DEFINE B == ByteBits
<1>1. B \in Nat \ {0} /\ OBufSiz \in Nat /\ OutSpare \in Nat /\ OutSlack \in 0 .. OutSpare
  BY Constants
<1>2. b \in InitBits .. Literals
  BY FirstWidth
<1>3. n \in Nat \ {0} /\ b \in Nat /\ n <= b
  BY <1>2, Constants
<1>4. (2 + B) * b <= OutSlack * B /\ (2 + B) * b <= OBufSiz * B
  BY BufferAssumption
<1> HIDE DEF B
<1>5. n + n + n * B <= (2 + B) * b
  <2>1. n + n + n * B = (2 + B) * n
    BY <1>1, <1>3
  <2>2. (2 + B) * n <= (2 + B) * b
    BY <1>1, <1>3, 2 + B \in Nat \ {0}, Multiples
  <2> QED BY <2>1, <2>2
<1> DEFINE x == (2 + B) * b  y == OutSlack * B  z == OBufSiz * B  u == OutSpare * B
           v == n + n + n * B
<1>6. (OBufSiz + OutSpare - OutSlack) * B = z + u - y /\ (OBufSiz + OutSpare) * B = z + u
  BY <1>1
<1>7. x \in Nat /\ y \in Nat /\ z \in Nat /\ u \in Nat /\ y <= u /\ n * B \in Nat \ {0} /\ v \in Nat
  <2>1. OutSlack * B <= OutSpare * B
    BY <1>1, Multiples
  <2> QED BY <1>1, <1>3, <2>1
<1>8. x <= y /\ x <= z /\ v <= x
  BY <1>4, <1>5
<1>9. ChunkLimit = z + u - y
  BY <1>6 DEF ChunkLimit, B
<1> HIDE DEF x, y, z, u, v
<1>10. z + u - y \in Nat /\ z + u - y + v <= z + u /\ v <= z /\ z <= z + u - y
  BY <1>7, <1>8
<1> QED BY <1>3, <1>6, <1>7, <1>9, <1>10 DEF B, z, v

\* CLEAR is written, and f2 is the file with it.
Restarts(e, t, log, f, f2) ==
    LET a == After(maxbits, log, Len(log))
    IN  /\ Synced(maxbits, e, t, log) /\ t # <<>>
        /\ ~e.stcode /\ e.ent < FIRST /\ e.n_bits = a.n
        /\ Placed(f, log, At(a))
        /\ f2 = f \cup {At(a) + k : k \in {j \in 0 .. Literals : Bit(CLEAR, j)}}

LEMMA RestartedKeeps ==
  ASSUME maxbits \in Bits, InitBits < maxbits,
         NEW e, NEW t, NEW log, NEW f, NEW f2, Restarts(e, t, log, f, f2)
  PROVE  LET w == Restarted(e)
         IN  \E log2 : LET a2 == After(maxbits, log2, Len(log2))
                       IN  /\ Synced(maxbits, w, t, log2)
                           /\ Placed(f2, log2, At(a2)) /\ w.n_bits = a2.n
                           /\ w.ent = e.ent /\ w.rlop = e.rlop /\ w.rsize = e.rsize
                           /\ w.stcode /\ w.free_ent < w.extcode
                           /\ w.outbits <= e.outbits + e.n_bits + e.n_bits * ByteBits
<1> DEFINE b == maxbits  w == Restarted(e)  K == Len(log)  a == After(b, log, K)
           r == [code |-> CLEAR, n |-> a.n, from |-> a.from, q |-> a.q, m |-> a.m,
                 end |-> Done(log, K)]
           log2 == Append(log, r)  a2 == After(b, log2, Len(log2))
<1>a. /\ Synced(b, e, t, log) /\ t # <<>> /\ ~e.stcode /\ e.ent < FIRST /\ e.n_bits = a.n
      /\ Placed(f, log, At(a))
      /\ f2 = f \cup {At(a) + k : k \in {j \in 0 .. Literals : Bit(CLEAR, j)}}
  BY DEF Restarts
<1> USE <1>a
<1>0. /\ b \in InitBits .. Literals /\ b \in Nat /\ MAXCODE(b) \in Nat
      /\ MAXCODE(InitBits - 1) = Literals /\ MAXCODE(InitBits) = 2 * Literals
      /\ \A n \in InitBits .. b : MAXCODE(n) \in Nat /\ 2 * Literals <= MAXCODE(n)
  <2>1. b \in InitBits .. b
    BY FirstWidth
  <2> QED BY <2>1, FirstWidth
<1>1. /\ Log(b, t, log) /\ EncType(b, e) /\ WidthOf(b, a)
      /\ Counting(b, e, a) /\ Aligned(e, a) /\ Pending(e, t, log, a)
      /\ log \in Seq(Entry) /\ K \in Nat /\ t \in Seq(Byte) /\ Len(t) \in Nat
  BY SyncedParts
<1>2. /\ a.n \in InitBits .. b /\ a.n \in Nat \ {0} /\ a.n \in 0 .. Literals
      /\ a.m \in Nat \ {0} /\ a.q \in Nat /\ a.from \in Nat
      /\ At(a) \in Nat /\ At(a) + a.n \in Nat /\ At(a) = a.from + a.n * a.q
  BY <1>1, WidthFields
<1>3. e \in EncRecord(b, e.htab) /\ e.ent \in Nat /\ e.outbits \in Nat /\ e.boff \in Int
      /\ e.bytes_out \in Nat /\ e.n_bits = a.n
  BY <1>1, EncFields DEF EncType
<1>4. Literals >= 2
  BY <1>0, Constants
<1>5. log # <<>>
  <2>1. SUFFICES ASSUME log = <<>> PROVE FALSE
    OBVIOUS
  <2>2. a.m = 1
    BY <2>1, AfterFields
  <2>3. Literals + 1 >= MAXCODE(b) /\ b \in InitBits .. b
    BY <2>2, <1>1, <1>0 DEF Counting
  <2> QED BY <2>3, <1>0, <1>4, Constants
<1>6. Done(log, K) \in Nat
  BY <1>1, LogEnds, K \in 0 .. K
<1>7. r \in Entry /\ r.code = CLEAR /\ r.n = a.n /\ r.from = a.from /\ r.q = a.q /\ r.m = a.m
      /\ r.end = Done(log, K) /\ CLEAR \in Nat
  BY <1>2, <1>6, Constants DEF Entry
<1>8. CLEAR < MAXCODE(a.n)
  <2>1. MAXCODE(a.n) \in Nat /\ 2 * Literals <= MAXCODE(a.n)
    BY <1>2, <1>0
  <2> QED BY <2>1, Constants DEF CLEAR
<1>9. At(r) = At(a)
  BY <1>7 DEF At
<1> HIDE DEF r, w
<1>10. Follows(b, t, log, r)
  BY <1>5, <1>7, <1>8 DEF Follows
<1>11. Log(b, t, log2)
  BY <1>1, <1>10, Appended
<1>12. Len(log2) = K + 1 /\ log2[K + 1] = r /\ Done(log2, K + 1) = Done(log, K)
       /\ log2 \in Seq(Entry)
  BY <1>1, <1>7 DEF Done
<1> HIDE DEF log2
<1>13. /\ a2.m = 1 /\ a2.n = InitBits /\ a2.q = 0
       /\ a2.from = a.from + (a.n * ByteBits) * (a.q \div ByteBits + 1)
  <2>1. Len(log2) \in Nat /\ Len(log2) # 0
    BY <1>12, <1>1
  <2> QED BY <2>1, <1>7, <1>12, AfterFields
<1> HIDE DEF a2
<1>14. Placed(f2, log2, At(a) + a.n)
  <2>1. r.n \in 0 .. Literals /\ r.code < MAXCODE(r.n) /\ Placed(f, log, At(r))
    BY <1>2, <1>7, <1>8, <1>9
  <2>2. f2 = f \cup {At(r) + k : k \in {j \in 0 .. Literals : Bit(r.code, j)}}
    BY <1>7, <1>9
  <2> HIDE DEF b, a
  <2>3. Placed(f2, Append(log, r), At(r) + r.n)
    BY <2>1, <2>2, <1>1, <1>7, PlacedNext
  <2> QED BY <2>3, <1>7, <1>9 DEF log2
<1>15. PICK g \in Int : e.outbits - e.boff = a.n * a.q + (a.n * ByteBits) * g
  <2>1. ~ Grown(e, a)
    BY DEF Grown
  <2> QED BY <2>1, <1>1 DEF Aligned
<1> DEFINE n == a.n  q == a.q  from == a.from  o == e.outbits  f0 == e.boff  B == ByteBits
           end == GroupEnd(o + n, f0, n)  bytes == e.bytes_out
<1>16. /\ n \in Nat \ {0} /\ q \in Nat /\ from \in Int /\ o \in Nat /\ f0 \in Int
       /\ bytes * B \in Nat
       /\ o - f0 = n * q + (n * ByteBits) * g /\ bytes * B + o = from + n * q
       /\ a2.from = from + (n * ByteBits) * (q \div ByteBits + 1)
  <2>1. \A x \in Nat : x * B \in Nat
    BY Constants
  <2>2. n \in Nat \ {0} /\ q \in Nat /\ from \in Int /\ o \in Nat /\ f0 \in Int /\ bytes \in Nat
    BY <1>2, <1>3
  <2>3. bytes * B + o = from + n * q
    BY <1>1, <1>2 DEF Aligned
  <2>4. a2.from = from + (n * ByteBits) * (q \div ByteBits + 1)
    BY <1>13
  <2>5. o - f0 = n * q + (n * ByteBits) * g
    BY <1>15
  <2> HIDE DEF n, q, from, o, f0, bytes, B, a2
  <2> QED BY <2>1, <2>2, <2>3, <2>4, <2>5
<1>17. bytes * B + end = a2.from /\ end \in Nat /\ o + n <= end /\ end <= o + n + n * B
  <2> DEFINE X == bytes * B
  <2>1. /\ X \in Int /\ o \in Int /\ X + o = from + n * q
        /\ o - f0 = n * q + (n * ByteBits) * g
        /\ n \in Nat \ {0} /\ q \in Nat /\ from \in Int /\ f0 \in Int
    <3> HIDE DEF n, q, from, o, f0, bytes, B, a2
    <3> QED BY <1>16
  <2> HIDE DEF n, q, from, o, f0, X, a2
  <2>2. X + GroupEnd(o + n, f0, n) = a2.from
    <3>1. Reached(n, q, from, o, f0, X, g)
      BY <2>1 DEF Reached
    <3>2. X + GroupEnd(o + n, f0, n) = from + (n * ByteBits) * (q \div ByteBits + 1)
      BY <3>1, NextGroup
    <3> QED BY <3>2, <1>16
  <2>3. o + n \in Int /\ o + n \in Nat
    BY <1>16
  <2> DEFINE at == o + n
  <2> HIDE DEF at
  <2>4. at \in Nat /\ at \in Int
    BY <2>3 DEF at
  <2>5. /\ GroupEnd(at, f0, n) \in Int
        /\ at <= GroupEnd(at, f0, n) /\ GroupEnd(at, f0, n) <= at + n * ByteBits
    BY <2>4, <1>16, GroupEndNear
  <2>6. GroupEnd(at, f0, n) \in Nat
    BY <2>4, <2>5
  <2> QED BY <2>2, <2>5, <2>6 DEF X, at
<1> DEFINE p == [Past(e) EXCEPT !.outbits = end, !.boff = end]
<1>20. w = [p EXCEPT !.n_bits = InitBits, !.extcode = MAXCODE(InitBits) + 1,
                     !.free_ent = FIRST, !.stcode = TRUE, !.htab = <<>>]
  <2>1. Past(e).outbits = o + n /\ Past(e).boff = f0 /\ Past(e).n_bits = n
    BY <1>2, <1>3, EncPast
  <2> QED BY <2>1 DEF w, Restarted, Padded
<1>21. /\ p \in EncRecord(b, e.htab) /\ p.outbits = end /\ p.boff = end
       /\ p.ent = e.ent /\ p.rlop = e.rlop /\ p.rsize = e.rsize /\ p.bytes_out = bytes
  <2>1. end \in Nat /\ end \in Int /\ e.n_bits \in Nat
    BY <1>17, <1>3, <1>2
  <2>2. /\ Past(e) \in EncRecord(b, e.htab) /\ Past(e).ent = e.ent /\ Past(e).rlop = e.rlop
        /\ Past(e).rsize = e.rsize /\ Past(e).bytes_out = bytes
    BY <2>1, <1>3, EncPast
  <2> DEFINE x == Past(e)
  <2> HIDE DEF end, x
  <2>3. x \in EncRecord(b, e.htab)
    BY <2>2 DEF x
  <2>4. LET z == [x EXCEPT !.outbits = end, !.boff = end]
        IN  /\ z \in EncRecord(b, e.htab) /\ z.outbits = end /\ z.boff = end
            /\ z.ent = x.ent /\ z.rlop = x.rlop /\ z.rsize = x.rsize
            /\ z.bytes_out = x.bytes_out
    BY <2>1, <2>3 DEF EncRecord
  <2> QED BY <2>2, <2>4 DEF x
<1> HIDE DEF p, end, n, q, from, o, f0, bytes, B
<1>22. InitBits \in InitBits .. b /\ MAXCODE(InitBits) + 1 \in Int /\ FIRST \in FIRST .. MAXCODE(b)
       /\ FIRST < MAXCODE(InitBits) + 1
  BY <1>0, <1>4, Constants DEF FIRST
<1>23. /\ w \in EncRecord(b, <<>>) /\ w.outbits = end /\ w.boff = end /\ w.n_bits = InitBits
       /\ w.ent = e.ent /\ w.rlop = e.rlop /\ w.rsize = e.rsize /\ w.bytes_out = bytes
       /\ w.extcode = MAXCODE(InitBits) + 1 /\ w.free_ent = FIRST /\ w.stcode = TRUE
       /\ w.htab = <<>>
  BY <1>20, <1>21, <1>22 DEF EncRecord
<1>24. EncType(b, w)
  BY <1>23 DEF EncType
<1>25. Counting(b, w, a2)
  BY <1>13, <1>22, <1>23, <1>0, Constants DEF Counting, Extcode, FIRST, b
<1>26. Aligned(w, a2)
  <2>1. At(a2) = a2.from /\ a2.from \in Nat
    <3>1. InitBits * 0 = 0 /\ InitBits \in Nat
      BY Constants
    <3>2. a2.from = bytes * B + end
      BY <1>17
    <3>3. a2.from \in Nat
      BY <3>2, <1>16, <1>17
    <3> QED BY <3>1, <3>3, <1>13 DEF At
  <2>2. w.bytes_out * ByteBits + w.outbits = At(a2)
    BY <2>1, <1>17, <1>23 DEF B
  <2>3. w.outbits - w.boff = a2.n * a2.q + (a2.n * ByteBits) * 0
    <3>1. \A u, v \in Int : u * 0 + (u * v) * 0 = 0
      OBVIOUS
    <3>2. a2.n \in Int /\ ByteBits \in Int
      BY <1>13, Constants
    <3>3. w.outbits - w.boff = 0
      BY <1>23, <1>17
    <3> QED BY <3>1, <3>2, <3>3, <1>13
  <2>4. \E x \in Int : w.outbits - w.boff = a2.n * a2.q + (a2.n * ByteBits) * x
    BY <2>3, 0 \in Int
  <2> QED BY <2>2, <2>4, <1>13, <1>23 DEF Aligned
<1>27. Table(w, t, log2, a2)
  BY <1>23 DEF Table
<1>28. Pending(w, t, log2, a2)
  <2>1. e.ent \in Byte /\ Done(log, K) < Len(t)
    <3>1. \A x \in FIRST .. e.free_ent - 1 : ~(x < FIRST)
      BY Constants
    <3> QED BY <3>1, <1>1 DEF Pending
  <2>2. Denotes(t, log, K + 1 - a.m, e.ent, Done(log, K), Len(t))
    BY <1>1 DEF Pending
  <2>3. Len(t) = Done(log, K) + 1 /\ t[Len(t)] = e.ent
    BY <2>1, <2>2 DEF Denotes
  <2>4. Denotes(t, log2, Len(log2) + 1 - a2.m, e.ent, Done(log2, Len(log2)), Len(t))
    BY <2>1, <2>3, <1>12 DEF Denotes
  <2>5. Known(a2.m, e.ent)
    BY <2>1 DEF Known
  <2> QED BY <2>1, <2>4, <2>5, <1>12, <1>23 DEF Pending
<1>29. Placed(f2, log2, At(a2))
  <2>1. At(a2) = bytes * B + end /\ At(a) + a.n = bytes * B + (o + n)
    <3>1. At(a2) = bytes * B + end
      BY <1>23, <1>26 DEF Aligned, B
    <3>2. At(a) = bytes * B + o
      BY <1>1 DEF Aligned, B, bytes, o
    <3>3. \A x, u, v \in Int : x + u + v = x + (u + v)
      OBVIOUS
    <3>4. bytes * B \in Int /\ o \in Int /\ n \in Int
      BY <1>16
    <3> QED BY <3>1, <3>2, <3>3, <3>4 DEF n
  <2> DEFINE X == bytes * B
  <2>2. X \in Nat
    BY <1>16
  <2> HIDE DEF X
  <2>3. X + (o + n) \in Nat /\ X + end \in Nat /\ X + (o + n) <= X + end
    BY <2>2, <1>16, <1>17
  <2>4. At(a) + a.n \in Nat /\ At(a2) \in Nat /\ At(a) + a.n <= At(a2)
    BY <2>1, <2>3 DEF X
  <2> QED BY <2>4, <1>14, <1>12, PlacedBefore
<1>30. Synced(b, w, t, log2)
  BY <1>11, <1>24, <1>25, <1>26, <1>27, <1>28 DEF Synced, a2
<1>31. w.outbits <= e.outbits + e.n_bits + e.n_bits * ByteBits
  BY <1>17, <1>23, <1>3 DEF o, n, B
<1>32. /\ Synced(b, w, t, log2)
       /\ Placed(f2, log2, At(After(b, log2, Len(log2)))) /\ w.n_bits = After(b, log2, Len(log2)).n
       /\ w.ent = e.ent /\ w.rlop = e.rlop /\ w.rsize = e.rsize
       /\ w.stcode /\ w.free_ent < w.extcode
       /\ w.outbits <= e.outbits + e.n_bits + e.n_bits * ByteBits
  BY <1>13, <1>22, <1>23, <1>29, <1>30, <1>31 DEF a2
<1> HIDE DEF b
<1> QED BY <1>32, Zenon DEF w, b


LEMMA SyncedSame ==
  ASSUME NEW b \in Bits, NEW e, NEW t, NEW log, Synced(b, e, t, log), NEW w, EncType(b, w),
         w.ent = e.ent, w.n_bits = e.n_bits, w.extcode = e.extcode, w.free_ent = e.free_ent,
         w.stcode = e.stcode, w.htab = e.htab, Aligned(w, After(b, log, Len(log)))
  PROVE  Synced(b, w, t, log)
<1> DEFINE a == After(b, log, Len(log))
<1>1. /\ Log(b, t, log) /\ EncType(b, e)
      /\ Counting(b, e, a) /\ Aligned(e, a) /\ Table(e, t, log, a) /\ Pending(e, t, log, a)
  BY SyncedParts
<1> HIDE DEF a
<1>2. Counting(b, w, a)
  BY <1>1 DEF Counting
<1>3. Table(w, t, log, a)
  BY <1>1 DEF Table
<1>4. Pending(w, t, log, a)
  BY <1>1 DEF Pending
<1> QED BY <1>1, <1>2, <1>3, <1>4 DEF Synced, a

LEMMA FlushedKeeps ==
  ASSUME NEW b \in Bits, NEW e, NEW t, NEW log, Synced(b, e, t, log),
         e.n_bits = After(b, log, Len(log)).n,
         e.outbits <= ChunkLimit + OBufSiz * ByteBits
  PROVE  LET w == Flushed(e)
         IN  /\ Synced(b, w, t, log) /\ w.outbits <= ChunkLimit
             /\ w.ent = e.ent /\ w.rlop = e.rlop /\ w.rsize = e.rsize /\ w.n_bits = e.n_bits
             /\ w.stcode = e.stcode /\ w.free_ent = e.free_ent /\ w.extcode = e.extcode
<1> DEFINE w == Flushed(e)  full == OBufSiz * ByteBits  a == After(b, log, Len(log))
           n == e.n_bits  N == n * ByteBits
<1>1. EncType(b, e) /\ Aligned(e, a) /\ WidthOf(b, a)
  BY SyncedParts
<1>2. /\ e \in EncRecord(b, e.htab) /\ e.outbits \in Nat /\ e.boff \in Int /\ e.bytes_out \in Nat
      /\ n \in InitBits .. b
  BY <1>1, EncFields DEF EncType
<1>3. /\ ChunkLimit \in Nat /\ full \in Nat /\ n \in Nat \ {0} /\ N \in Nat \ {0}
      /\ full <= ChunkLimit /\ e.outbits <= ChunkLimit + full
  <2> HIDE DEF n
  <2> QED BY <1>2, Space DEF n
<1>4. CASE e.outbits < full
  <2>1. w = e
    BY <1>4 DEF Flushed
  <2>2. e.outbits <= ChunkLimit
    BY <1>2, <1>3, <1>4
  <2> QED BY <2>1, <2>2
<1>5. CASE ~(e.outbits < full)
  <2> DEFINE o == e.outbits - full  u == full - e.boff  f == -(u % N)  h == u \div N
             bytes == e.bytes_out + OBufSiz
  <2>1. o \in Nat /\ o <= ChunkLimit
    <3> DEFINE x == e.outbits
    <3>1. x \in Int /\ full \in Nat /\ x <= ChunkLimit + full /\ ~(x < full) /\ ChunkLimit \in Int
      BY <1>2, <1>3, <1>5
    <3> HIDE DEF full, x
    <3>2. x - full \in Nat /\ x - full <= ChunkLimit
      BY <3>1
    <3> QED BY <3>2 DEF x
  <2>2. u = N * h + (u % N) /\ u % N \in Int /\ h \in Int
    <3>1. u \in Int
      <4> HIDE DEF full
      <4> QED BY <1>2, <1>3
    <3>2. N \in Nat \ {0}
      BY <1>3
    <3> HIDE DEF u, N
    <3>3. u = N * (u \div N) + (u % N) /\ u % N \in 0 .. N - 1 /\ u \div N \in Int
      BY <3>1, <3>2, Divided
    <3> QED BY <3>2, <3>3
  <2>3. f \in Int
    <3> HIDE DEF u, N
    <3> QED BY <2>2
  <2>4. w = [e EXCEPT !.outbits = o, !.bytes_out = bytes, !.boff = f]
    BY <1>5 DEF Flushed
  <2>5. bytes \in Nat /\ bytes * ByteBits + o = e.bytes_out * ByteBits + e.outbits
    <3> DEFINE x == e.bytes_out * ByteBits
    <3>1. bytes \in Nat /\ x \in Int /\ bytes * ByteBits = x + full
      <4>1. \A y, z, k \in Nat : y + z \in Nat /\ y * k \in Int /\ (y + z) * k = y * k + z * k
        OBVIOUS
      <4>2. e.bytes_out \in Nat /\ OBufSiz \in Nat /\ ByteBits \in Nat
        BY <1>2, Constants
      <4> QED BY <4>1, <4>2, Zenon
    <3> HIDE DEF x, full, bytes
    <3>2. x + full + (e.outbits - full) = x + e.outbits
      BY <3>1, <1>2, <1>3
    <3> QED BY <3>1, <3>2 DEF x
  <2>6. o - f = e.outbits - e.boff - N * h
    <3> DEFINE y == u % N  z == N * h
    <3>1. z \in Int /\ y \in Int /\ full - e.boff = z + y
      <4> HIDE DEF full
      <4> QED BY <2>2, <1>3
    <3> DEFINE eo == e.outbits  eb == e.boff
    <3>2. eo \in Int /\ eb \in Int /\ full \in Int /\ full - eb = z + y
      BY <1>2, <1>3, <3>1
    <3> HIDE DEF y, z, full, eo, eb
    <3>3. (eo - full) - (-y) = eo - eb - z
      BY <3>1, <3>2
    <3> QED BY <3>3 DEF y, z, eo, eb
  <2> HIDE DEF w, o, f, bytes, h, u
  <2>7. /\ w \in EncRecord(b, e.htab) /\ w.outbits = o /\ w.boff = f /\ w.bytes_out = bytes
        /\ w.ent = e.ent /\ w.rlop = e.rlop /\ w.rsize = e.rsize /\ w.n_bits = e.n_bits
        /\ w.stcode = e.stcode /\ w.free_ent = e.free_ent /\ w.extcode = e.extcode
        /\ w.htab = e.htab
    <3> HIDE DEF n, N, full
    <3> QED BY <1>2, <2>1, <2>3, <2>4, <2>5 DEF EncRecord
  <2>8. EncType(b, w)
    BY <1>1, <2>7 DEF EncType
  <2>9. Aligned(w, a)
    <3>1. w.bytes_out * ByteBits + w.outbits = At(a)
      BY <1>1, <2>5, <2>7 DEF Aligned
    <3>2. ASSUME NEW X \in Int, NEW g \in Int, e.outbits - e.boff = X + N * g
          PROVE  w.outbits - w.boff = X + N * (g - h) /\ g - h \in Int
      <4> HIDE DEF N
      <4>1. N * g - N * h = N * (g - h)
        BY <1>3, <2>2, Multiples
      <4> DEFINE y == N * g  z == N * h
      <4>2. y \in Int /\ z \in Int
        BY <1>3, <2>2
      <4>3. w.outbits - w.boff = (X + y) - z
        BY <2>6, <2>7, <3>2
      <4> HIDE DEF y, z
      <4>4. (X + y) - z = X + (y - z)
        BY <4>2
      <4> QED BY <4>1, <4>3, <4>4, <2>2 DEF y, z
    <3>3. e.n_bits = a.n /\ \E g \in Int : e.outbits - e.boff = a.n * a.q + (a.n * ByteBits) * g
      <4>1. a.n \in Nat
        BY <1>1, WidthFields
      <4>2. ~ Grown(e, a)
        BY <4>1 DEF Grown
      <4> QED BY <4>2, <1>1 DEF Aligned
    <3>4. Aligned(w, a)
      <4>1. PICK g \in Int : e.outbits - e.boff = a.n * a.q + N * g
        BY <3>3
      <4>2. a.n * a.q \in Int
        <5>1. a.n \in Nat /\ a.q \in Nat
          BY <1>1, WidthFields
        <5>2. \A x, y \in Nat : x * y \in Int
          OBVIOUS
        <5> QED BY <5>1, <5>2
      <4> DEFINE X == a.n * a.q
      <4> HIDE DEF X, N
      <4>3. w.outbits - w.boff = X + N * (g - h) /\ g - h \in Int
        BY <3>2, <4>1, <4>2 DEF X
      <4>4. \E x \in Int : w.outbits - w.boff = a.n * a.q + (a.n * ByteBits) * x
        BY <4>3, <3>3 DEF X, N
      <4> QED BY <4>4, <3>1, <3>3, <2>7 DEF Aligned
    <3> QED BY <3>4
  <2>10. Synced(b, w, t, log)
    BY <2>7, <2>8, <2>9, SyncedSame
  <2> QED BY <2>1, <2>7, <2>10 DEF w
<1> QED BY <1>4, <1>5

LEMMA ChunkedKeeps ==
  ASSUME NEW b \in Bits, NEW e, NEW t, NEW log, Synced(b, e, t, log), e.outbits <= ChunkLimit,
         e.rlop <= Len(t), Len(t) <= e.rsize, e.stcode => e.free_ent < e.extcode
  PROVE  LET w == Chunked(e) IN Synced(b, w, t, log) /\ InChunkBounds(w, t)
<1> DEFINE w == Chunked(e)  i == Chunk(e)  a == After(b, log, Len(log))  n == e.n_bits
           rlop == e.rlop + i
<1>1. EncType(b, e) /\ Aligned(e, a) /\ Len(t) \in Nat
  BY SyncedParts
<1>2. /\ e \in EncRecord(b, e.htab) /\ e.outbits \in Nat /\ e.rlop \in Int /\ e.rsize \in Nat
      /\ e.checkpoint \in Int /\ e.extcode \in Int /\ e.free_ent \in FIRST .. MAXCODE(b)
      /\ n \in InitBits .. b /\ e.ent \in Nat /\ e.free_ent \in Int
  <2>1. \A x \in FIRST .. MAXCODE(b) : x \in Int
    OBVIOUS
  <2> QED BY <1>1, EncFields, <2>1 DEF EncType
<1>3. ChunkLimit \in Nat /\ n \in Nat \ {0}
  BY <1>2, Space
<1> DEFINE R == (ChunkLimit - e.outbits) \div n
<1>4. R \in Int /\ n * R <= ChunkLimit - e.outbits
  <2> DEFINE x == ChunkLimit - e.outbits
  <2>1. x \in Int
    BY <1>2, <1>3
  <2> HIDE DEF x, n
  <2>2. x = n * (x \div n) + (x % n) /\ x % n \in 0 .. n - 1 /\ x \div n \in Int
    BY <2>1, <1>3, Divided
  <2> DEFINE y == n * (x \div n)
  <2>3. y \in Int
    BY <2>2, <1>3
  <2> HIDE DEF y
  <2>4. y <= x
    BY <2>1, <2>2, <2>3, <1>3 DEF y
  <2> QED BY <2>2, <2>4 DEF x, y
<1>5. i \in Int /\ i <= e.rsize - e.rlop /\ i <= e.extcode - e.free_ent /\ i <= R
  <2>1. \A x, y \in Int : Lower(x, y) \in Int /\ Lower(x, y) <= x /\ Lower(x, y) <= y
    BY DEF Lower
  <2> DEFINE x1 == e.rsize - e.rlop  x2 == e.extcode - e.free_ent
             x4 == IF e.stcode THEN e.rsize ELSE e.checkpoint - e.rlop
  <2>2. x1 \in Int /\ x2 \in Int /\ x4 \in Int
    BY <1>2
  <2>3. i = Lower(Lower(Lower(x1, x2), R), x4)
    BY DEF Chunk, Room, ChunkLimit
  <2> HIDE DEF x1, x2, x4, R, i
  <2>4. Lower(x1, x2) \in Int /\ Lower(x1, x2) <= x1 /\ Lower(x1, x2) <= x2
    BY <2>1, <2>2
  <2>5. Lower(Lower(x1, x2), R) \in Int /\ Lower(Lower(x1, x2), R) <= Lower(x1, x2)
        /\ Lower(Lower(x1, x2), R) <= R
    BY <2>1, <2>4, <1>4
  <2>6. i \in Int /\ i <= Lower(Lower(x1, x2), R)
    BY <2>1, <2>2, <2>3, <2>5
  <2>7. i <= x1 /\ i <= x2 /\ i <= R
    BY <2>2, <2>4, <2>5, <2>6, <1>4
  <2> QED BY <2>6, <2>7 DEF x1, x2
<1>6. w = [e EXCEPT !.rlop = rlop] /\ rlop \in Int
  <2>1. w = [e EXCEPT !.rlop = rlop]
    BY DEF Chunked
  <2> HIDE DEF i
  <2> QED BY <2>1, <1>2, <1>5
<1> HIDE DEF w, rlop
<1>7. /\ w \in EncRecord(b, e.htab) /\ w.rlop = rlop
      /\ w.outbits = e.outbits /\ w.boff = e.boff /\ w.bytes_out = e.bytes_out
      /\ w.ent = e.ent /\ w.rsize = e.rsize /\ w.n_bits = e.n_bits
      /\ w.stcode = e.stcode /\ w.free_ent = e.free_ent /\ w.extcode = e.extcode
      /\ w.htab = e.htab
  BY <1>2, <1>6 DEF EncRecord
<1>8. EncType(b, w)
  BY <1>1, <1>7 DEF EncType
<1>9. Aligned(w, a)
  BY <1>1, <1>7 DEF Aligned, Grown
<1>10. Synced(b, w, t, log)
  BY <1>7, <1>8, <1>9, SyncedSame
<1> DEFINE left == rlop - Len(t)
<1>11. left \in Int /\ left <= i /\ rlop <= e.rsize
  <2> HIDE DEF i
  <2> QED BY <1>1, <1>2, <1>5, <1>6 DEF rlop
<1>12. e.free_ent + left <= e.extcode
  <2> HIDE DEF i, left
  <2> QED BY <1>2, <1>5, <1>11
<1>13. e.outbits + n * left <= ChunkLimit
  <2> HIDE DEF i, left, n, R
  <2>1. left <= R
    BY <1>4, <1>5, <1>11
  <2>2. n * left <= n * R
    BY <2>1, <1>3, <1>4, <1>11, Multiples
  <2> DEFINE x == n * left  y == n * R
  <2>3. x \in Int /\ y \in Int
    BY <1>3, <1>4, <1>11
  <2>4. y <= ChunkLimit - e.outbits /\ x <= y
    BY <1>4, <2>2
  <2> HIDE DEF x, y
  <2>5. e.outbits + x <= ChunkLimit
    BY <2>3, <2>4, <1>2, <1>3
  <2> QED BY <2>5 DEF x
<1>14. w.outbits <= ChunkLimit + (IF w.ent < FIRST THEN w.n_bits ELSE 0)
  BY <1>2, <1>3, <1>7
<1> HIDE DEF i
<1>15. InChunkBounds(w, t)
  BY <1>7, <1>11, <1>12, <1>13, <1>14 DEF InChunkBounds
<1> QED BY <1>10, <1>15 DEF w


LEMMA NextCheckKeeps ==
  ASSUME NEW b \in Bits, NEW e, NEW t, NEW log, Synced(b, e, t, log)
  PROVE  LET w == NextCheck(e)
         IN  /\ Synced(b, w, t, log)
             /\ w.ent = e.ent /\ w.rlop = e.rlop /\ w.rsize = e.rsize /\ w.n_bits = e.n_bits
             /\ w.outbits = e.outbits /\ w.bytes_out = e.bytes_out
             /\ w.stcode = e.stcode /\ w.free_ent = e.free_ent /\ w.extcode = e.extcode
<1> DEFINE w == NextCheck(e)  a == After(b, log, Len(log))  x == e.rlop + CheckGap
<1>1. EncType(b, e) /\ Aligned(e, a)
  BY SyncedParts
<1>2. e \in EncRecord(b, e.htab) /\ x \in Int
  <2>1. e.rlop \in Int
    BY <1>1, EncFields
  <2>2. x \in Int
    BY <2>1, Constants
  <2>3. e \in EncRecord(b, e.htab)
    BY <1>1 DEF EncType
  <2> QED BY <2>2, <2>3
<1>3. w = [e EXCEPT !.checkpoint = x]
  BY DEF NextCheck
<1> HIDE DEF w, x
<1>4. /\ w \in EncRecord(b, e.htab) /\ w.rlop = e.rlop
      /\ w.outbits = e.outbits /\ w.boff = e.boff /\ w.bytes_out = e.bytes_out
      /\ w.ent = e.ent /\ w.rsize = e.rsize /\ w.n_bits = e.n_bits
      /\ w.stcode = e.stcode /\ w.free_ent = e.free_ent /\ w.extcode = e.extcode
      /\ w.htab = e.htab
  BY <1>2, <1>3 DEF EncRecord
<1>5. EncType(b, w)
  BY <1>1, <1>4 DEF EncType
<1>6. Aligned(w, a)
  BY <1>1, <1>4 DEF Aligned, Grown
<1>7. Synced(b, w, t, log)
  BY <1>4, <1>5, <1>6, SyncedSame
<1> QED BY <1>4, <1>7 DEF w

(***************************************************************************)
(* The actions of compress.                                                *)
(***************************************************************************)
\* With -C and with -b 9 the two programs disagree; the theorems are about
\* the other modes.
Modes == BlockModes = {TRUE} /\ InitBits \notin Bits

LEMMA Wider ==
  ASSUME Modes, Static
  PROVE  maxbits \in Bits /\ InitBits < maxbits /\ block_mode = TRUE /\ Literals >= 2
<1>1. maxbits \in Bits /\ maxbits # InitBits /\ block_mode = TRUE
  BY DEF Modes, Static
<1>2. maxbits \in InitBits .. Literals
  BY <1>1, FirstWidth
<1> QED BY <1>1, <1>2, Constants

\* Nothing has been decompressed yet.
LEMMA StillWriting ==
  ASSUME NEW log, UNCHANGED <<maxbits, block_mode, dec, out>>, dec = DecInit, out = <<>>,
         Synced(maxbits, enc, text, log)', Placed(file, log, At(After(maxbits, log, Len(log))))',
         \/ pc' = "read" /\ (Between(enc, text) /\ Len(text) = enc.rsize)'
         \/ pc' = "top" /\ (Between(enc, text) /\ text # <<>>)'
         \/ pc' = "chars" /\ (InChunkBounds(enc, text) /\ text # <<>>)'
  PROVE  Compressing' /\ Writing(log)'
<1>1. (dec = DecInit /\ out = <<>>)'
  BY DEF DecInit
<1>2. Compressing'
  BY DEF Compressing
<1>3. /\ pc' = "read" => (Between(enc, text) /\ Len(text) = enc.rsize)'
      /\ pc' = "top" => (Between(enc, text) /\ text # <<>>)'
      /\ pc' = "chars" => (InChunkBounds(enc, text) /\ text # <<>>)'
  OBVIOUS
<1> QED BY <1>1, <1>2, <1>3 DEF Writing

LEMMA StartChunkKeeps ==
  ASSUME Modes, Static, NEW log, Writing(log), StartChunk
  PROVE  \E log2 : Compressing' /\ Writing(log2)'
<1> DEFINE w == Widened(enc)  a == After(maxbits, log, Len(log))
<1>0. maxbits \in Bits /\ InitBits < maxbits
  BY Wider
<1>1. /\ pc = "top" /\ pc' = "chars"
      /\ \/ /\ enc' = Chunked(Flushed(IF CheckDue(w) THEN NextCheck(w) ELSE w))
            /\ file' = file
         \/ /\ CheckDue(w)
            /\ enc' = Chunked(Flushed(Restarted(NextCheck(w))))
            /\ file' = Written(w, CLEAR)
      /\ UNCHANGED <<maxbits, block_mode, text, dec, out>>
  BY DEF StartChunk
<1>2. /\ Synced(maxbits, enc, text, log) /\ Placed(file, log, At(a))
      /\ enc.rlop <= Len(text) /\ Len(text) <= enc.rsize
      /\ enc.outbits <= ChunkLimit + enc.n_bits /\ text # <<>>
      /\ dec = DecInit /\ out = <<>>
  BY <1>1 DEF Writing, Between
<1>3. /\ Synced(maxbits, w, text, log) /\ w.n_bits = a.n /\ enc.n_bits <= w.n_bits
      /\ w.ent = enc.ent /\ w.rlop = enc.rlop /\ w.rsize = enc.rsize
      /\ w.outbits = enc.outbits /\ w.bytes_out = enc.bytes_out
      /\ w.stcode => w.free_ent < w.extcode
      /\ ~w.stcode => w.n_bits = maxbits
  BY <1>0, <1>2, WidenedKeeps
<1> HIDE DEF w, a
<1>4. EncType(maxbits, w) /\ Aligned(w, a)
  BY <1>0, <1>3, SyncedParts DEF a
<1>5. /\ w.outbits \in Nat /\ w.n_bits \in InitBits .. maxbits /\ w.n_bits \in Nat \ {0}
      /\ ChunkLimit \in Nat /\ w.n_bits * ByteBits \in Nat
      /\ w.n_bits + w.n_bits + w.n_bits * ByteBits <= OBufSiz * ByteBits
      /\ OBufSiz * ByteBits \in Nat
      /\ enc.n_bits \in Int
  <2>1. EncType(maxbits, enc)
    BY <1>0, <1>2, SyncedParts
  <2>2. w.outbits \in Nat /\ w.n_bits \in InitBits .. maxbits /\ enc.n_bits \in InitBits .. maxbits
    BY <1>4, <2>1, EncFields
  <2>3. enc.n_bits \in Int
    BY <2>2
  <2> QED BY <2>2, <2>3, <1>0, Space
<1>6. LET n == w.n_bits
      IN  /\ w.outbits <= ChunkLimit + OBufSiz * ByteBits
          /\ w.outbits + n + n * ByteBits <= ChunkLimit + OBufSiz * ByteBits
  <2> DEFINE o == w.outbits  m == enc.n_bits  n == w.n_bits  N == w.n_bits * ByteBits
             full == OBufSiz * ByteBits
  <2>1. /\ o \in Int /\ m \in Int /\ n \in Nat /\ N \in Nat /\ m <= n /\ full \in Int
        /\ o <= ChunkLimit + m /\ ChunkLimit \in Int /\ n + n + N <= full
    BY <1>2, <1>3, <1>5
  <2> HIDE DEF o, m, n, N, full
  <2>2. o <= ChunkLimit + full /\ o + n + N <= ChunkLimit + full
    BY <2>1
  <2> QED BY <2>2 DEF o, n, N, full
<1>7. CASE /\ enc' = Chunked(Flushed(IF CheckDue(w) THEN NextCheck(w) ELSE w))
           /\ file' = file
  <2> DEFINE v == IF CheckDue(w) THEN NextCheck(w) ELSE w
             u == Flushed(v)
  <2>1. /\ Synced(maxbits, v, text, log)
        /\ v.ent = w.ent /\ v.rlop = w.rlop /\ v.rsize = w.rsize /\ v.n_bits = w.n_bits
        /\ v.outbits = w.outbits
        /\ v.stcode = w.stcode /\ v.free_ent = w.free_ent /\ v.extcode = w.extcode
    BY <1>0, <1>3, NextCheckKeeps
  <2> HIDE DEF v
  <2>2. v.outbits <= ChunkLimit + OBufSiz * ByteBits
    BY <2>1, <1>6
  <2>3. /\ Synced(maxbits, u, text, log) /\ u.outbits <= ChunkLimit
        /\ u.rlop = v.rlop /\ u.rsize = v.rsize
        /\ u.stcode = v.stcode /\ u.free_ent = v.free_ent /\ u.extcode = v.extcode
    BY <1>0, <1>3, <2>1, <2>2, FlushedKeeps DEF a
  <2> HIDE DEF u
  <2>4. Synced(maxbits, Chunked(u), text, log) /\ InChunkBounds(Chunked(u), text)
    BY <1>0, <1>2, <1>3, <2>1, <2>3, ChunkedKeeps
  <2>5. Synced(maxbits, enc, text, log)' /\ InChunkBounds(enc, text)' /\ Placed(file, log, At(a))'
    BY <2>4, <1>1, <1>2, <1>7 DEF u, v, a
  <2>6. Compressing' /\ Writing(log)'
    BY <2>5, <1>1, <1>2, StillWriting DEF a
  <2> QED BY <2>6
<1>8. CASE /\ CheckDue(w)
           /\ enc' = Chunked(Flushed(Restarted(NextCheck(w))))
           /\ file' = Written(w, CLEAR)
  <2> DEFINE v == NextCheck(w)  r == Restarted(v)  u == Flushed(r)
  <2>1. /\ Synced(maxbits, v, text, log)
        /\ v.ent = w.ent /\ v.rlop = w.rlop /\ v.rsize = w.rsize /\ v.n_bits = w.n_bits
        /\ v.outbits = w.outbits /\ v.bytes_out = w.bytes_out
        /\ v.stcode = w.stcode /\ v.free_ent = w.free_ent /\ v.extcode = w.extcode
    BY <1>0, <1>3, NextCheckKeeps
  <2> HIDE DEF v
  <2>2. ~v.stcode /\ v.ent < FIRST /\ v.n_bits = After(maxbits, log, Len(log)).n
    BY <1>3, <1>8, <2>1 DEF CheckDue, a
  <2>3. file' = file \cup {At(After(maxbits, log, Len(log))) + k :
                              k \in {j \in 0 .. Literals : Bit(CLEAR, j)}}
    BY <1>4, <1>8 DEF Written, Aligned, a
  <2>4. Placed(file, log, At(After(maxbits, log, Len(log))))
    BY <1>2 DEF a
  <2> DEFINE f2 == file'
  <2> HIDE DEF f2, r
  <2>5. f2 = file \cup {At(After(maxbits, log, Len(log))) + k :
                              k \in {j \in 0 .. Literals : Bit(CLEAR, j)}}
    BY <2>3 DEF f2
  <2>6. PICK log2 : LET a2 == After(maxbits, log2, Len(log2))
                    IN  /\ Synced(maxbits, r, text, log2)
                        /\ Placed(f2, log2, At(a2)) /\ r.n_bits = a2.n
                        /\ r.ent = v.ent /\ r.rlop = v.rlop /\ r.rsize = v.rsize
                        /\ r.stcode /\ r.free_ent < r.extcode
                        /\ r.outbits <= v.outbits + v.n_bits + v.n_bits * ByteBits
    <3>1. Restarts(v, text, log, file, f2)
      BY <1>2, <2>1, <2>2, <2>4, <2>5 DEF Restarts
    <3> QED BY <3>1, <1>0, RestartedKeeps DEF r
  <2> DEFINE a2 == After(maxbits, log2, Len(log2))
  <2> HIDE DEF a2
  <2>7. r.outbits <= ChunkLimit + OBufSiz * ByteBits
    <3> DEFINE x == r.outbits  y == w.outbits + w.n_bits + w.n_bits * ByteBits
               z == ChunkLimit + OBufSiz * ByteBits
    <3>1. x \in Int
      BY <1>0, <2>6, SyncedParts, EncFields
    <3>2. y \in Int /\ z \in Int
      BY <1>5
    <3>3. x <= y /\ y <= z
      BY <2>1, <2>6, <1>6
    <3> HIDE DEF x, y, z
    <3>4. x <= z
      BY <3>1, <3>2, <3>3
    <3> QED BY <3>4 DEF x, z
  <2>8. Synced(maxbits, r, text, log2) /\ r.n_bits = After(maxbits, log2, Len(log2)).n
        /\ r.stcode /\ r.free_ent < r.extcode /\ r.rlop = w.rlop /\ r.rsize = w.rsize
    BY <2>1, <2>6
  <2>9. /\ Synced(maxbits, u, text, log2) /\ u.outbits <= ChunkLimit
        /\ u.rlop = r.rlop /\ u.rsize = r.rsize
        /\ u.stcode = r.stcode /\ u.free_ent = r.free_ent /\ u.extcode = r.extcode
    BY <1>0, <2>7, <2>8, FlushedKeeps
  <2> HIDE DEF u
  <2>10. Synced(maxbits, Chunked(u), text, log2) /\ InChunkBounds(Chunked(u), text)
    BY <1>0, <1>2, <1>3, <2>8, <2>9, ChunkedKeeps
  <2>11. Placed(f2, log2, At(a2))
    BY <2>6 DEF a2
  <2>12. Synced(maxbits, enc, text, log2)' /\ InChunkBounds(enc, text)' /\ Placed(file, log2, At(a2))'
    BY <2>10, <2>11, <1>1, <1>8 DEF u, v, r, f2, a2
  <2>13. Compressing' /\ Writing(log2)'
    BY <2>12, <1>1, <1>2, StillWriting DEF a2
  <2> QED BY <2>13
<1> QED BY <1>1, <1>7, <1>8


(* While a chunk goes on there is a code for the next string, and room for *)
(* it in outbuf.                                                           *)
Going(e, t) == Len(t) < e.rlop \/ (e.ent >= FIRST /\ Len(t) < e.rsize)

LEMMA Advancing ==
  ASSUME NEW b \in Bits, NEW e, NEW t, EncType(b, e), Len(t) \in Nat,
         InChunkBounds(e, t), Going(e, t)
  PROVE  /\ Len(t) < e.rsize /\ e.rlop <= e.rsize
         /\ e.stcode => e.free_ent < e.extcode
         /\ e.outbits <= ChunkLimit
         /\ \A f \in Int : e.stcode /\ f = e.free_ent /\ e.rlop - (Len(t) + 1) >= 0 =>
               f + 1 + (e.rlop - (Len(t) + 1)) <= e.extcode
         /\ e.rlop - (Len(t) + 1) >= 0 =>
               e.outbits + e.n_bits + e.n_bits * (e.rlop - (Len(t) + 1)) <= ChunkLimit
<1> DEFINE L == Len(t)  R == e.rlop  S == e.rsize  F == e.free_ent  X == e.extcode
           o == e.outbits  n == e.n_bits  E == e.ent  left == R - L
<1>1. /\ L \in Nat /\ R \in Int /\ S \in Nat /\ F \in Int /\ X \in Int /\ o \in Nat /\ n \in Nat \ {0}
      /\ E \in Nat /\ ChunkLimit \in Nat /\ FIRST \in Nat
  <2>1. \A x \in FIRST .. MAXCODE(b) : x \in Int
    OBVIOUS
  <2>2. n \in InitBits .. b
    BY EncFields
  <2>3. ChunkLimit \in Nat /\ n \in Nat \ {0}
    <3> HIDE DEF n
    <3> QED BY <2>2, Space
  <2> QED BY <2>1, <2>3, EncFields, Constants
<1>2. /\ L <= S /\ R <= S
      /\ e.stcode /\ left >= 0 => F + left <= X
      /\ e.stcode => F < X \/ E < FIRST
      /\ left >= 0 => o + n * left <= ChunkLimit
      /\ o <= ChunkLimit + (IF E < FIRST THEN n ELSE 0)
      /\ L < R \/ (E >= FIRST /\ L < S)
  BY DEF InChunkBounds, Going
<1>a. left \in Int /\ left = R - L
  BY <1>1
<1> HIDE DEF L, R, S, F, X, o, n, E, left
<1>3. L < S
  BY <1>1, <1>2
<1>4. e.stcode => F < X
  BY <1>1, <1>2, <1>a
<1>5. left >= 1 => o + n + n * (left - 1) <= ChunkLimit
  <2>1. n * left = n + n * (left - 1) /\ n * left \in Int /\ n * (left - 1) \in Int
    BY <1>1, <1>a
  <2> DEFINE y == n * left  z == n * (left - 1)
  <2>2. y = n + z /\ y \in Int /\ z \in Int
    BY <2>1
  <2>3. left >= 0 => o + y <= ChunkLimit
    BY <1>2
  <2> HIDE DEF y, z
  <2>4. left >= 1 => o + n + z <= ChunkLimit
    BY <2>2, <2>3, <1>1, <1>a
  <2> QED BY <2>4 DEF z
<1>6. o <= ChunkLimit
  <2>1. CASE E < FIRST
    <3>1. left >= 1
      BY <2>1, <1>1, <1>2, <1>a
    <3>2. n * (left - 1) >= 0 /\ n * (left - 1) \in Int
      <4>1. left - 1 \in Nat
        BY <3>1, <1>a
      <4>2. \A y \in Nat : n * y \in Nat
        BY <1>1
      <4>3. n * (left - 1) \in Nat
        BY <4>1, <4>2
      <4> QED BY <4>3
    <3> DEFINE z == n * (left - 1)
    <3>3. o + n + z <= ChunkLimit /\ z \in Int /\ z >= 0
      BY <3>1, <3>2, <1>5
    <3> HIDE DEF z
    <3> QED BY <3>3, <1>1
  <2>2. CASE ~(E < FIRST)
    BY <2>2, <1>1, <1>2
  <2> QED BY <2>1, <2>2
<1>7. R - (L + 1) = left - 1
  BY <1>1, <1>a
<1>8. ASSUME NEW f \in Int, e.stcode, f = F, left - 1 >= 0 PROVE f + 1 + (left - 1) <= X
  BY <1>8, <1>1, <1>2, <1>a
<1>9. left - 1 >= 0 => o + n + n * (left - 1) <= ChunkLimit
  BY <1>5, <1>a
<1>10. /\ L < S /\ R <= S
       /\ e.stcode => F < X
       /\ o <= ChunkLimit
       /\ \A f \in Int : e.stcode /\ f = F /\ R - (L + 1) >= 0 => f + 1 + (R - (L + 1)) <= X
       /\ R - (L + 1) >= 0 => o + n + n * (R - (L + 1)) <= ChunkLimit
  BY <1>2, <1>3, <1>4, <1>6, <1>7, <1>8, <1>9
<1> QED BY <1>10 DEF L, R, S, F, X, o, n

(* The entry that made a code of the table.                                *)
LEMMA Made ==
  ASSUME NEW b \in Bits, NEW e, NEW t, NEW log, Synced(b, e, t, log), t # <<>>,
         NEW x \in FIRST .. e.free_ent - 1
  PROVE  LET K == Len(log)
             a == After(b, log, K)
             d == K + 1 - a.m
             o == Origin(d, x)
         IN  /\ d \in 0 .. K /\ Known(a.m, x) /\ x \notin Byte /\ o \in d + 1 .. K
             /\ log[o].m = o - d /\ log[o].code # CLEAR
             /\ log[o].end \in Nat /\ log[o].end <= Done(log, K) /\ log[o].end < Len(t)
<1> DEFINE K == Len(log)  a == After(b, log, K)  d == K + 1 - a.m  o == Origin(d, x)
<1>1. /\ Log(b, t, log) /\ EncType(b, e) /\ WidthOf(b, a) /\ Counting(b, e, a)
      /\ Pending(e, t, log, a) /\ K \in Nat /\ Len(t) \in Nat
  BY SyncedParts
<1>2. d \in 0 .. K /\ \A i \in d + 1 .. K : log[i].m = i - d /\ log[i].code # CLEAR
  <2>1. K \in 0 .. K
    BY <1>1
  <2> QED BY <2>1, <1>1, Epoch
<1>3. a.m \in Nat \ {0} /\ e.free_ent \in Int /\ Literals \in Nat
  <2>1. \A y \in FIRST .. MAXCODE(b) : y \in Int
    OBVIOUS
  <2> QED BY <2>1, <1>1, EncFields, WidthFields, Constants
<1>4. e.free_ent <= Literals + a.m
  BY <1>1, <1>3 DEF Counting
<1> HIDE DEF a
<1>5. Known(a.m, x) /\ x \notin Byte
  BY <1>3, <1>4 DEF Known, FIRST, Byte
<1>6. d \in Nat /\ a.m \in Nat /\ d + a.m - 1 = K
  BY <1>1, <1>2, <1>3
<1> HIDE DEF d
<1>7. Origin(d, x) \in d + 1 .. d + a.m - 1
  BY <1>5, <1>6, OriginKnown
<1>8. o \in d + 1 .. K
  BY <1>6, <1>7
<1> HIDE DEF o, K
<1>9. o \in 1 .. K /\ o \in 0 .. K /\ K \in 0 .. K
  BY <1>8, <1>6, <1>1
<1>10. Done(log, o) = log[o].end
  BY <1>9 DEF Done
<1>11. log[o].end \in Nat /\ log[o].end <= Done(log, K) /\ Done(log, K) \in Nat
  BY <1>9, <1>10, <1>1, LogEnds DEF K
<1>12. Done(log, K) < Len(t)
  BY <1>1 DEF Pending, K
<1>13. log[o].end < Len(t)
  BY <1>11, <1>12, <1>1
<1> QED BY <1>2, <1>5, <1>8, <1>11, <1>13 DEF o, d, K, a

LEMMA HitKeeps ==
  ASSUME NEW b \in Bits, NEW e, NEW t, NEW log, Synced(b, e, t, log), t # <<>>,
         InChunkBounds(e, t), Going(e, t), NEW c \in Byte, <<e.ent, c>> \in DOMAIN e.htab
  PROVE  LET w == [e EXCEPT !.ent = e.htab[<<e.ent, c>>]]
         IN  Synced(b, w, Append(t, c), log) /\ InChunkBounds(w, Append(t, c))
<1> DEFINE K == Len(log)  a == After(b, log, K)  d == K + 1 - a.m  pair == <<e.ent, c>>
           x == e.htab[pair]  o == Origin(d, x)  w == [e EXCEPT !.ent = x]  t2 == Append(t, c)
           s == Done(log, K)
<1>1. /\ Log(b, t, log) /\ EncType(b, e) /\ WidthOf(b, a) /\ Counting(b, e, a)
      /\ Aligned(e, a) /\ Table(e, t, log, a)
      /\ Pending(e, t, log, a) /\ K \in Nat /\ t \in Seq(Byte) /\ Len(t) \in Nat
  BY SyncedParts
<1>2. x \in FIRST .. e.free_ent - 1 /\ x \in Nat
  <2>1. x \in FIRST .. e.free_ent - 1
    BY <1>1, EncFields
  <2> QED BY <2>1, Constants
<1>3. /\ d \in 0 .. K /\ Known(a.m, x) /\ x \notin Byte /\ o \in d + 1 .. K
      /\ log[o].m = o - d /\ log[o].code # CLEAR
      /\ log[o].end \in Nat /\ log[o].end <= s /\ log[o].end < Len(t)
  BY <1>2, Made
<1>4. log[o].code = e.ent /\ t[log[o].end + 1] = c
  BY <1>1 DEF Table
<1>5. /\ Len(t2) = Len(t) + 1 /\ t2[Len(t) + 1] = c /\ t2 \in Seq(Byte)
      /\ \A k \in 1 .. Len(t) : t2[k] = t[k]
  BY <1>1
<1>6. w \in EncRecord(b, e.htab) /\ w.ent = x
      /\ w.outbits = e.outbits /\ w.boff = e.boff /\ w.bytes_out = e.bytes_out
      /\ w.rlop = e.rlop /\ w.rsize = e.rsize /\ w.n_bits = e.n_bits
      /\ w.stcode = e.stcode /\ w.free_ent = e.free_ent /\ w.extcode = e.extcode
      /\ w.htab = e.htab
  BY <1>1, <1>2 DEF EncType, EncRecord
<1> HIDE DEF x, w, t2, a
<1>7. EncType(b, w)
  BY <1>1, <1>6 DEF EncType
<1>8. /\ Len(t) < e.rsize /\ e.rlop <= e.rsize
      /\ e.stcode => e.free_ent < e.extcode
      /\ e.outbits <= ChunkLimit
      /\ \A f \in Int : e.stcode /\ f = e.free_ent /\ e.rlop - (Len(t) + 1) >= 0 =>
               f + 1 + (e.rlop - (Len(t) + 1)) <= e.extcode
      /\ e.rlop - (Len(t) + 1) >= 0 =>
               e.outbits + e.n_bits + e.n_bits * (e.rlop - (Len(t) + 1)) <= ChunkLimit
  BY <1>1, Advancing
<1>9. Counting(b, w, a)
  BY <1>1, <1>6, <1>8 DEF Counting
<1>10. Aligned(w, a)
  BY <1>1, <1>6 DEF Aligned, Grown
<1>11. Log(b, t2, log)
  BY <1>1, Extended DEF t2
<1>12. Table(w, t2, log, a)
  <2>1. SUFFICES ASSUME NEW p \in DOMAIN e.htab
                 PROVE  LET i == Origin(Len(log) + 1 - a.m, e.htab[p])
                        IN  log[i].code = p[1] /\ t2[log[i].end + 1] = p[2]
    BY <1>6 DEF Table
  <2> DEFINE y == e.htab[p]  i == Origin(d, y)
  <2>2. y \in FIRST .. e.free_ent - 1
    BY <1>1, EncFields
  <2>3. log[i].end \in Nat /\ log[i].end < Len(t)
    BY <2>2, Made DEF a
  <2>4. log[i].code = p[1] /\ t[log[i].end + 1] = p[2]
    BY <1>1 DEF Table
  <2>5. log[i].end + 1 \in 1 .. Len(t)
    <3> HIDE DEF i
    <3> QED BY <2>3, <1>1
  <2> QED BY <2>4, <2>5, <1>5
<1>13. s \in Nat /\ s < Len(t) /\ Denotes(t, log, d, e.ent, s, Len(t))
  <2>1. s \in Nat
    BY <1>1, LogEnds, K \in 0 .. K
  <2> QED BY <2>1, <1>1 DEF Pending
<1> HIDE DEF d, s, K
<1>14. o \in 1 .. K /\ o - 1 \in 0 .. K /\ o - log[o].m = d
  <2> HIDE DEF o
  <2>1. o \in Int /\ d \in Int
    BY <1>3, <1>1
  <2> QED BY <2>1, <1>3, <1>1
<1> HIDE DEF o
<1>15. /\ Done(log, o - 1) \in Nat /\ log[o].end \in Done(log, o - 1) + 1 .. Len(t)
       /\ Denotes(t, log, d, e.ent, Done(log, o - 1), log[o].end)
  <2>1. Denotes(t, log, o - log[o].m, log[o].code, Done(log, o - 1), log[o].end)
        /\ log[o].end \in Done(log, o - 1) + 1 .. Len(t)
    BY <1>1, <1>3, <1>14, LogFields DEF K
  <2>2. Done(log, o - 1) \in Nat
    BY <1>1, <1>14, LogEnds DEF K
  <2> QED BY <2>1, <2>2, <1>4, <1>14
<1>16. Len(t) - s = log[o].end - Done(log, o - 1) /\ Piece(t, s, Len(t), Done(log, o - 1))
  BY <1>1, <1>3, <1>13, <1>15, SameString
<1>17. Denotes(t2, log, d, x, s, Len(t2))
  <2> DEFINE u == log[o].end  v == Done(log, o - 1)  L == Len(t)
  <2>1. /\ u \in Nat /\ v \in Nat /\ L \in Nat /\ s \in Nat /\ L - s = u - v
        /\ u \in v + 1 .. L /\ u < L /\ s < L
    BY <1>1, <1>3, <1>13, <1>15, <1>16
  <2>2. \A k \in 1 .. L - s : t[s + k] = t[v + k]
    BY <1>16 DEF Piece
  <2>3. t[u + 1] = c
    BY <1>4
  <2> HIDE DEF u, v, L
  <2>4. Len(t2) - s = (u + 1) - v
    BY <2>1, <1>5 DEF L
  <2>5. ASSUME NEW k \in 1 .. (L + 1) - s PROVE t2[s + k] = t2[v + k]
    <3>1. CASE k = (L + 1) - s
      <4>1. s + k = L + 1 /\ v + k = u + 1 /\ u + 1 \in 1 .. L
        BY <3>1, <2>1
      <4> QED BY <4>1, <2>3, <1>5 DEF L
    <3>2. CASE k # (L + 1) - s
      <4>1. k \in 1 .. L - s /\ s + k \in 1 .. L /\ v + k \in 1 .. L
        BY <3>2, <2>1
      <4> QED BY <4>1, <2>2, <1>5 DEF L
    <3> QED BY <3>1, <3>2
  <2>6. Piece(t2, s, Len(t2), v)
    BY <2>5, <1>5 DEF Piece, L
  <2> QED BY <2>4, <2>6, <1>3 DEF Denotes, u, v, o
<1>18. Pending(w, t2, log, a)
  <2>1. t2 # <<>> /\ s < Len(t2)
    BY <1>1, <1>5, <1>13
  <2> QED BY <2>1, <1>2, <1>3, <1>6, <1>17 DEF Pending, s, d, K
<1>19. Synced(b, w, t2, log)
  BY <1>7, <1>9, <1>10, <1>11, <1>12, <1>18 DEF Synced, a, K
<1>20. InChunkBounds(w, t2)
  <2> DEFINE L == Len(t2)  R == e.rlop  S == e.rsize  F == e.free_ent  X == e.extcode
             O == e.outbits  n == e.n_bits  y == n * (R - L)
  <2>1. /\ L \in Nat /\ R \in Int /\ S \in Nat /\ F \in Int /\ X \in Int /\ O \in Nat /\ n \in Nat \ {0}
        /\ ChunkLimit \in Nat
    <3>1. \A z \in FIRST .. MAXCODE(b) : z \in Int
      OBVIOUS
    <3>2. n \in InitBits .. b
      BY <1>1, EncFields
    <3>3. ChunkLimit \in Nat /\ n \in Nat \ {0}
      <4> HIDE DEF n
      <4> QED BY <3>2, Space
    <3> QED BY <3>1, <3>3, <1>1, <1>5, EncFields
  <2>2. /\ L <= S /\ R <= S
        /\ e.stcode => F < X
        /\ O <= ChunkLimit
        /\ e.stcode /\ R - L >= 0 => F + 1 + (R - L) <= X
        /\ R - L >= 0 => O + n + y <= ChunkLimit
    BY <1>1, <1>5, <1>8, <2>1
  <2>3. y \in Int
    BY <2>1
  <2> HIDE DEF L, R, S, F, X, O, n, y
  <2>4. /\ e.stcode /\ R - L >= 0 => F + (R - L) <= X
        /\ R - L >= 0 => O + y <= ChunkLimit
        /\ O <= ChunkLimit + n /\ O <= ChunkLimit + 0
    BY <2>1, <2>2, <2>3
  <2> QED BY <2>2, <2>4, <1>6 DEF InChunkBounds, L, R, S, F, X, O, n, y
<1> QED BY <1>19, <1>20 DEF w, t2, x


(* A pair that is not in the table: its code, and if there is room an      *)
(* entry for the pair.  f2 is the file with the code.                      *)
Miss(e, c) ==
    LET p == [Past(e) EXCEPT !.ent = c]
    IN  IF ~p.stcode THEN p
        ELSE [p EXCEPT !.htab = With(@, <<e.ent, c>>, p.free_ent), !.free_ent = @ + 1]
Misses(b, e, t, log, f, f2, c) ==
    LET a == After(b, log, Len(log))
    IN  /\ Synced(b, e, t, log) /\ t # <<>> /\ InChunkBounds(e, t) /\ Going(e, t)
        /\ c \in Byte /\ <<e.ent, c>> \notin DOMAIN e.htab
        /\ Placed(f, log, At(a))
        /\ f2 = f \cup {At(a) + k : k \in {j \in 0 .. Literals : Bit(e.ent, j)}}

\* The code that is pending fits the width, and there is one for the entry.
LEMMA CodeFits ==
  ASSUME NEW b \in Bits, InitBits < b, NEW e, NEW a, EncType(b, e), WidthOf(b, a),
         Counting(b, e, a), e.stcode => e.free_ent < e.extcode,
         e.ent \in Byte \/ e.ent \in FIRST .. e.free_ent - 1
  PROVE  /\ e.ent < MAXCODE(e.n_bits) /\ e.ent \in 0 .. e.free_ent - 1
         /\ e.stcode => /\ e.free_ent + 1 \in FIRST .. MAXCODE(b)
                        /\ e.free_ent < e.extcode /\ e.free_ent <= MAXCODE(e.n_bits)
<1> DEFINE n == e.n_bits  F == e.free_ent  E == e.ent  X == e.extcode
<1>1. /\ n \in InitBits .. b /\ F \in FIRST .. MAXCODE(b) /\ E \in Nat /\ X \in Int
      /\ e.stcode \in BOOLEAN
  BY EncFields
<1>2. /\ MAXCODE(n) = 2 * MAXCODE(n - 1) /\ MAXCODE(n) \in Nat \ {0}
      /\ MAXCODE(n) <= MAXCODE(b) /\ 2 * Literals <= MAXCODE(n) /\ b \in InitBits .. Literals
  <2> HIDE DEF n
  <2> QED BY <1>1, FirstWidth
<1>3. F \in Nat /\ FIRST = Literals + 1 /\ Literals \in Nat \ {0} /\ MAXCODE(b) \in Nat
      /\ n \in Nat /\ b \in Nat /\ n <= b
  <2>1. b \in InitBits .. b
    BY <1>2, Constants
  <2>2. MAXCODE(b) \in Nat
    BY <2>1, FirstWidth
  <2> QED BY <1>1, <1>2, <2>2, Constants DEF FIRST
<1>4. e.stcode => X = Extcode(b, n) /\ F < X
  BY DEF Counting
<1>5. ~e.stcode => n = b /\ F = MAXCODE(b)
  BY DEF Counting
<1>6. n < b => 2 * MAXCODE(n) <= MAXCODE(b)
  <2>1. SUFFICES ASSUME n < b PROVE 2 * MAXCODE(n) <= MAXCODE(b)
    OBVIOUS
  <2> HIDE DEF n
  <2>2. n + 1 \in Nat /\ b \in n + 1 .. Literals + 1 /\ n \in 0 .. Literals
    BY <2>1, <1>1, <1>2, <1>3
  <2>3. MAXCODE(n + 1) <= MAXCODE(b)
    BY <2>2, PowersGrow
  <2>4. MAXCODE(n + 1) = 2 * MAXCODE(n)
    BY <2>2, Powers
  <2> QED BY <2>3, <2>4
<1> HIDE DEF n, F, E, X
<1>7. F <= MAXCODE(n)
  <2>1. CASE e.stcode
    BY <2>1, <1>4, <1>3, <1>2 DEF Extcode
  <2>2. CASE ~e.stcode
    BY <2>2, <1>5, <1>3
  <2> QED BY <2>1, <2>2
<1>8. E \in Byte \/ E \in FIRST .. F - 1
  BY DEF E, F
<1>9. E < MAXCODE(n) /\ E \in 0 .. F - 1
  <2>1. CASE E \in Byte
    <3>1. E \in Nat /\ E < Literals /\ Literals < F
      BY <2>1, <1>1, <1>3 DEF Byte
    <3> QED BY <3>1, <1>2, <1>3
  <2>2. CASE E \in FIRST .. F - 1
    BY <2>2, <1>2, <1>3, <1>7
  <2> QED BY <2>1, <2>2, <1>8
<1>10. e.stcode => F + 1 \in FIRST .. MAXCODE(b) /\ F < X /\ F <= MAXCODE(n)
  <2>1. SUFFICES ASSUME e.stcode PROVE F + 1 \in FIRST .. MAXCODE(b) /\ F < X /\ F <= MAXCODE(n)
    OBVIOUS
  <2>2. X = Extcode(b, n) /\ F < X
    BY <2>1, <1>4
  <2>3. F + 1 <= MAXCODE(b)
    <3>1. CASE n < b
      <4>1. X = MAXCODE(n) + 1
        BY <3>1, <2>2 DEF Extcode
      <4> QED BY <4>1, <2>2, <3>1, <1>6, <1>2, <1>3
    <3>2. CASE ~(n < b)
      <4>1. n = b /\ X = MAXCODE(b)
        BY <3>2, <2>2, <1>3 DEF Extcode
      <4> QED BY <4>1, <2>2, <1>3
    <3> QED BY <3>1, <3>2
  <2> QED BY <2>2, <2>3, <1>1, <1>3, <1>7
<1> QED BY <1>9, <1>10 DEF E, n, F, X

LEMMA MissFields ==
  ASSUME NEW b, NEW e, EncType(b, e), NEW c \in Byte, <<e.ent, c>> \notin DOMAIN e.htab,
         e.n_bits \in Nat, e.ent \in 0 .. e.free_ent - 1,
         e.stcode => e.free_ent + 1 \in FIRST .. MAXCODE(b)
  PROVE  LET w == Miss(e, c)
         IN  /\ EncType(b, w) /\ w.ent = c
             /\ w.outbits = e.outbits + e.n_bits /\ w.boff = e.boff /\ w.bytes_out = e.bytes_out
             /\ w.rlop = e.rlop /\ w.rsize = e.rsize /\ w.n_bits = e.n_bits
             /\ w.stcode = e.stcode /\ w.extcode = e.extcode
             /\ ~e.stcode => w.htab = e.htab /\ w.free_ent = e.free_ent
             /\ e.stcode => /\ w.free_ent = e.free_ent + 1
                            /\ DOMAIN w.htab = DOMAIN e.htab \cup {<<e.ent, c>>}
                            /\ w.htab[<<e.ent, c>>] = e.free_ent
                            /\ \A p \in DOMAIN e.htab : w.htab[p] = e.htab[p]
<1> DEFINE w == Miss(e, c)  p == [Past(e) EXCEPT !.ent = c]  pair == <<e.ent, c>>
           h == With(e.htab, pair, e.free_ent)  x == Past(e)
<1>1. /\ e \in EncRecord(b, e.htab) /\ c \in Nat
      /\ e.htab \in [DOMAIN e.htab -> FIRST .. e.free_ent - 1]
      /\ DOMAIN e.htab \subseteq (0 .. e.free_ent - 1) \X Byte
      /\ e.free_ent \in FIRST .. MAXCODE(b) /\ e.free_ent \in Int
  <2>1. \A y \in FIRST .. MAXCODE(b) : y \in Int
    OBVIOUS
  <2>2. e.free_ent \in FIRST .. MAXCODE(b) /\ e.htab \in [DOMAIN e.htab -> FIRST .. e.free_ent - 1]
        /\ DOMAIN e.htab \subseteq (0 .. e.free_ent - 1) \X Byte
    BY EncFields
  <2>3. e \in EncRecord(b, e.htab)
    BY DEF EncType
  <2> QED BY <2>1, <2>2, <2>3 DEF Byte
<1>2. /\ x \in EncRecord(b, e.htab) /\ x.outbits = e.outbits + e.n_bits
      /\ x.ent = e.ent /\ x.rlop = e.rlop /\ x.rsize = e.rsize /\ x.boff = e.boff
      /\ x.checkpoint = e.checkpoint /\ x.bytes_out = e.bytes_out
      /\ x.n_bits = e.n_bits /\ x.extcode = e.extcode /\ x.free_ent = e.free_ent
      /\ x.stcode = e.stcode /\ x.htab = e.htab
  BY <1>1, EncPast
<1>3. p = [x EXCEPT !.ent = c]
  OBVIOUS
<1> HIDE DEF x, p
<1>4. /\ p \in EncRecord(b, e.htab) /\ p.outbits = e.outbits + e.n_bits
      /\ p.ent = c /\ p.rlop = e.rlop /\ p.rsize = e.rsize /\ p.boff = e.boff
      /\ p.bytes_out = e.bytes_out
      /\ p.n_bits = e.n_bits /\ p.extcode = e.extcode /\ p.free_ent = e.free_ent
      /\ p.stcode = e.stcode /\ p.htab = e.htab
  BY <1>1, <1>2, <1>3 DEF EncRecord
<1>5. w = IF ~p.stcode THEN p ELSE [p EXCEPT !.htab = With(@, pair, p.free_ent), !.free_ent = @ + 1]
  BY DEF Miss, p, x
<1> HIDE DEF w, h
<1>6. CASE ~e.stcode
  <2>1. w = p
    BY <1>4, <1>5, <1>6
  <2>2. EncType(b, w)
    BY <2>1, <1>1, <1>4 DEF EncType
  <2> QED BY <2>1, <2>2, <1>4, <1>6 DEF w
<1>7. CASE e.stcode
  <2>1. w = [p EXCEPT !.htab = h, !.free_ent = e.free_ent + 1]
    <3>1. p \in EncRecord(b, e.htab) /\ p.htab = e.htab /\ p.free_ent = e.free_ent /\ p.stcode
      BY <1>4, <1>7
    <3>2. [p EXCEPT !.htab = With(@, pair, p.free_ent), !.free_ent = @ + 1]
          = [p EXCEPT !.htab = With(p.htab, pair, p.free_ent), !.free_ent = p.free_ent + 1]
      BY <3>1 DEF EncRecord
    <3>3. w = [p EXCEPT !.htab = With(p.htab, pair, p.free_ent), !.free_ent = p.free_ent + 1]
      BY <3>1, <3>2, <1>5
    <3> QED BY <3>1, <3>3 DEF h
  <2>2. /\ w \in EncRecord(b, h) /\ w.outbits = e.outbits + e.n_bits
        /\ w.ent = c /\ w.rlop = e.rlop /\ w.rsize = e.rsize /\ w.boff = e.boff
        /\ w.bytes_out = e.bytes_out
        /\ w.n_bits = e.n_bits /\ w.extcode = e.extcode /\ w.free_ent = e.free_ent + 1
        /\ w.stcode = e.stcode /\ w.htab = h
    BY <2>1, <1>4, <1>7 DEF EncRecord
  <2>3. DOMAIN h = DOMAIN e.htab \cup {pair}
    BY DEF h, With
  <2>5. h = [q \in DOMAIN h |-> h[q]]
    BY DEF h, With
  <2>7. h[pair] = e.free_ent /\ \A q \in DOMAIN e.htab : h[q] = e.htab[q]
    <3> HIDE DEF pair
    <3>1. pair \notin DOMAIN e.htab
      BY DEF pair
    <3> QED BY <3>1 DEF h, With
  <2>8. FIRST \in Nat
    BY Constants
  <2>9. \A q \in DOMAIN h : h[q] \in FIRST .. (e.free_ent + 1) - 1
    <3> TAKE q \in DOMAIN h
    <3>1. CASE q \in DOMAIN e.htab
      <4>1. h[q] \in FIRST .. e.free_ent - 1
        BY <3>1, <2>7, <1>1
      <4> QED BY <4>1, <1>1
    <3>2. CASE q = pair
      BY <3>2, <2>7, <1>1, <2>8
    <3> QED BY <3>1, <3>2, <2>3
  <2>10. h \in [DOMAIN h -> FIRST .. (e.free_ent + 1) - 1]
    <3> HIDE DEF pair
    <3> QED BY <2>5, <2>9
  <2>11. DOMAIN h \subseteq (0 .. (e.free_ent + 1) - 1) \X Byte
    <3>1. pair \in (0 .. (e.free_ent + 1) - 1) \X Byte
      <4>1. e.ent \in 0 .. (e.free_ent + 1) - 1
        BY <1>1
      <4> QED BY <4>1
    <3>2. 0 .. e.free_ent - 1 \subseteq 0 .. (e.free_ent + 1) - 1
      BY <1>1
    <3> QED BY <3>1, <3>2, <2>3, <1>1
  <2>12. EncType(b, w)
    BY <2>2, <2>10, <2>11 DEF EncType
  <2> QED BY <2>2, <2>3, <2>7, <2>12, <1>7 DEF w
<1> QED BY <1>6, <1>7


\* The groups, one code further on.
LEMMA NextAligned ==
  ASSUME NEW b \in Bits, NEW r, WidthOf(b, r), NEW o \in Int, NEW f0 \in Int, NEW g \in Int,
         o - f0 = r.n * r.q + (r.n * ByteBits) * g
  PROVE  /\ (o + r.n) - f0 = r.n * (r.q + 1) + (r.n * ByteBits) * g
         /\ r.n < b /\ FIRST + r.m > MAXCODE(r.n) =>
               \E h \in Int : (o + r.n) - f0 = (r.n * ByteBits) * h
<1> DEFINE n == r.n  q == r.q  N == n * ByteBits
<1>1. n \in Nat \ {0} /\ q \in Nat /\ ByteBits \in Nat \ {0} /\ N \in Nat \ {0}
  <2>1. n \in Nat \ {0} /\ q \in Nat
    BY WidthFields
  <2>2. \A x, y \in Nat \ {0} : x * y \in Nat \ {0}
    OBVIOUS
  <2>3. N \in Nat \ {0}
    BY <2>1, <2>2, Constants
  <2> QED BY <2>1, <2>3, Constants
<1>2. o - f0 = n * q + N * g
  OBVIOUS
<1> HIDE DEF n, q
<1>3. (o + n) - f0 = n * (q + 1) + N * g
  <2> DEFINE x == n * q  y == N * g
  <2>1. n * (q + 1) = x + n /\ x \in Int /\ y \in Int
    BY <1>1
  <2>2. o - f0 = x + y
    BY <1>2
  <2> HIDE DEF x, y
  <2>3. (o + n) - f0 = x + n + y
    BY <2>1, <2>2, <1>1
  <2> QED BY <2>1, <2>3 DEF y
<1>4. ASSUME (q + 1) % ByteBits = 0
      PROVE  \E h \in Int : (o + n) - f0 = N * h
  <2> DEFINE B == ByteBits  k == (q + 1) \div B
  <2>1. q + 1 = B * k /\ k \in Int
    <3>1. q + 1 \in Int
      BY <1>1
    <3>2. q + 1 = B * ((q + 1) \div B) + ((q + 1) % B) /\ (q + 1) \div B \in Int
      BY <3>1, <1>1, Divided
    <3> DEFINE z == B * ((q + 1) \div B)
    <3>3. z \in Int /\ q + 1 = z + 0
      BY <3>2, <1>4, <1>1
    <3> HIDE DEF z
    <3>4. q + 1 = z
      BY <3>3
    <3> QED BY <3>2, <3>4 DEF z
  <2> HIDE DEF k
  <2>2. n * (q + 1) = N * k
    <3>1. \A x, y, z \in Int : x * (y * z) = (x * y) * z
      OBVIOUS
    <3>2. n \in Int /\ B \in Int
      BY <1>1
    <3> QED BY <3>1, <3>2, <2>1
  <2>3. N * k + N * g = N * (k + g)
    BY <1>1, <2>1, Multiples
  <2>4. (o + n) - f0 = N * (k + g) /\ k + g \in Int
    BY <1>3, <2>1, <2>2, <2>3
  <2> QED BY <2>4
<1>5. r.n < b /\ FIRST + r.m > MAXCODE(r.n) => (q + 1) % ByteBits = 0
  BY WiderAtGroup DEF q
<1> QED BY <1>3, <1>4, <1>5 DEF n, q

\* A code is written: what follows it.
LEMMA NextPlace ==
  ASSUME NEW b \in Bits, NEW e, NEW a, WidthOf(b, a), EncType(b, e), e.n_bits = a.n, Aligned(e, a),
         NEW a2,
         IF a.n < b /\ FIRST + a.m > MAXCODE(a.n)
         THEN a2.n = a.n + 1 /\ a2.q = 0 /\ a2.from = At(a) + a.n
         ELSE a2.n = a.n /\ a2.q = a.q + 1 /\ a2.from = a.from
  PROVE  /\ At(a2) = At(a) + a.n
         /\ e.bytes_out * ByteBits + (e.outbits + e.n_bits) = At(a2)
         /\ IF a.n < b /\ FIRST + a.m > MAXCODE(a.n)
            THEN \E g \in Int : (e.outbits + e.n_bits) - e.boff = (e.n_bits * ByteBits) * g
            ELSE \E g \in Int :
                    (e.outbits + e.n_bits) - e.boff = a2.n * a2.q + (a2.n * ByteBits) * g
<1> DEFINE n == a.n  q == a.q  from == a.from  o == e.outbits  f0 == e.boff
           X == e.bytes_out * ByteBits
<1>1. n \in Nat \ {0} /\ q \in Nat /\ from \in Nat /\ At(a) \in Nat /\ At(a) = from + n * q
  BY WidthFields
<1>2. o \in Int /\ f0 \in Int /\ X \in Int
  <2>1. o \in Nat /\ f0 \in Int /\ e.bytes_out \in Nat /\ ByteBits \in Nat
    BY EncFields, Constants
  <2>2. \A x, y \in Nat : x * y \in Int
    OBVIOUS
  <2>3. X \in Int
    BY <2>1, <2>2
  <2> QED BY <2>1, <2>3
<1>3. X + o = At(a)
  BY DEF Aligned
<1>4. PICK g \in Int : o - f0 = n * q + (n * ByteBits) * g
  <2>1. ~ Grown(e, a)
    BY <1>1 DEF Grown
  <2> QED BY <2>1 DEF Aligned
<1>5. At(a2) = At(a) + n
  <2>1. CASE a.n < b /\ FIRST + a.m > MAXCODE(a.n)
    <3>1. a2.n = n + 1 /\ a2.q = 0 /\ a2.from = At(a) + n
      BY <2>1
    <3>2. \A x, y \in Nat : x + (y + 1) * 0 = x
      OBVIOUS
    <3>3. At(a) + n \in Nat /\ n \in Nat
      BY <1>1
    <3> HIDE DEF n
    <3> QED BY <3>1, <3>2, <3>3 DEF At
  <2>2. CASE ~(a.n < b /\ FIRST + a.m > MAXCODE(a.n))
    <3>1. a2.n = n /\ a2.q = q + 1 /\ a2.from = from
      BY <2>2
    <3>2. \A x, y, z \in Nat : x + y * (z + 1) = (x + y * z) + y
      OBVIOUS
    <3> HIDE DEF n, q, from
    <3> QED BY <3>1, <3>2, <1>1 DEF At
  <2> QED BY <2>1, <2>2
<1>6. X + (o + n) = At(a2)
  <2> HIDE DEF X, o, n
  <2> QED BY <1>1, <1>2, <1>3, <1>5
<1>7. /\ (o + n) - f0 = n * (q + 1) + (n * ByteBits) * g
      /\ a.n < b /\ FIRST + a.m > MAXCODE(a.n) => \E h \in Int : (o + n) - f0 = (n * ByteBits) * h
  <2> HIDE DEF o, f0
  <2> QED BY <1>2, <1>4, NextAligned
<1>8. CASE a.n < b /\ FIRST + a.m > MAXCODE(a.n)
  BY <1>5, <1>6, <1>7, <1>8
<1>9. CASE ~(a.n < b /\ FIRST + a.m > MAXCODE(a.n))
  <2>1. (o + n) - f0 = a2.n * a2.q + (a2.n * ByteBits) * g
    BY <1>7, <1>9
  <2> QED BY <2>1, <1>5, <1>6, <1>9
<1> QED BY <1>8, <1>9


LEMMA MissKeeps ==
  ASSUME NEW b \in Bits, InitBits < b,
         NEW e, NEW t, NEW log, NEW f, NEW f2, NEW c, Misses(b, e, t, log, f, f2, c)
  PROVE  LET w == Miss(e, c)
             t2 == Append(t, c)
         IN  \E log2 : /\ Synced(b, w, t2, log2) /\ InChunkBounds(w, t2)
                       /\ Placed(f2, log2, At(After(b, log2, Len(log2))))
<1> DEFINE K == Len(log)  a == After(b, log, K)  d == K + 1 - a.m  pair == <<e.ent, c>>
           w == Miss(e, c)  t2 == Append(t, c)  s == Done(log, K)
           r == [code |-> e.ent, n |-> a.n, from |-> a.from, q |-> a.q, m |-> a.m, end |-> Len(t)]
           log2 == Append(log, r)  a2 == After(b, log2, Len(log2))
<1>a. /\ Synced(b, e, t, log) /\ t # <<>> /\ InChunkBounds(e, t) /\ Going(e, t)
      /\ c \in Byte /\ <<e.ent, c>> \notin DOMAIN e.htab
      /\ Placed(f, log, At(a))
      /\ f2 = f \cup {At(a) + k : k \in {j \in 0 .. Literals : Bit(e.ent, j)}}
  BY DEF Misses
<1>1. /\ Log(b, t, log) /\ EncType(b, e) /\ WidthOf(b, a) /\ Counting(b, e, a)
      /\ Aligned(e, a) /\ Table(e, t, log, a)
      /\ Pending(e, t, log, a) /\ K \in Nat /\ t \in Seq(Byte) /\ Len(t) \in Nat
      /\ log \in Seq(Entry)
  BY <1>a, SyncedParts
<1>2. /\ Len(t) < e.rsize /\ e.rlop <= e.rsize
      /\ e.stcode => e.free_ent < e.extcode
      /\ e.outbits <= ChunkLimit
      /\ \A x \in Int : e.stcode /\ x = e.free_ent /\ e.rlop - (Len(t) + 1) >= 0 =>
               x + 1 + (e.rlop - (Len(t) + 1)) <= e.extcode
      /\ e.rlop - (Len(t) + 1) >= 0 =>
               e.outbits + e.n_bits + e.n_bits * (e.rlop - (Len(t) + 1)) <= ChunkLimit
  BY <1>a, <1>1, Advancing
<1>3. /\ a.n \in InitBits .. b /\ a.n \in Nat \ {0} /\ a.n \in 0 .. Literals
      /\ a.m \in Nat \ {0} /\ a.q \in Nat /\ a.from \in Nat
      /\ a.n < b => Literals + a.m <= MAXCODE(a.n)
      /\ At(a) \in Nat /\ At(a) + a.n \in Nat
  BY <1>1, WidthFields
<1>4. e.n_bits = a.n
  BY <1>1, <1>2, NotGrown
<1>5. /\ e.ent \in Byte \/ e.ent \in FIRST .. e.free_ent - 1
      /\ Known(a.m, e.ent) /\ Denotes(t, log, d, e.ent, s, Len(t))
  BY <1>a, <1>1 DEF Pending
<1>6. s \in Nat /\ s < Len(t)
  <2>1. s \in Nat
    BY <1>1, LogEnds, K \in 0 .. K
  <2> QED BY <2>1, <1>a, <1>1 DEF Pending
<1>7. /\ e.ent < MAXCODE(a.n) /\ e.ent \in 0 .. e.free_ent - 1
      /\ e.stcode => /\ e.free_ent + 1 \in FIRST .. MAXCODE(b)
                     /\ e.free_ent < e.extcode /\ e.free_ent <= MAXCODE(a.n)
  <2>1. e.ent \in Byte \/ e.ent \in FIRST .. e.free_ent - 1
    BY <1>a, <1>1 DEF Pending
  <2> HIDE DEF a
  <2>2. /\ e.ent < MAXCODE(e.n_bits) /\ e.ent \in 0 .. e.free_ent - 1
        /\ e.stcode => /\ e.free_ent + 1 \in FIRST .. MAXCODE(b)
                       /\ e.free_ent < e.extcode /\ e.free_ent <= MAXCODE(e.n_bits)
    BY <2>1, <1>1, <1>2, CodeFits
  <2> QED BY <2>2, <1>4
<1>8. /\ EncType(b, w) /\ w.ent = c
      /\ w.outbits = e.outbits + e.n_bits /\ w.boff = e.boff /\ w.bytes_out = e.bytes_out
      /\ w.rlop = e.rlop /\ w.rsize = e.rsize /\ w.n_bits = e.n_bits
      /\ w.stcode = e.stcode /\ w.extcode = e.extcode
      /\ ~e.stcode => w.htab = e.htab /\ w.free_ent = e.free_ent
      /\ e.stcode => /\ w.free_ent = e.free_ent + 1
                     /\ DOMAIN w.htab = DOMAIN e.htab \cup {<<e.ent, c>>}
                     /\ w.htab[<<e.ent, c>>] = e.free_ent
                     /\ \A p \in DOMAIN e.htab : w.htab[p] = e.htab[p]
  <2> HIDE DEF a
  <2>1. e.n_bits \in Nat
    BY <1>3, <1>4
  <2> QED BY <2>1, <1>a, <1>1, <1>7, MissFields
<1>9. e.ent # CLEAR /\ e.ent \in Nat
  <2> HIDE DEF a
  <2> QED BY <1>3, <1>5, NotClear
<1>10. r \in Entry /\ r.code = e.ent /\ r.n = a.n /\ r.from = a.from /\ r.q = a.q /\ r.m = a.m
       /\ r.end = Len(t) /\ At(r) = At(a)
  BY <1>1, <1>3, <1>9 DEF Entry, At
<1> HIDE DEF r, w, t2
<1>11. Follows(b, t, log, r)
  <2>1. r.end \in s + 1 .. Len(t)
    BY <1>1, <1>6, <1>10
  <2>2. Known(r.m, r.code) /\ r.code # CLEAR /\ r.code < MAXCODE(r.n)
    BY <1>5, <1>7, <1>9, <1>10
  <2>3. Denotes(t, log, K + 1 - r.m, r.code, s, r.end)
    BY <1>5, <1>10
  <2> QED BY <2>1, <2>2, <2>3, <1>10 DEF Follows
<1>12. Log(b, t, log2)
  BY <1>1, <1>11, Appended
<1>13. Log(b, t2, log2)
  BY <1>a, <1>12, Extended DEF t2
<1>14. /\ Len(log2) = K + 1 /\ log2[K + 1] = r /\ Done(log2, K + 1) = Len(t)
       /\ log2 \in Seq(Entry) /\ \A i \in 1 .. K : log2[i] = log[i]
  BY <1>1, <1>10 DEF Done
<1>15. /\ Len(t2) = Len(t) + 1 /\ t2[Len(t) + 1] = c /\ t2 \in Seq(Byte)
       /\ \A k \in 1 .. Len(t) : t2[k] = t[k]
  BY <1>1, <1>a DEF t2
<1> HIDE DEF log2
<1>16. /\ a2.m = a.m + 1
       /\ IF a.n < b /\ FIRST + a.m > MAXCODE(a.n)
          THEN a2.n = a.n + 1 /\ a2.q = 0 /\ a2.from = At(a) + a.n
          ELSE a2.n = a.n /\ a2.q = a.q + 1 /\ a2.from = a.from
  <2>1. Len(log2) \in Nat /\ Len(log2) # 0
    BY <1>14, <1>1
  <2>2. r.code # CLEAR
    BY <1>9, <1>10
  <2>3. r.n = a.n /\ r.m = a.m /\ r.from = a.from /\ r.q = a.q /\ At(r) = At(a)
    BY <1>10
  <2> HIDE DEF a
  <2> QED BY <2>1, <2>2, <2>3, <1>14, AfterFields
<1> HIDE DEF a2, a
<1>17. /\ At(a2) = At(a) + a.n
       /\ w.bytes_out * ByteBits + w.outbits = At(a2)
       /\ IF a.n < b /\ FIRST + a.m > MAXCODE(a.n)
          THEN \E g \in Int : w.outbits - w.boff = (w.n_bits * ByteBits) * g
          ELSE \E g \in Int : w.outbits - w.boff = a2.n * a2.q + (a2.n * ByteBits) * g
  <2>1. /\ At(a2) = At(a) + a.n
        /\ e.bytes_out * ByteBits + (e.outbits + e.n_bits) = At(a2)
        /\ IF a.n < b /\ FIRST + a.m > MAXCODE(a.n)
           THEN \E g \in Int : (e.outbits + e.n_bits) - e.boff = (e.n_bits * ByteBits) * g
           ELSE \E g \in Int :
                   (e.outbits + e.n_bits) - e.boff = a2.n * a2.q + (a2.n * ByteBits) * g
    BY <1>1, <1>4, <1>16, NextPlace
  <2> QED BY <2>1, <1>8
<1>18. e.free_ent \in Int /\ e.extcode \in Int /\ MAXCODE(a.n) \in Int /\ FIRST = Literals + 1
       /\ Literals \in Nat
  <2>1. \A x \in FIRST .. MAXCODE(b) : x \in Int
    OBVIOUS
  <2>2. MAXCODE(a.n) \in Int
    BY <1>3, FirstWidth
  <2> QED BY <2>1, <2>2, <1>1, EncFields, Constants DEF FIRST
<1>19. Counting(b, w, a2)
  <2>1. CASE e.stcode
    <3>1. /\ e.free_ent = Literals + a.m /\ e.extcode = Extcode(b, e.n_bits)
      BY <2>1, <1>1 DEF Counting
    <3>2. w.free_ent = Literals + a2.m /\ w.free_ent <= w.extcode /\ w.extcode = Extcode(b, w.n_bits)
      <4>1. w.free_ent = e.free_ent + 1 /\ w.extcode = e.extcode /\ w.n_bits = e.n_bits
            /\ e.free_ent < e.extcode
        BY <2>1, <1>2, <1>8
      <4> DEFINE F == e.free_ent  X == e.extcode  m == a.m
      <4>2. F \in Int /\ X \in Int /\ m \in Int /\ Literals \in Int /\ F = Literals + m /\ F < X
            /\ a2.m = m + 1
        BY <4>1, <3>1, <1>3, <1>16, <1>18
      <4> HIDE DEF F, X, m
      <4>3. F + 1 = Literals + a2.m /\ F + 1 <= X
        BY <4>2
      <4> QED BY <4>1, <4>3, <3>1 DEF F, X
    <3>3. ~(w.ent >= FIRST)
      BY <1>a, <1>8, <1>18 DEF Byte
    <3> QED BY <3>2, <3>3, <2>1, <1>8 DEF Counting
  <2>2. CASE ~e.stcode
    <3>1. e.n_bits = b /\ e.free_ent = MAXCODE(b) /\ Literals + a.m >= e.free_ent
      BY <2>2, <1>1 DEF Counting
    <3>2. Literals + a2.m >= e.free_ent
      BY <3>1, <1>3, <1>16, <1>18
    <3> QED BY <3>1, <3>2, <2>2, <1>8 DEF Counting
  <2> QED BY <2>1, <2>2
<1>20. Aligned(w, a2)
  <2>1. CASE a.n < b /\ FIRST + a.m > MAXCODE(a.n)
    <3>1. e.stcode
      <4>1. ~e.stcode => e.n_bits = b
        BY <1>1 DEF Counting
      <4>2. b \in Nat
        BY FirstWidth
      <4> QED BY <4>1, <4>2, <2>1, <1>3, <1>4
    <3>2. e.free_ent = Literals + a.m /\ e.extcode = MAXCODE(a.n) + 1
      BY <3>1, <2>1, <1>1, <1>4 DEF Counting, Extcode
    <3>3. Literals + a.m <= MAXCODE(a.n)
      BY <2>1, <1>3
    <3>4. e.free_ent + 1 = e.extcode
      BY <3>2, <3>3, <2>1, <1>3, <1>18
    <3>5. Grown(w, a2)
      BY <3>1, <3>4, <2>1, <1>4, <1>8, <1>16 DEF Grown
    <3> QED BY <3>5, <2>1, <1>17 DEF Aligned
  <2>2. CASE ~(a.n < b /\ FIRST + a.m > MAXCODE(a.n))
    <3>1. a2.n = a.n
      BY <2>2, <1>16
    <3> QED BY <3>1, <2>2, <1>4, <1>8, <1>17 DEF Aligned
  <2> QED BY <2>1, <2>2
<1>21. Len(log2) + 1 - a2.m = d
  <2>1. \A x, y \in Int : (x + 1) + 1 - (y + 1) = x + 1 - y
    OBVIOUS
  <2>2. K \in Int /\ a.m \in Int /\ Len(log2) = K + 1 /\ a2.m = a.m + 1
    BY <1>1, <1>3, <1>14, <1>16
  <2> HIDE DEF K
  <2> QED BY <2>1, <2>2
<1>22. ASSUME NEW p \in DOMAIN e.htab
       PROVE  LET i == Origin(d, e.htab[p])
              IN  log2[i].code = p[1] /\ t2[log2[i].end + 1] = p[2]
  <2> DEFINE y == e.htab[p]  i == Origin(d, y)
  <2>1. y \in FIRST .. e.free_ent - 1
    BY <1>1, EncFields
  <2>2. d \in 0 .. K /\ i \in d + 1 .. K /\ log[i].end \in Nat /\ log[i].end < Len(t)
    BY <2>1, <1>a, Made DEF a
  <2>3. log[i].code = p[1] /\ t[log[i].end + 1] = p[2]
    BY <1>1 DEF Table
  <2> HIDE DEF d, i
  <2>4. i \in 1 .. K
    BY <2>2, <1>1
  <2>5. log2[i] = log[i] /\ log[i].end + 1 \in 1 .. Len(t)
    BY <2>2, <2>4, <1>1, <1>14
  <2> QED BY <2>3, <2>5, <1>15 DEF i
<1>23. e.stcode => Origin(d, e.free_ent) = K + 1
  <2>1. SUFFICES ASSUME e.stcode PROVE Origin(d, e.free_ent) = K + 1
    OBVIOUS
  <2>2. e.free_ent = Literals + a.m
    BY <2>1, <1>1 DEF Counting
  <2>3. \A x, y, z \in Int : x + 1 - y + ((z + y) - (z + 1)) + 1 = x + 1
    OBVIOUS
  <2>4. K \in Int /\ a.m \in Int /\ Literals \in Int /\ FIRST = Literals + 1
    BY <1>1, <1>3, <1>18
  <2> HIDE DEF K
  <2> QED BY <2>2, <2>3, <2>4 DEF Origin
<1> HIDE DEF d, s
<1>24. Table(w, t2, log2, a2)
  <2>1. SUFFICES ASSUME NEW p \in DOMAIN w.htab
                 PROVE  LET i == Origin(d, w.htab[p])
                        IN  log2[i].code = p[1] /\ t2[log2[i].end + 1] = p[2]
    BY <1>21 DEF Table
  <2>2. CASE p \in DOMAIN e.htab
    <3>1. w.htab[p] = e.htab[p]
      BY <2>2, <1>8, <1>1, EncFields
    <3> QED BY <3>1, <2>2, <1>22
  <2>3. CASE p \notin DOMAIN e.htab
    <3>1. e.stcode /\ p = <<e.ent, c>> /\ w.htab[p] = e.free_ent
      <4>1. e.stcode \in BOOLEAN
        BY <1>1, EncFields
      <4> QED BY <4>1, <2>3, <1>8
    <3>2. p[1] = e.ent /\ p[2] = c
      BY <3>1
    <3>3. Origin(d, w.htab[p]) = K + 1
      BY <3>1, <1>23
    <3>4. log2[K + 1].code = e.ent /\ t2[log2[K + 1].end + 1] = c
      BY <1>10, <1>14, <1>15
    <3> QED BY <3>2, <3>3, <3>4
  <2> QED BY <2>2, <2>3
<1>25. Pending(w, t2, log2, a2)
  <2>1. t2 # <<>> /\ Done(log2, Len(log2)) = Len(t) /\ Len(t) < Len(t2)
    BY <1>1, <1>14, <1>15
  <2>2. c \in Byte /\ Known(a2.m, c)
    BY <1>a DEF Known
  <2>3. Denotes(t2, log2, Len(log2) + 1 - a2.m, c, Len(t), Len(t2))
    BY <2>2, <1>15 DEF Denotes
  <2> QED BY <2>1, <2>2, <2>3, <1>8 DEF Pending
<1>26. Synced(b, w, t2, log2)
  BY <1>8, <1>13, <1>19, <1>20, <1>24, <1>25 DEF Synced, a2
<1>27. Placed(f2, log2, At(a2))
  <2>1. r.n \in 0 .. Literals /\ r.code < MAXCODE(r.n) /\ Placed(f, log, At(r))
    BY <1>a, <1>3, <1>7, <1>10
  <2>2. f2 = f \cup {At(r) + k : k \in {j \in 0 .. Literals : Bit(r.code, j)}}
    BY <1>a, <1>10
  <2>3. Placed(f2, Append(log, r), At(r) + r.n)
    BY <2>1, <2>2, <1>1, <1>10, PlacedNext
  <2> QED BY <2>3, <1>10, <1>17 DEF log2
<1>28. InChunkBounds(w, t2)
  <2> DEFINE L == Len(t2)  R == e.rlop  S == e.rsize  F == e.free_ent  X == e.extcode
             O == e.outbits  n == e.n_bits  y == n * (R - L)
  <2>1. /\ L \in Nat /\ R \in Int /\ S \in Nat /\ F \in Int /\ X \in Int /\ O \in Nat /\ n \in Nat \ {0}
        /\ ChunkLimit \in Nat
    <3>2. n \in InitBits .. b
      BY <1>1, EncFields
    <3>3. ChunkLimit \in Nat /\ n \in Nat \ {0}
      <4> HIDE DEF n
      <4> QED BY <3>2, Space
    <3> QED BY <1>18, <3>3, <1>1, <1>15, EncFields
  <2>2. /\ L <= S /\ R <= S
        /\ O <= ChunkLimit
        /\ e.stcode /\ R - L >= 0 => F + 1 + (R - L) <= X
        /\ R - L >= 0 => O + n + y <= ChunkLimit
    BY <1>1, <1>2, <1>15, <2>1
  <2>3. c < FIRST
    BY <1>a, <1>18 DEF Byte
  <2> HIDE DEF L, R, S, F, X, O, n, y
  <2>4. O + n <= ChunkLimit + n
    BY <2>1, <2>2
  <2>5. CASE e.stcode
    <3>1. w.free_ent = F + 1 /\ w.stcode /\ w.ent = c /\ w.extcode = X /\ w.outbits = O + n
          /\ w.rlop = R /\ w.rsize = S /\ w.n_bits = n
      BY <2>5, <1>8 DEF R, S, F, X, O, n
    <3>2. /\ L <= S /\ R <= S
          /\ R - L >= 0 => F + 1 + (R - L) <= X
          /\ R - L >= 0 => (O + n) + n * (R - L) <= ChunkLimit
          /\ O + n <= ChunkLimit + n
      BY <2>2, <2>4, <2>5 DEF y
    <3> QED BY <3>1, <3>2, <2>3 DEF InChunkBounds, L
  <2>6. CASE ~e.stcode
    <3>1. ~w.stcode /\ w.ent = c /\ w.outbits = O + n
          /\ w.rlop = R /\ w.rsize = S /\ w.n_bits = n
      BY <2>6, <1>8 DEF R, S, F, X, O, n
    <3>2. /\ L <= S /\ R <= S
          /\ R - L >= 0 => (O + n) + n * (R - L) <= ChunkLimit
          /\ O + n <= ChunkLimit + n
      BY <2>2, <2>4 DEF y
    <3> QED BY <3>1, <3>2, <2>3 DEF InChunkBounds, L
  <2> QED BY <2>5, <2>6
<1>29. Synced(b, w, t2, log2) /\ InChunkBounds(w, t2) /\ Placed(f2, log2, At(After(b, log2, Len(log2))))
  BY <1>26, <1>27, <1>28 DEF a2
<1> QED BY <1>29, Zenon DEF w, t2


LEMMA NextByteKeeps ==
  ASSUME Modes, Static, NEW log, Writing(log), NextByte
  PROVE  \E log2 : Compressing' /\ Writing(log2)'
<1> DEFINE b == maxbits  a == After(b, log, Len(log))
<1>0. b \in Bits /\ InitBits < b
  BY Wider
<1>1. PICK c \in Upcoming :
         LET pair == <<enc.ent, c>>
         IN  /\ text' = Append(text, c)
             /\ \/ /\ pair \in DOMAIN enc.htab
                   /\ enc' = [enc EXCEPT !.ent = enc.htab[pair]]
                   /\ file' = file
                \/ /\ pair \notin DOMAIN enc.htab
                   /\ file' = Written(enc, enc.ent)
                   /\ LET e == [Past(enc) EXCEPT !.ent = c]
                      IN  enc' = IF ~e.stcode THEN e
                                 ELSE [e EXCEPT !.htab = With(@, pair, e.free_ent),
                                                !.free_ent = @ + 1]
  BY DEF NextByte
<1>2. /\ pc = "chars" /\ Going(enc, text) /\ pc' = "chars"
      /\ UNCHANGED <<maxbits, block_mode, dec, out>>
  BY DEF NextByte, InChunk, Going
<1>3. /\ Synced(b, enc, text, log) /\ Placed(file, log, At(a))
      /\ InChunkBounds(enc, text) /\ text # <<>> /\ dec = DecInit /\ out = <<>>
  BY <1>2 DEF Writing
<1>4. c \in Byte
  <2>1. text \in Seq(Byte)
    BY <1>0, <1>3, SyncedParts
  <2>2. opening \in Seq(Byte) /\ Letters \subseteq Byte
    BY WidthAssumption DEF Static, Byte
  <2> QED BY <2>1, <2>2 DEF Upcoming
<1>5. text' # <<>>
  <2>1. text \in Seq(Byte)
    BY <1>0, <1>3, SyncedParts
  <2> QED BY <2>1, <1>1, <1>4
<1> HIDE DEF a
<1>6. CASE <<enc.ent, c>> \in DOMAIN enc.htab
  <2> DEFINE w == [enc EXCEPT !.ent = enc.htab[<<enc.ent, c>>]]
  <2>1. Synced(b, w, Append(text, c), log) /\ InChunkBounds(w, Append(text, c))
    BY <1>0, <1>2, <1>3, <1>4, <1>6, HitKeeps
  <2>2. enc' = w /\ text' = Append(text, c) /\ file' = file /\ maxbits' = b
    BY <1>1, <1>2, <1>6
  <2> HIDE DEF w
  <2>3. Synced(maxbits, enc, text, log)' /\ InChunkBounds(enc, text)'
        /\ Placed(file, log, At(After(maxbits, log, Len(log))))'
    BY <2>1, <2>2, <1>3 DEF a
  <2> QED BY <2>3, <1>2, <1>3, <1>5, StillWriting
<1>7. CASE <<enc.ent, c>> \notin DOMAIN enc.htab
  <2> DEFINE w == Miss(enc, c)  f2 == Written(enc, enc.ent)
  <2>1. f2 = file \cup {At(a) + k : k \in {j \in 0 .. Literals : Bit(enc.ent, j)}}
    <3>1. enc.bytes_out * ByteBits + enc.outbits = At(a)
      BY <1>0, <1>3, SyncedParts DEF Aligned, a
    <3> QED BY <3>1 DEF Written
  <2>2. enc' = w /\ file' = f2 /\ text' = Append(text, c) /\ maxbits' = b
    BY <1>1, <1>2, <1>7 DEF Miss
  <2> HIDE DEF f2, w
  <2>3. Misses(b, enc, text, log, file, f2, c)
    BY <2>1, <1>2, <1>3, <1>4, <1>7 DEF Misses, a
  <2>4. PICK log2 : /\ Synced(b, w, Append(text, c), log2) /\ InChunkBounds(w, Append(text, c))
                    /\ Placed(f2, log2, At(After(b, log2, Len(log2))))
    BY <2>3, <1>0, MissKeeps DEF w
  <2>5. Synced(maxbits, enc, text, log2)' /\ InChunkBounds(enc, text)'
        /\ Placed(file, log2, At(After(maxbits, log2, Len(log2))))'
    BY <2>2, <2>4
  <2> QED BY <2>5, <1>2, <1>3, <1>5, StillWriting
<1> QED BY <1>6, <1>7

LEMMA EndChunkKeeps ==
  ASSUME Modes, Static, NEW log, Writing(log), EndChunk
  PROVE  Compressing' /\ Writing(log)'
<1> DEFINE b == maxbits  a == After(b, log, Len(log))  w == [enc EXCEPT !.rlop = Len(text)]
<1>0. b \in Bits /\ InitBits < b
  BY Wider
<1>1. /\ pc = "chars" /\ ~InChunk /\ enc' = w
      /\ pc' = IF Len(text) < enc.rsize THEN "top" ELSE "read"
      /\ UNCHANGED <<maxbits, block_mode, text, file, dec, out>>
  BY DEF EndChunk
<1>2. /\ Synced(b, enc, text, log) /\ Placed(file, log, At(a))
      /\ InChunkBounds(enc, text) /\ text # <<>> /\ dec = DecInit /\ out = <<>>
  BY <1>1 DEF Writing
<1>3. EncType(b, enc) /\ Aligned(enc, a) /\ Len(text) \in Nat
  BY <1>0, <1>2, SyncedParts
<1>4. enc \in EncRecord(b, enc.htab) /\ Len(text) \in Int
  BY <1>3 DEF EncType
<1> HIDE DEF w, a
<1>5. /\ w \in EncRecord(b, enc.htab) /\ w.rlop = Len(text)
      /\ w.outbits = enc.outbits /\ w.boff = enc.boff /\ w.bytes_out = enc.bytes_out
      /\ w.ent = enc.ent /\ w.rsize = enc.rsize /\ w.n_bits = enc.n_bits
      /\ w.stcode = enc.stcode /\ w.free_ent = enc.free_ent /\ w.extcode = enc.extcode
      /\ w.htab = enc.htab
  BY <1>4 DEF EncRecord, w
<1>6. EncType(b, w)
  BY <1>3, <1>5 DEF EncType
<1>7. Aligned(w, a)
  BY <1>3, <1>5 DEF Aligned, Grown
<1>8. Synced(b, w, text, log)
  BY <1>0, <1>2, <1>5, <1>6, <1>7, SyncedSame DEF a
<1>9. Between(w, text) /\ (~(Len(text) < enc.rsize) => Len(text) = w.rsize)
  <2>1. Len(text) <= enc.rsize /\ enc.outbits <= ChunkLimit + (IF enc.ent < FIRST THEN enc.n_bits ELSE 0)
    BY <1>2 DEF InChunkBounds
  <2>2. enc.outbits \in Nat /\ enc.n_bits \in Nat /\ enc.rsize \in Nat /\ ChunkLimit \in Nat
    <3>1. enc.n_bits \in InitBits .. b /\ enc.outbits \in Nat /\ enc.rsize \in Nat
      BY <1>3, EncFields
    <3>2. enc.n_bits \in Nat /\ ChunkLimit \in Nat
      BY <3>1, <1>0, Space
    <3> QED BY <3>1, <3>2
  <2> DEFINE o == enc.outbits  n == enc.n_bits  S == enc.rsize
  <2>3. o \in Nat /\ n \in Nat /\ S \in Nat /\ o <= ChunkLimit + (IF enc.ent < FIRST THEN n ELSE 0)
        /\ Len(text) <= S
    BY <2>1, <2>2
  <2> HIDE DEF o, n, S
  <2>4. o <= ChunkLimit + n /\ (~(Len(text) < S) => Len(text) = S) /\ Len(text) <= Len(text)
    BY <2>2, <2>3, <1>3
  <2> QED BY <2>3, <2>4, <1>5 DEF Between, o, n, S
<1>10. Synced(maxbits, enc, text, log)' /\ Placed(file, log, At(After(maxbits, log, Len(log))))'
  BY <1>1, <1>2, <1>8 DEF a
<1>11. \/ pc' = "read" /\ (Between(enc, text) /\ Len(text) = enc.rsize)'
       \/ pc' = "top" /\ (Between(enc, text) /\ text # <<>>)'
  BY <1>1, <1>2, <1>9
<1> QED BY <1>1, <1>2, <1>10, <1>11, StillWriting

\* Before the first byte the table is empty.
LEMMA Untold ==
  ASSUME NEW b \in Bits, InitBits < b, NEW e, NEW log, Synced(b, e, <<>>, log)
  PROVE  log = <<>> /\ e.stcode /\ DOMAIN e.htab = {} /\ e.free_ent = FIRST
<1> DEFINE a == After(b, log, Len(log))
<1>1. EncType(b, e) /\ Counting(b, e, a) /\ Pending(e, <<>>, log, a)
  BY SyncedParts
<1>2. log = <<>>
  BY <1>1 DEF Pending
<1>3. a.m = 1
  BY <1>2, AfterFields
<1> HIDE DEF a
<1>4. b \in InitBits .. b /\ 2 * Literals <= MAXCODE(b) /\ MAXCODE(b) \in Nat /\ Literals >= 2
  <2>1. b \in InitBits .. Literals /\ b \in Nat
    BY FirstWidth
  <2>2. b \in InitBits .. b /\ Literals >= 2
    BY <2>1, Constants
  <2> QED BY <2>2, FirstWidth
<1>5. e.stcode
  <2>1. SUFFICES ASSUME ~e.stcode PROVE FALSE
    OBVIOUS
  <2>2. Literals + 1 >= MAXCODE(b)
    BY <2>1, <1>1, <1>3 DEF Counting
  <2> QED BY <2>2, <1>4, Constants
<1>6. e.free_ent = FIRST
  BY <1>1, <1>3, <1>5 DEF Counting, FIRST
<1>7. \A p \in DOMAIN e.htab : e.htab[p] \in FIRST .. FIRST - 1
  BY <1>1, <1>6, EncFields
<1>8. FIRST .. FIRST - 1 = {}
  BY Constants
<1> QED BY <1>2, <1>5, <1>6, <1>7, <1>8

LEMMA FillKeeps ==
  ASSUME Modes, Static, NEW log, Writing(log), Fill
  PROVE  Compressing' /\ Writing(log)'
<1> DEFINE b == maxbits  a == After(b, log, Len(log))
<1>0. b \in Bits /\ InitBits < b
  BY Wider
<1>1. PICK n \in 1 .. IBufSiz :
         IF text = <<>>
         THEN \E c \in Upcoming : /\ text' = <<c>>
                                  /\ enc' = [enc EXCEPT !.rsize = n, !.ent = c]
         ELSE text' = text /\ enc' = [enc EXCEPT !.rsize = @ + n]
  BY DEF Fill
<1>2. /\ pc = "read" /\ pc' = "top"
      /\ UNCHANGED <<maxbits, block_mode, file, dec, out>>
  BY DEF Fill
<1>3. /\ Synced(b, enc, text, log) /\ Placed(file, log, At(a))
      /\ Between(enc, text) /\ Len(text) = enc.rsize /\ dec = DecInit /\ out = <<>>
  BY <1>2 DEF Writing
<1>4. EncType(b, enc) /\ Aligned(enc, a) /\ Len(text) \in Nat /\ text \in Seq(Byte) /\ Log(b, text, log)
      /\ Counting(b, enc, a)
  BY <1>0, <1>3, SyncedParts
<1>5. /\ enc \in EncRecord(b, enc.htab) /\ n \in Nat \ {0} /\ enc.rsize \in Nat /\ enc.rlop \in Int
  <2>1. n \in Nat \ {0}
    BY Constants
  <2>2. enc.rsize \in Nat /\ enc.rlop \in Int
    BY <1>4, EncFields
  <2> QED BY <2>1, <2>2, <1>4 DEF EncType
<1>6. enc.rlop <= Len(text) /\ Len(text) <= enc.rsize /\ enc.outbits <= ChunkLimit + enc.n_bits
  BY <1>3 DEF Between
<1> HIDE DEF a
<1>7. CASE text = <<>>
  <2>1. PICK c \in Upcoming : text' = <<c>> /\ enc' = [enc EXCEPT !.rsize = n, !.ent = c]
    BY <1>1, <1>7
  <2>2. c \in Byte /\ c \in Nat
    <3>1. opening \in Seq(Byte) /\ Letters \subseteq Byte
      BY WidthAssumption DEF Static, Byte
    <3>2. c \in Byte
      BY <3>1, <1>7 DEF Upcoming
    <3> QED BY <3>2 DEF Byte
  <2> DEFINE w == [enc EXCEPT !.rsize = n, !.ent = c]
  <2> HIDE DEF w
  <2>3. /\ w \in EncRecord(b, enc.htab) /\ w.rlop = enc.rlop
        /\ w.outbits = enc.outbits /\ w.boff = enc.boff /\ w.bytes_out = enc.bytes_out
        /\ w.ent = c /\ w.rsize = n /\ w.n_bits = enc.n_bits
        /\ w.stcode = enc.stcode /\ w.free_ent = enc.free_ent /\ w.extcode = enc.extcode
        /\ w.htab = enc.htab
    BY <1>5, <2>2 DEF EncRecord, w
  <2>4. EncType(b, w)
    BY <1>4, <2>3 DEF EncType
  <2>5. Aligned(w, a)
    BY <1>4, <2>3 DEF Aligned, Grown
  <2>6. log = <<>> /\ DOMAIN w.htab = {}
    BY <1>0, <1>3, <1>7, <2>3, Untold
  <2>7. Counting(b, w, a)
    <3>1. ~(c >= FIRST)
      BY <2>2, Constants DEF Byte, FIRST
    <3> QED BY <3>1, <1>4, <2>3 DEF Counting
  <2>8. Table(w, <<c>>, log, a)
    BY <2>6 DEF Table
  <2>9. Log(b, <<c>>, log)
    <3>1. Log(b, Append(text, c), log)
      BY <1>4, <2>2, Extended
    <3>2. Append(text, c) = <<c>>
      BY <1>7
    <3> QED BY <3>1, <3>2
  <2>10. Pending(w, <<c>>, log, a)
    <3>1. Done(log, Len(log)) = 0 /\ Len(<<c>>) = 1 /\ <<c>>[1] = c /\ <<c>> # <<>>
      BY <2>6 DEF Done
    <3>2. Denotes(<<c>>, log, Len(log) + 1 - a.m, c, 0, 1)
      BY <2>2, <3>1 DEF Denotes
    <3> QED BY <2>2, <2>3, <3>1, <3>2 DEF Pending, Known
  <2>11. Synced(b, w, <<c>>, log)
    BY <2>4, <2>5, <2>7, <2>8, <2>9, <2>10 DEF Synced, a
  <2>12. Between(w, <<c>>) /\ <<c>> # <<>>
    <3>1. Len(<<c>>) = 1 /\ <<c>> # <<>> /\ Len(text) = 0
      BY <1>7
    <3>2. enc.rlop <= 1 /\ 1 <= n
      BY <3>1, <1>5, <1>6
    <3> QED BY <3>1, <3>2, <1>6, <2>3 DEF Between
  <2>13. Synced(maxbits, enc, text, log)' /\ Placed(file, log, At(After(maxbits, log, Len(log))))'
         /\ (Between(enc, text) /\ text # <<>>)'
    BY <1>2, <1>3, <2>1, <2>11, <2>12 DEF a, w
  <2> QED BY <1>2, <1>3, <2>13, StillWriting
<1>8. CASE text # <<>>
  <2> DEFINE S == enc.rsize + n  w == [enc EXCEPT !.rsize = S]
  <2>1. text' = text /\ enc' = w
    BY <1>1, <1>8
  <2>2. S \in Nat /\ enc.rsize <= S
    BY <1>5
  <2> HIDE DEF w, S
  <2>3. /\ w \in EncRecord(b, enc.htab) /\ w.rlop = enc.rlop
        /\ w.outbits = enc.outbits /\ w.boff = enc.boff /\ w.bytes_out = enc.bytes_out
        /\ w.ent = enc.ent /\ w.rsize = S /\ w.n_bits = enc.n_bits
        /\ w.stcode = enc.stcode /\ w.free_ent = enc.free_ent /\ w.extcode = enc.extcode
        /\ w.htab = enc.htab
    BY <1>5, <2>2 DEF EncRecord, w
  <2>4. EncType(b, w)
    BY <1>4, <2>3 DEF EncType
  <2>5. Aligned(w, a)
    BY <1>4, <2>3 DEF Aligned, Grown
  <2>6. Synced(b, w, text, log)
    BY <1>0, <1>3, <2>3, <2>4, <2>5, SyncedSame DEF a
  <2>7. Between(w, text)
    BY <1>4, <1>5, <1>6, <2>2, <2>3 DEF Between
  <2>8. Synced(maxbits, enc, text, log)' /\ Placed(file, log, At(After(maxbits, log, Len(log))))'
         /\ (Between(enc, text) /\ text # <<>>)'
    BY <1>2, <1>3, <1>8, <2>1, <2>6, <2>7 DEF a
  <2> QED BY <1>2, <1>3, <2>8, StillWriting
<1> QED BY <1>7, <1>8


(* The end of the input.                                                   *)
LEMMA DecStart ==
  ASSUME Modes, Static, NEW t, NEW log, NEW bytes \in Nat
  PROVE  Tracks(maxbits, DecInit, t, log, 0, <<>>) /\ InHeader(DecInit, bytes)
<1> DEFINE b == maxbits  d == DecInit  a == After(b, log, 0)
<1>0. b \in Bits /\ InitBits < b /\ block_mode = TRUE /\ Literals >= 2
  BY Wider
<1>1. b \in InitBits .. Literals /\ b \in Nat /\ MAXCODE(InitBits) = 2 * Literals
      /\ MAXCODE(b) \in Nat /\ 2 * Literals <= MAXCODE(b) /\ InitBits \in InitBits .. b
  <2>1. b \in InitBits .. Literals /\ b \in Nat /\ MAXCODE(InitBits) = 2 * Literals
    BY <1>0, FirstWidth
  <2>2. b \in InitBits .. b /\ InitBits \in InitBits .. b
    BY <2>1, Constants
  <2>3. MAXCODE(b) \in Nat /\ 2 * Literals <= MAXCODE(b)
    BY <1>0, <2>2, FirstWidth
  <2> QED BY <2>1, <2>2, <2>3
<1>2. /\ d.insize = 0 /\ d.base = 0 /\ d.rsize = 0 /\ d.posbits = HeaderBits /\ d.inbits = 0
      /\ d.n_bits = InitBits /\ d.maxcode = MAXCODE(InitBits) - 1 /\ d.free_ent = FIRST
      /\ d.oldcode = -1 /\ d.finchar = 0
  BY <1>0 DEF DecInit
<1>3. DecType(b, d)
  <2>1. /\ MAXCODE(InitBits) - 1 \in Nat /\ FIRST \in CLEAR .. MAXCODE(b) /\ 0 \in Byte
        /\ HeaderBits \in Nat
    BY <1>0, <1>1, Constants DEF FIRST, CLEAR, Byte
  <2> QED BY <1>0, <1>1, <2>1 DEF DecType, DecInit
<1>4. a.m = 1 /\ a.n = InitBits /\ a.from = HeaderBits /\ a.q = 0
  BY AfterFields
<1> HIDE DEF d, a
<1>5. At(a) = HeaderBits /\ d.base * ByteBits + d.posbits = HeaderBits
  <2>1. InitBits * 0 = 0 /\ 0 * ByteBits = 0
    BY Constants
  <2>2. HeaderBits \in Nat
    BY Constants
  <2> QED BY <1>2, <1>4, <2>1, <2>2 DEF At
<1>6. InStep(b, d, log, 0, a)
  <2>1. d.free_ent = DecFree(b, log, 0)
    BY <1>2 DEF DecFree
  <2>2. d.maxcode = DecMax(b, d.n_bits)
    BY <1>0, <1>1, <1>2 DEF DecMax
  <2>3. ~(d.free_ent > d.maxcode)
    BY <1>0, <1>1, <1>2, Constants DEF FIRST
  <2> QED BY <2>1, <2>2, <2>3, <1>2, <1>4, <1>5 DEF InStep
<1>7. Entries(d, t, log, 0) /\ Decoded(t, log, 0, <<>>)
  BY <1>2 DEF Entries, Decoded, Done
<1>8. Tracks(b, d, t, log, 0, <<>>)
  BY <1>3, <1>6, <1>7 DEF Tracks, a
<1>9. InHeader(d, bytes)
  BY <1>2, Constants DEF InHeader
<1> QED BY <1>8, <1>9 DEF d

\* The size of the file, in bytes.
LEMMA WholeBytes ==
  ASSUME NEW y \in Nat, NEW o \in Nat
  PROVE  LET bytes == y + (o + ByteBits - 1) \div ByteBits
         IN  bytes \in Nat /\ bytes * ByteBits \in y * ByteBits + o .. y * ByteBits + o + ByteBits - 1
<1> DEFINE B == ByteBits  x == o + B - 1  k == x \div B
<1>1. B \in Nat \ {0}
  BY Constants
<1> HIDE DEF B
<1>2. x \in Nat
  BY <1>1
<1>3. x = B * k + (x % B) /\ x % B \in 0 .. B - 1 /\ k \in Int
  <2> HIDE DEF x
  <2> QED BY <1>1, <1>2, Divided
<1>4. k \in Nat
  <2>1. SUFFICES ASSUME k < 0 PROVE FALSE
    BY <1>3
  <2>2. B * k <= B * (-1)
    <3> HIDE DEF k
    <3>1. k <= -1 /\ -1 \in Int
      BY <2>1, <1>3
    <3> QED BY <3>1, <1>1, <1>3, Multiples
  <2> DEFINE z == B * k
  <2>3. z \in Int /\ z <= -B
    BY <2>2, <1>1, <1>3
  <2> HIDE DEF z
  <2> QED BY <2>3, <1>1, <1>2, <1>3 DEF z
<1> HIDE DEF k
<1>5. (y + k) * B = y * B + B * k
  BY <1>1, <1>4
<1> DEFINE u == y * B  v == B * k
<1>6. u \in Nat /\ v \in Int /\ x % B \in Int
  BY <1>1, <1>3, <1>4
<1>7. o + B - 1 = v + (x % B)
  BY <1>3
<1> DEFINE r == x % B
<1>8. r \in 0 .. B - 1 /\ o + B - 1 = v + r
  BY <1>3, <1>7
<1> HIDE DEF r, u, v, x
<1>9. u + v \in u + o .. u + o + B - 1
  BY <1>1, <1>6, <1>8
<1> QED BY <1>4, <1>5, <1>9 DEF u, v, B, k, x

(* The last code may have been written with one bit less than the reader   *)
(* expects; there is room for it in the last byte.                         *)
LEMMA LastByte ==
  ASSUME NEW from \in Nat, NEW n \in Nat, NEW bytes \in Nat,
         from % ByteBits = 0, n % ByteBits # 0,
         bytes * ByteBits \in from + n .. from + n + ByteBits - 1
  PROVE  bytes * ByteBits \in from + n + 1 .. from + n + ByteBits
<1> DEFINE B == ByteBits
<1>1. B \in Nat \ {0}
  BY Constants
<1>2. from % B = 0 /\ n % B # 0 /\ bytes * B \in from + n .. from + n + B - 1
  OBVIOUS
<1> HIDE DEF B
<1>3. from = B * (from \div B) + 0 /\ from \div B \in Int
  BY <1>1, <1>2, Divided
<1> DEFINE h == from \div B
<1>4. from = B * h + 0 /\ h \in Int
  BY <1>3
<1> HIDE DEF h
<1>5. bytes * B # from + n
  <2>1. SUFFICES ASSUME bytes * B = from + n PROVE FALSE
    OBVIOUS
  <2>2. B * bytes - B * h = B * (bytes - h) /\ bytes - h \in Int
    BY <1>1, <1>4, Multiples
  <2> DEFINE u == B * bytes  v == B * h
  <2>3. u \in Int /\ v \in Int /\ u = from + n /\ from = v + 0
    BY <1>1, <1>4, <2>1
  <2> HIDE DEF u, v
  <2>4. n = u - v
    BY <2>3
  <2>5. n = B * (bytes - h)
    BY <2>2, <2>4 DEF u, v
  <2> DEFINE k == bytes - h
  <2>6. k \in Int /\ n = B * k + 0
    BY <2>2, <2>5, <1>1
  <2> HIDE DEF k
  <2>7. (B * k + 0) % B = 0
    BY <2>6, <1>1, Quotient, 0 \in 0 .. B - 1
  <2> QED BY <2>6, <2>7, <1>2
<1> DEFINE x == bytes * B
<1>6. x \in Int /\ x \in from + n .. from + n + B - 1 /\ x # from + n
  BY <1>1, <1>2, <1>5
<1> HIDE DEF x
<1>7. x \in from + n + 1 .. from + n + B
  BY <1>1, <1>6
<1> QED BY <1>7 DEF x, B


LEMMA StartReading ==
  ASSUME Modes, Static, NEW log, UNCHANGED <<maxbits, block_mode, text, dec, out>>,
         dec = DecInit, out = <<>>, pc' = "header",
         Complete(maxbits, text, log, file, FileBytes)', EncType(maxbits, enc)',
         (Len(text) <= enc.rsize)', (enc.outbits <= (OBufSiz + OutSpare) * ByteBits)'
  PROVE  Decompressing' /\ Reading(log)'
<1>1. Decompressing'
  BY DEF Decompressing
<1>2. FileBytes' \in Nat
  BY DEF Complete
<1> DEFINE bytes == FileBytes'  a == After(maxbits, log, 0)
<1>3. Tracks(maxbits, DecInit, text, log, 0, <<>>) /\ InHeader(DecInit, bytes)
  <2> HIDE DEF bytes
  <2>1. bytes \in Nat
    BY <1>2 DEF bytes
  <2> QED BY <2>1, DecStart
<1>4. Tracks(maxbits, dec, text, log, 0, out)' /\ InHeader(dec, FileBytes)'
  BY <1>3
<1>5. 0 \in 0 .. Len(log)
  <2>1. Log(maxbits, text, log)
    BY DEF Complete
  <2> QED BY <2>1 DEF Log
<1>6. (LET aa == After(maxbits, log, 0)
       IN  /\ Tracks(maxbits, dec, text, log, 0, out)
           /\ pc = "header" => 0 = 0 /\ InHeader(dec, FileBytes)
           /\ pc # "header" => Buffered(dec, FileBytes)
           /\ pc = "reset" => AtGroup(dec, aa)
           /\ pc = "codes" => InCodes(dec) /\ Grouped(dec, aa)
           /\ pc = "done" => 0 = Len(log))'
  BY <1>4
<1>7. (\E j \in 0 .. Len(log) :
          LET aa == After(maxbits, log, j)
          IN  /\ Tracks(maxbits, dec, text, log, j, out)
              /\ pc = "header" => j = 0 /\ InHeader(dec, FileBytes)
              /\ pc # "header" => Buffered(dec, FileBytes)
              /\ pc = "reset" => AtGroup(dec, aa)
              /\ pc = "codes" => InCodes(dec) /\ Grouped(dec, aa)
              /\ pc = "done" => j = Len(log))'
  BY <1>5, <1>6
<1> QED BY <1>1, <1>7 DEF Reading

\* What compress leaves when it writes the code that is pending.
LastCode(b, e, t, log, f, f2) ==
    LET a == After(b, log, Len(log))
    IN  /\ Synced(b, e, t, log) /\ t # <<>> /\ Between(e, t)
        /\ Placed(f, log, At(a))
        /\ f2 = f \cup {At(a) + k : k \in {j \in 0 .. Literals : Bit(e.ent, j)}}

LEMMA LastKeeps ==
  ASSUME NEW b \in Bits, InitBits < b,
         NEW e, NEW t, NEW log, NEW f, NEW f2, LastCode(b, e, t, log, f, f2)
  PROVE  LET w == Past(e)
             bytes == w.bytes_out + (w.outbits + ByteBits - 1) \div ByteBits
         IN  /\ \E log2 : Complete(b, t, log2, f2, bytes)
             /\ EncType(b, w) /\ Len(t) <= w.rsize
             /\ w.outbits <= (OBufSiz + OutSpare) * ByteBits
<1> DEFINE K == Len(log)  a == After(b, log, K)  d == K + 1 - a.m
           w == Past(e)  s == Done(log, K)
           bytes == w.bytes_out + (w.outbits + ByteBits - 1) \div ByteBits
           r == [code |-> e.ent, n |-> a.n, from |-> a.from, q |-> a.q, m |-> a.m, end |-> Len(t)]
           log2 == Append(log, r)
<1>a. /\ Synced(b, e, t, log) /\ t # <<>> /\ Between(e, t)
      /\ Placed(f, log, At(a))
      /\ f2 = f \cup {At(a) + k : k \in {j \in 0 .. Literals : Bit(e.ent, j)}}
  BY DEF LastCode
<1>1. /\ Log(b, t, log) /\ EncType(b, e) /\ WidthOf(b, a) /\ Counting(b, e, a)
      /\ Aligned(e, a)
      /\ Pending(e, t, log, a) /\ K \in Nat /\ t \in Seq(Byte) /\ Len(t) \in Nat
      /\ log \in Seq(Entry)
  BY <1>a, SyncedParts
<1>2. /\ a.n \in InitBits .. b /\ a.n \in Nat \ {0} /\ a.n \in 0 .. Literals
      /\ a.m \in Nat \ {0} /\ a.q \in Nat /\ a.from \in Nat /\ a.from % ByteBits = 0
      /\ At(a) \in Nat /\ At(a) + a.n \in Nat /\ At(a) = a.from + a.n * a.q
  BY <1>1, WidthFields
<1>3. s \in Nat /\ s < Len(t)
  <2>1. s \in Nat
    BY <1>1, LogEnds, K \in 0 .. K
  <2> QED BY <2>1, <1>a, <1>1 DEF Pending
<1>4. /\ Known(a.m, e.ent) /\ Denotes(t, log, d, e.ent, s, Len(t))
      /\ (e.ent \in Byte \/ e.ent \in FIRST .. e.free_ent - 1)
  BY <1>a, <1>1 DEF Pending
<1>5. e \in EncRecord(b, e.htab) /\ e.outbits \in Nat /\ e.bytes_out \in Nat /\ e.rsize \in Nat
      /\ e.n_bits \in InitBits .. b /\ e.n_bits \in Nat \ {0} /\ ChunkLimit \in Nat
      /\ e.stcode \in BOOLEAN /\ e.free_ent \in Int /\ e.extcode \in Int
  <2>1. e.n_bits \in InitBits .. b /\ e.outbits \in Nat /\ e.bytes_out \in Nat /\ e.rsize \in Nat
        /\ e.stcode \in BOOLEAN /\ e.free_ent \in FIRST .. MAXCODE(b) /\ e.extcode \in Int
    BY <1>1, EncFields
  <2>2. \A x \in FIRST .. MAXCODE(b) : x \in Int
    OBVIOUS
  <2> QED BY <2>1, <2>2, <1>1, Space DEF EncType
<1>6. e.ent # CLEAR /\ e.ent \in Nat
  <2> HIDE DEF a
  <2> QED BY <1>2, <1>4, NotClear
<1> HIDE DEF a
<1>7. e.ent < MAXCODE(a.n)
  <2>1. CASE e.ent \in Byte
    <3>1. 2 * Literals <= MAXCODE(a.n) /\ MAXCODE(a.n) \in Nat
      BY <1>2, FirstWidth
    <3> QED BY <2>1, <3>1, Constants DEF Byte
  <2>2. CASE e.ent \in FIRST .. e.free_ent - 1
    <3>1. e.ent >= FIRST
      BY <2>2, Constants
    <3>2. e.stcode => e.free_ent < e.extcode
      BY <3>1, <1>1 DEF Counting
    <3>3. e.n_bits = a.n
      BY <3>2, <1>1, NotGrown
    <3>4. e.ent < MAXCODE(e.n_bits)
      BY <2>2, <3>2, <1>1, CodeFits
    <3> QED BY <3>3, <3>4
  <2> QED BY <2>1, <2>2, <1>4
<1>8. r \in Entry /\ r.code = e.ent /\ r.n = a.n /\ r.from = a.from /\ r.q = a.q /\ r.m = a.m
       /\ r.end = Len(t) /\ At(r) = At(a)
  BY <1>1, <1>2, <1>6 DEF Entry, At
<1> HIDE DEF r
<1>9. Follows(b, t, log, r)
  <2>1. r.end \in s + 1 .. Len(t)
    BY <1>1, <1>3, <1>8
  <2>2. Known(r.m, r.code) /\ r.code # CLEAR /\ r.code < MAXCODE(r.n)
    BY <1>4, <1>6, <1>7, <1>8
  <2>3. Denotes(t, log, K + 1 - r.m, r.code, s, r.end)
    BY <1>4, <1>8
  <2> QED BY <2>1, <2>2, <2>3, <1>8 DEF Follows, a
<1>10. Log(b, t, log2)
  BY <1>1, <1>9, Appended
<1>11. /\ Len(log2) = K + 1 /\ log2[K + 1] = r /\ Done(log2, K + 1) = Len(t) /\ log2 # <<>>
  BY <1>1, <1>8 DEF Done
<1>12. Placed(f2, log2, At(a) + a.n)
  <2>1. r.n \in 0 .. Literals /\ r.code < MAXCODE(r.n) /\ Placed(f, log, At(r))
    BY <1>a, <1>2, <1>7, <1>8
  <2>2. f2 = f \cup {At(r) + k : k \in {j \in 0 .. Literals : Bit(r.code, j)}}
    BY <1>a, <1>8
  <2>3. Placed(f2, Append(log, r), At(r) + r.n)
    BY <2>1, <2>2, <1>1, <1>8, PlacedNext
  <2> QED BY <2>3, <1>8
<1> HIDE DEF log2
<1>13. FileEnd(log2) = At(a) + a.n
  BY <1>8, <1>11 DEF FileEnd
<1>14. /\ w \in EncRecord(b, e.htab) /\ w.outbits = e.outbits + e.n_bits
       /\ w.rsize = e.rsize /\ w.bytes_out = e.bytes_out /\ w.free_ent = e.free_ent
       /\ w.htab = e.htab
  BY <1>5, EncPast
<1> HIDE DEF w
<1>15. EncType(b, w)
  BY <1>1, <1>14 DEF EncType
<1>16. Len(t) <= w.rsize /\ w.outbits <= (OBufSiz + OutSpare) * ByteBits
  <2>1. Len(t) <= e.rsize /\ e.outbits <= ChunkLimit + e.n_bits
    BY <1>a DEF Between
  <2> DEFINE n == e.n_bits  N == e.n_bits * ByteBits  Z == (OBufSiz + OutSpare) * ByteBits  o == e.outbits
  <2>2. ChunkLimit + (n + n + N) <= Z /\ N \in Nat \ {0} /\ Z \in Int
    <3>1. ChunkLimit + (n + n + N) <= Z /\ N \in Nat \ {0}
      <4> HIDE DEF Z
      <4> QED BY <1>5, Space DEF Z
    <3>2. Z \in Int
      BY Constants
    <3> QED BY <3>1, <3>2
  <2>3. n \in Nat /\ o \in Nat /\ o <= ChunkLimit + n
    BY <1>5, <2>1
  <2> HIDE DEF n, N, Z, o
  <2>4. o + n <= Z
    BY <2>2, <2>3, <1>5
  <2> QED BY <2>1, <2>4, <1>14 DEF o, n, Z
<1> DEFINE y == e.bytes_out  o == e.outbits + e.n_bits
<1>17. bytes \in Nat /\ bytes * ByteBits \in y * ByteBits + o .. y * ByteBits + o + ByteBits - 1
  <2>1. y \in Nat /\ o \in Nat /\ bytes = y + (o + ByteBits - 1) \div ByteBits
    BY <1>5, <1>14
  <2> HIDE DEF y, o, bytes
  <2> QED BY <2>1, WholeBytes
<1>18. y * ByteBits + o = At(a) + e.n_bits
  <2>1. y * ByteBits + e.outbits = At(a)
    BY <1>1 DEF Aligned
  <2> DEFINE z == y * ByteBits
  <2>2. z \in Int
    BY <1>5, Constants
  <2> HIDE DEF z
  <2>3. z + (e.outbits + e.n_bits) = (z + e.outbits) + e.n_bits
    BY <2>2, <1>5
  <2> QED BY <2>1, <2>3 DEF z
<1> HIDE DEF y, o, bytes
<1>19. bytes * ByteBits \in FileEnd(log2) .. FileEnd(log2) + ByteBits - 1
  <2>1. CASE e.n_bits = a.n
    BY <2>1, <1>13, <1>17, <1>18
  <2>2. CASE e.n_bits # a.n
    <3>1. e.n_bits + 1 = a.n /\ a.q = 0
      BY <2>2, <1>1 DEF Aligned, Grown
    <3>2. At(a) = a.from /\ At(a) \in Nat
      BY <3>1, <1>2
    <3>3. e.n_bits % ByteBits # 0
      <4>1. b \in Nat
        BY FirstWidth
      <4>2. e.n_bits \in InitBits .. b - 1
        BY <4>1, <3>1, <1>2, <1>5, Constants
      <4> QED BY <4>2, PackingAssumption
    <3> DEFINE from == a.from  n == e.n_bits
    <3>4. from \in Nat /\ n \in Nat /\ from % ByteBits = 0 /\ n % ByteBits # 0
          /\ bytes * ByteBits \in from + n .. from + n + ByteBits - 1
      BY <3>2, <3>3, <1>2, <1>5, <1>17, <1>18
    <3> HIDE DEF from, n
    <3>5. bytes * ByteBits \in from + n + 1 .. from + n + ByteBits
      BY <3>4, <1>17, LastByte
    <3> DEFINE B == ByteBits  x == bytes * B
    <3>6. FileEnd(log2) = from + n + 1 /\ B \in Nat /\ x \in from + n + 1 .. from + n + B
      BY <3>1, <3>2, <3>4, <3>5, <1>13, Constants DEF from, n
    <3> HIDE DEF x, B
    <3>7. x \in FileEnd(log2) .. FileEnd(log2) + B - 1
      BY <3>4, <3>6
    <3> QED BY <3>7 DEF x, B
  <2> QED BY <2>1, <2>2
<1>20. Placed(f2, log2, FileEnd(log2)) /\ Done(log2, Len(log2)) = Len(t)
       /\ log2[Len(log2)].code # CLEAR
  BY <1>6, <1>8, <1>11, <1>12, <1>13
<1>21. Complete(b, t, log2, f2, bytes)
  BY <1>10, <1>17, <1>19, <1>20 DEF Complete
<1> QED BY <1>15, <1>16, <1>21 DEF w, bytes

LEMMA EndOfInputKeeps ==
  ASSUME Modes, Static, NEW log, Writing(log), EndOfInput
  PROVE  \E log2 : Decompressing' /\ Reading(log2)'
<1> DEFINE b == maxbits  a == After(b, log, Len(log))
<1>0. b \in Bits /\ InitBits < b
  BY Wider
<1>1. /\ pc = "read" /\ pc' = "header"
      /\ IF text = <<>> THEN UNCHANGED <<enc, file>>
         ELSE enc' = Past(enc) /\ file' = Written(enc, enc.ent)
      /\ UNCHANGED <<maxbits, block_mode, text, dec, out>>
  BY DEF EndOfInput
<1>2. /\ Synced(b, enc, text, log) /\ Placed(file, log, At(a))
      /\ Between(enc, text) /\ Len(text) = enc.rsize /\ dec = DecInit /\ out = <<>>
  BY <1>1 DEF Writing
<1>3. /\ EncType(b, enc) /\ Aligned(enc, a) /\ Len(text) \in Nat /\ Log(b, text, log)
  BY <1>0, <1>2, SyncedParts
<1> HIDE DEF a
<1>4. CASE text = <<>>
  <2>1. log = <<>>
    BY <1>0, <1>2, <1>4, Untold
  <2>2. a.n = InitBits /\ a.from = HeaderBits /\ a.q = 0
    BY <2>1, AfterFields DEF a
  <2>3. At(a) = HeaderBits
    <3>1. HeaderBits \in Nat /\ InitBits * 0 = 0
      BY Constants
    <3> QED BY <3>1, <2>2 DEF At
  <2>4. FileEnd(log) = HeaderBits /\ Done(log, Len(log)) = 0 /\ Len(text) = 0
    BY <2>1, <1>4 DEF FileEnd, Done
  <2>5. FileBytes \in Nat /\ FileBytes * ByteBits \in HeaderBits .. HeaderBits + ByteBits - 1
    <3> DEFINE y == enc.bytes_out  o == enc.outbits
    <3>1. y \in Nat /\ o \in Nat /\ y * ByteBits + o = HeaderBits
          /\ FileBytes = y + (o + ByteBits - 1) \div ByteBits
      <4>1. y \in Nat /\ o \in Nat
        BY <1>3, EncFields
      <4> QED BY <4>1, <1>3, <2>3 DEF Aligned, FileBytes
    <3> HIDE DEF y, o
    <3> QED BY <3>1, WholeBytes
  <2>6. Complete(b, text, log, file, FileBytes)
    BY <2>1, <2>3, <2>4, <2>5, <1>2, <1>3 DEF Complete
  <2>7. enc.outbits <= (OBufSiz + OutSpare) * ByteBits
    <3>1. enc.outbits <= ChunkLimit + enc.n_bits
      BY <1>2 DEF Between
    <3> DEFINE n == enc.n_bits  N == n * ByteBits  Z == (OBufSiz + OutSpare) * ByteBits  o == enc.outbits
    <3>2. n \in InitBits .. b /\ o \in Nat
      BY <1>3, EncFields
    <3>3. ChunkLimit + (n + n + N) <= Z /\ N \in Nat \ {0} /\ n \in Nat /\ ChunkLimit \in Nat
      <4> HIDE DEF Z, n
      <4> QED BY <3>2, <1>0, Space DEF Z
    <3>4. Z \in Int /\ o <= ChunkLimit + n
      BY <3>1, Constants
    <3> HIDE DEF n, N, Z, o
    <3>5. o <= Z
      BY <3>2, <3>3, <3>4
    <3> QED BY <3>5 DEF o, Z
  <2>8. enc' = enc /\ file' = file /\ FileBytes' = FileBytes
    BY <1>1, <1>4 DEF FileBytes
  <2>9. Complete(maxbits, text, log, file, FileBytes)' /\ EncType(maxbits, enc)'
        /\ (Len(text) <= enc.rsize)' /\ (enc.outbits <= (OBufSiz + OutSpare) * ByteBits)'
    BY <2>6, <2>7, <2>8, <1>1, <1>2, <1>3
  <2>10. Decompressing' /\ Reading(log)'
    BY <2>9, <1>1, <1>2, StartReading
  <2> QED BY <2>10
<1>5. CASE text # <<>>
  <2> DEFINE w == Past(enc)  f2 == Written(enc, enc.ent)
             bytes == w.bytes_out + (w.outbits + ByteBits - 1) \div ByteBits
  <2>1. enc' = w /\ file' = f2 /\ FileBytes' = bytes
    BY <1>1, <1>5 DEF FileBytes
  <2>2. f2 = file \cup {At(a) + k : k \in {j \in 0 .. Literals : Bit(enc.ent, j)}}
    <3>1. enc.bytes_out * ByteBits + enc.outbits = At(a)
      BY <1>3 DEF Aligned
    <3> QED BY <3>1 DEF Written
  <2> HIDE DEF f2
  <2>3. LastCode(b, enc, text, log, file, f2)
    BY <2>2, <1>2, <1>5 DEF LastCode, a
  <2>4. /\ \E log2 : Complete(b, text, log2, f2, bytes)
        /\ EncType(b, w) /\ Len(text) <= w.rsize
        /\ w.outbits <= (OBufSiz + OutSpare) * ByteBits
    BY <2>3, <1>0, LastKeeps
  <2> HIDE DEF w, bytes
  <2>5. PICK log2 : Complete(b, text, log2, f2, bytes)
    BY <2>4
  <2>6. Complete(maxbits, text, log2, file, FileBytes)' /\ EncType(maxbits, enc)'
        /\ (Len(text) <= enc.rsize)' /\ (enc.outbits <= (OBufSiz + OutSpare) * ByteBits)'
    BY <2>1, <2>4, <2>5, <1>1
  <2>7. Decompressing' /\ Reading(log2)'
    BY <2>6, <1>1, <1>2, StartReading
  <2> QED BY <2>7
<1> QED BY <1>4, <1>5


(***************************************************************************)
(* The steps of decompress, on the record of its variables.                *)
(***************************************************************************)
LEMMA DecFields ==
  ASSUME NEW b, NEW d, DecType(b, d)
  PROVE  /\ d.insize \in Nat /\ d.base \in Nat /\ d.rsize \in Nat /\ d.posbits \in Nat
         /\ d.inbits \in Int /\ d.n_bits \in InitBits .. b /\ d.maxcode \in Nat
         /\ d.free_ent \in CLEAR .. MAXCODE(b) /\ d.oldcode \in Nat \cup {-1}
         /\ d.finchar \in Byte
BY DEF DecType

LEMMA DecWidth ==
  ASSUME NEW b \in Bits, NEW d, DecType(b, d)
  PROVE  /\ d.n_bits \in Nat \ {0} /\ d.n_bits * ByteBits \in Nat \ {0}
         /\ d.free_ent \in Int /\ d.maxcode \in Int
<1>1. d.n_bits \in InitBits .. b /\ d.maxcode \in Nat /\ d.free_ent \in CLEAR .. MAXCODE(b)
  BY DecFields
<1>2. \A x \in CLEAR .. MAXCODE(b) : x \in Int
  OBVIOUS
<1> QED BY <1>1, <1>2, Space

\* A step that only moves the buffer.
LEMMA TracksMoved ==
  ASSUME NEW b, NEW d, NEW t, NEW log, NEW j, NEW out_, Tracks(b, d, t, log, j, out_),
         NEW w, DecType(b, w), w.free_ent = d.free_ent, w.maxcode = d.maxcode,
         w.n_bits = d.n_bits, w.oldcode = d.oldcode, w.finchar = d.finchar, w.tab = d.tab,
         w.base * ByteBits + w.posbits = d.base * ByteBits + d.posbits
  PROVE  Tracks(b, w, t, log, j, out_)
<1> DEFINE a == After(b, log, j)
<1>1. InStep(b, d, log, j, a) /\ Entries(d, t, log, j) /\ Decoded(t, log, j, out_)
  BY DEF Tracks
<1> HIDE DEF a
<1>2. InStep(b, w, log, j, a)
  BY <1>1 DEF InStep
<1>3. Entries(w, t, log, j)
  BY <1>1 DEF Entries
<1> QED BY <1>1, <1>2, <1>3 DEF Tracks, a

\* A read: the bytes it adds are in the file, and none are left if it adds none.
LEMMA ReadTaken ==
  ASSUME NEW size \in Nat, NEW have \in Nat, have <= size
  PROVE  LET n == Lower(IBufSiz, size - have)
         IN  /\ n \in Nat /\ n <= IBufSiz /\ have + n <= size
             /\ n = 0 => have = size
BY Constants DEF Lower

LEMMA HeaderRead ==
  ASSUME NEW b \in Bits, NEW d, NEW t, NEW log, NEW out_, Tracks(b, d, t, log, 0, out_),
         NEW bytes \in Nat, InHeader(d, bytes), d.insize < 3, bytes >= 3,
         NEW n, n = Lower(IBufSiz, bytes - (d.base + d.insize))
  PROVE  LET w == [d EXCEPT !.rsize = n, !.insize = @ + n]
         IN  Tracks(b, w, t, log, 0, out_) /\ InHeader(w, bytes)
<1> DEFINE x == d.insize + n  w == [d EXCEPT !.rsize = n, !.insize = x]
<1>1. DecType(b, d) /\ d.base = 0 /\ d.insize \in Nat /\ d.insize < 3 + IBufSiz /\ d.insize <= bytes
      /\ d.posbits = HeaderBits
  BY DecFields DEF Tracks, InHeader
<1>2. n \in Nat /\ n <= IBufSiz /\ d.insize + n <= bytes /\ (n = 0 => d.insize = bytes)
  <2> DEFINE h == d.base + d.insize
  <2>1. h = d.insize /\ h \in Nat /\ h <= bytes /\ n = Lower(IBufSiz, bytes - h)
    BY <1>1
  <2> HIDE DEF h
  <2> QED BY <2>1, ReadTaken
<1>3. x \in Nat /\ x < 3 + IBufSiz /\ x <= bytes /\ (x >= 3 => n > 0)
  BY <1>1, <1>2, Constants
<1> HIDE DEF x
<1>4. DecType(b, w) /\ w.insize = x /\ w.rsize = n /\ w.base = d.base /\ w.posbits = d.posbits
      /\ w.free_ent = d.free_ent /\ w.maxcode = d.maxcode
      /\ w.n_bits = d.n_bits /\ w.oldcode = d.oldcode /\ w.finchar = d.finchar /\ w.tab = d.tab
  BY <1>1, <1>2, <1>3 DEF DecType
<1> HIDE DEF w
<1>5. Tracks(b, w, t, log, 0, out_)
  BY <1>4, TracksMoved
<1>6. InHeader(w, bytes)
  BY <1>1, <1>3, <1>4 DEF InHeader
<1> QED BY <1>5, <1>6 DEF w, x

\* The header has been read: the codes begin behind it.
LEMMA HeaderDone ==
  ASSUME NEW b \in Bits, InitBits < b, NEW d, NEW log, DecType(b, d),
         NEW bytes \in Nat, InHeader(d, bytes), ~(d.insize < 3)
  PROVE  Buffered(d, bytes) /\ AtGroup(d, After(b, log, 0))
<1>1. d.base = 0 /\ d.insize \in Nat /\ d.insize < 3 + IBufSiz /\ d.insize <= bytes
      /\ d.posbits = HeaderBits /\ d.rsize \in Nat /\ d.rsize > 0
  BY DecFields DEF InHeader
<1>2. InSpare >= 2
  <2>1. InSpare >= b /\ b \in InitBits .. Literals
    BY BufferAssumption, FirstWidth
  <2> QED BY <2>1, Constants
<1>3. d.insize <= IBufSiz + InSpare
  BY <1>1, <1>2, Constants
<1>4. HeaderBits <= d.insize * ByteBits
  <2> DEFINE B == ByteBits  i == d.insize
  <2>1. i \in Nat /\ i >= 3 /\ B \in Nat \ {0} /\ HeaderBits = B * 3 /\ i * B = B * i
    BY <1>1, Constants DEF HeaderBits
  <2> HIDE DEF B, i
  <2>2. B * 3 <= B * i
    BY <2>1, Multiples
  <2> QED BY <2>1, <2>2 DEF B, i
<1>5. HeaderBits % ByteBits = 0 /\ 0 % ByteBits = 0
  <2> DEFINE B == ByteBits
  <2>1. B \in Nat \ {0} /\ HeaderBits = B * 3 + 0 /\ 0 = B * 0 + 0
    BY Constants DEF HeaderBits
  <2> HIDE DEF B
  <2>2. (B * 3 + 0) % B = 0 /\ (B * 0 + 0) % B = 0
    BY <2>1, Quotient, 0 \in 0 .. B - 1
  <2> QED BY <2>1, <2>2 DEF B
<1>6. After(b, log, 0).q = 0
  BY AfterFields
<1> QED BY <1>1, <1>3, <1>4, <1>5, <1>6 DEF Buffered, AtGroup

\* resetbuf.
Reset(d, bytes) ==
    LET o == d.posbits \div ByteBits
        m == [d EXCEPT !.base = @ + o, !.insize = @ - o, !.posbits = 0]
        n == Lower(IBufSiz, bytes - (m.base + m.insize))
        r == IF m.insize \in 0 .. InSpare - 1 THEN [m EXCEPT !.rsize = n, !.insize = @ + n] ELSE m
    IN  [r EXCEPT !.inbits =
            IF r.rsize > 0 THEN (r.insize - (r.insize % r.n_bits)) * ByteBits
            ELSE r.insize * ByteBits - (r.n_bits - 1)]

LEMMA ResetKeeps ==
  ASSUME NEW b \in Bits, NEW d, NEW t, NEW log, NEW j, NEW out_, Tracks(b, d, t, log, j, out_),
         WidthOf(b, After(b, log, j)),
         NEW bytes \in Nat, Buffered(d, bytes), AtGroup(d, After(b, log, j))
  PROVE  LET w == Reset(d, bytes)
         IN  /\ Tracks(b, w, t, log, j, out_) /\ Buffered(w, bytes)
             /\ InCodes(w) /\ Grouped(w, After(b, log, j))
<1> DEFINE a == After(b, log, j)  B == ByteBits
           o == d.posbits \div B  base == d.base + o  ins == d.insize - o
           m == [d EXCEPT !.base = base, !.insize = ins, !.posbits = 0]
           n == Lower(IBufSiz, bytes - (m.base + m.insize))
           r == IF m.insize \in 0 .. InSpare - 1 THEN [m EXCEPT !.rsize = n, !.insize = @ + n] ELSE m
           x == IF r.rsize > 0 THEN (r.insize - (r.insize % r.n_bits)) * B
                ELSE r.insize * B - (r.n_bits - 1)
           w == [r EXCEPT !.inbits = x]
<1>1. DecType(b, d)
  BY DEF Tracks
<1>2. /\ d.insize \in Nat /\ d.base \in Nat /\ d.rsize \in Nat /\ d.posbits \in Nat
      /\ d.n_bits \in Nat \ {0} /\ B \in Nat \ {0}
  BY <1>1, DecFields, DecWidth, Constants
<1>3. /\ d.base + d.insize <= bytes /\ d.insize <= IBufSiz + InSpare
      /\ d.posbits <= d.insize * B /\ (d.rsize = 0 => d.base + d.insize = bytes)
      /\ d.posbits % B = 0
  BY DEF Buffered, AtGroup
<1>4. d.posbits = B * o /\ o \in Nat /\ o <= d.insize
  <2> DEFINE p == d.posbits  i == d.insize
  <2>1. p \in Nat /\ i \in Nat /\ p <= i * B /\ p % B = 0 /\ B \in Nat \ {0}
    BY <1>2, <1>3
  <2> HIDE DEF p, i, B
  <2>2. p = B * (p \div B) + (p % B) /\ p \div B \in Int
    BY <2>1, Divided
  <2> DEFINE q == p \div B  z == B * q
  <2>3. p = z + 0 /\ q \in Int /\ z \in Int
    BY <2>1, <2>2
  <2>4. z = p
    <3> HIDE DEF z
    <3> QED BY <2>3
  <2> HIDE DEF q
  <2>5. B * q <= B * i
    BY <2>1, <2>3, <2>4
  <2>6. q <= i
    <3>1. SUFFICES ASSUME i < q PROVE FALSE
      BY <2>1, <2>3
    <3>2. B * i + B <= B * q
      <4>1. i <= q - 1
        BY <3>1, <2>1, <2>3
      <4>2. B * i <= B * (q - 1) /\ B * (q - 1) = B * q - B
        BY <4>1, <2>1, <2>3, Multiples
      <4> QED BY <4>2, <2>1, <2>3
    <3> DEFINE u == B * i  v == B * q
    <3>3. u \in Int /\ v \in Int /\ v <= u /\ u + B <= v
      BY <3>2, <2>1, <2>3, <2>5
    <3> HIDE DEF u, v
    <3> QED BY <3>3, <2>1
  <2>7. q >= 0
    <3>1. SUFFICES ASSUME q < 0 PROVE FALSE
      BY <2>3
    <3>2. B * q <= B * (-1)
      <4>1. q <= -1 /\ -1 \in Int
        BY <3>1, <2>3
      <4> QED BY <4>1, <2>1, <2>3, Multiples
    <3> DEFINE v == B * q
    <3>3. v \in Int /\ v <= -B /\ v = p
      BY <3>2, <2>1, <2>3, <2>4
    <3> HIDE DEF v
    <3> QED BY <3>3, <2>1
  <2> QED BY <2>3, <2>4, <2>6, <2>7 DEF p, q, i
<1> HIDE DEF o
<1>5. base \in Nat /\ ins \in Nat /\ base + ins = d.base + d.insize /\ ins <= d.insize
  BY <1>2, <1>4
<1>6. base * B + 0 = d.base * B + d.posbits
  <2> DEFINE y == d.base
  <2>1. y \in Nat
    BY <1>2
  <2> HIDE DEF y, B
  <2>2. (y + o) * B + 0 = y * B + B * o
    BY <2>1, <1>2, <1>4
  <2> QED BY <2>2, <1>4 DEF y
<1> HIDE DEF base, ins
<1>7. /\ DecType(b, m) /\ m.base = base /\ m.insize = ins /\ m.posbits = 0
      /\ m.rsize = d.rsize /\ m.free_ent = d.free_ent /\ m.maxcode = d.maxcode
      /\ m.n_bits = d.n_bits /\ m.oldcode = d.oldcode /\ m.finchar = d.finchar /\ m.tab = d.tab
  BY <1>1, <1>5 DEF DecType
<1> HIDE DEF m
<1>8. n \in Nat /\ n <= IBufSiz /\ base + ins + n <= bytes /\ (n = 0 => base + ins = bytes)
  <2> DEFINE h == base + ins
  <2>1. h \in Nat /\ h <= bytes /\ n = Lower(IBufSiz, bytes - h)
    BY <1>3, <1>5, <1>7
  <2> HIDE DEF h
  <2>2. n \in Nat /\ n <= IBufSiz /\ h + n <= bytes /\ (n = 0 => h = bytes)
    BY <2>1, ReadTaken
  <2> QED BY <2>2 DEF h
<1> HIDE DEF n
<1>9. /\ DecType(b, r) /\ r.base = base /\ r.posbits = 0
      /\ r.free_ent = d.free_ent /\ r.maxcode = d.maxcode
      /\ r.n_bits = d.n_bits /\ r.oldcode = d.oldcode /\ r.finchar = d.finchar /\ r.tab = d.tab
      /\ r.insize \in Nat /\ r.rsize \in Nat
      /\ base + r.insize <= bytes /\ r.insize <= IBufSiz + InSpare
      /\ (r.rsize = 0 => base + r.insize = bytes)
  <2>1. CASE m.insize \in 0 .. InSpare - 1
    <3> DEFINE i == ins + n  q == [m EXCEPT !.rsize = n, !.insize = i]
    <3>1. r = q
      BY <2>1, <1>7
    <3>2. i \in Nat /\ base + i <= bytes /\ i <= IBufSiz + InSpare /\ (n = 0 => base + i = bytes)
      BY <2>1, <1>5, <1>7, <1>8, Constants
    <3> HIDE DEF i, r
    <3>3. /\ DecType(b, q) /\ q.base = m.base /\ q.posbits = m.posbits /\ q.insize = i /\ q.rsize = n
          /\ q.free_ent = m.free_ent /\ q.maxcode = m.maxcode
          /\ q.n_bits = m.n_bits /\ q.oldcode = m.oldcode /\ q.finchar = m.finchar /\ q.tab = m.tab
      BY <3>2, <1>7, <1>8 DEF DecType
    <3> HIDE DEF q
    <3> QED BY <3>1, <3>2, <3>3, <1>7, <1>8
  <2>2. CASE m.insize \notin 0 .. InSpare - 1
    <3>1. r = m
      BY <2>2
    <3> HIDE DEF r
    <3> QED BY <3>1, <1>2, <1>3, <1>5, <1>7, Constants
  <2> QED BY <2>1, <2>2
<1> HIDE DEF r
<1> DEFINE i == r.insize  k == r.n_bits
<1>10. /\ x \in Int /\ (r.rsize > 0 => 0 <= x)
  <2>1. i \in Nat /\ k \in Nat \ {0} /\ B \in Nat \ {0} /\ r.rsize \in Nat
    BY <1>2, <1>9
  <2>2. i % k \in 0 .. k - 1 /\ i - (i % k) \in Nat
    <3> HIDE DEF i, k
    <3>1. i % k \in 0 .. k - 1 /\ i % k <= i
      BY <2>1
    <3> QED BY <3>1, <2>1
  <2>3. x = IF r.rsize > 0 THEN (i - (i % k)) * B ELSE i * B - (k - 1)
    OBVIOUS
  <2>4. (i - (i % k)) * B \in Nat /\ i * B \in Nat
    <3> DEFINE y == i - (i % k)
    <3>1. y \in Nat
      BY <2>2
    <3> HIDE DEF y, i, B
    <3>2. y * B \in Nat /\ i * B \in Nat
      BY <3>1, <2>1
    <3> QED BY <3>2 DEF y
  <2> DEFINE y1 == (i - (i % k)) * B  y2 == i * B
  <2>5. y1 \in Nat /\ y2 \in Nat /\ x = IF r.rsize > 0 THEN y1 ELSE y2 - (k - 1)
    BY <2>3, <2>4
  <2> HIDE DEF y1, y2, x, i, k
  <2> QED BY <2>1, <2>5
<1>11. /\ DecType(b, w) /\ w.base = base /\ w.posbits = 0 /\ w.insize = i /\ w.rsize = r.rsize
       /\ w.free_ent = d.free_ent /\ w.maxcode = d.maxcode /\ w.inbits = x
       /\ w.n_bits = d.n_bits /\ w.oldcode = d.oldcode /\ w.finchar = d.finchar /\ w.tab = d.tab
  <2>1. x \in Int
    BY <1>10
  <2> HIDE DEF x
  <2>2. /\ DecType(b, w) /\ w.base = r.base /\ w.posbits = r.posbits /\ w.insize = r.insize
        /\ w.rsize = r.rsize
        /\ w.free_ent = r.free_ent /\ w.maxcode = r.maxcode /\ w.inbits = x
        /\ w.n_bits = r.n_bits /\ w.oldcode = r.oldcode /\ w.finchar = r.finchar /\ w.tab = r.tab
    BY <1>9, <2>1 DEF DecType
  <2> HIDE DEF w
  <2> QED BY <2>2, <1>9
<1>12. InCodes(w)
  <2> HIDE DEF w
  <2>1. w.inbits = IF w.rsize > 0 THEN (w.insize - (w.insize % w.n_bits)) * ByteBits
                   ELSE w.insize * ByteBits - (w.n_bits - 1)
    BY <1>9, <1>11
  <2> HIDE DEF x
  <2> QED BY <2>1, <1>10, <1>11 DEF InCodes
<1> HIDE DEF w, x
<1>13. Tracks(b, w, t, log, j, out_)
  <2>1. w.base * ByteBits + w.posbits = d.base * ByteBits + d.posbits
    BY <1>6, <1>11
  <2> QED BY <2>1, <1>11, TracksMoved
<1>14. Buffered(w, bytes)
  <2>1. 0 <= i * ByteBits
    BY <1>2, <1>9
  <2> QED BY <2>1, <1>9, <1>11 DEF Buffered
<1>15. Grouped(w, a)
  <2>1. a.n \in Nat \ {0} /\ a.q \in Nat
    BY WidthFields
  <2>2. CASE d.n_bits = a.n
    <3>1. a.q % B = 0
      BY <2>2 DEF AtGroup
    <3> DEFINE q == a.q  nn == a.n
    <3>2. q = B * (q \div B) + (q % B) /\ q \div B \in Int
      <4>1. q \in Int
        BY <2>1
      <4> HIDE DEF q, B
      <4> QED BY <4>1, <1>2, Divided
    <3> DEFINE g == q \div B
    <3>3. q = B * g + 0 /\ g \in Int /\ q \in Int /\ nn \in Int
      BY <3>1, <3>2, <2>1
    <3> HIDE DEF g, q, nn, B
    <3>4. 0 + (nn * B) * g = nn * q
      <4>1. nn * q = nn * (B * g)
        BY <3>3, <1>2
      <4>2. \A u, v, z \in Int : 0 + (u * v) * z = u * (v * z)
        OBVIOUS
      <4> QED BY <4>1, <4>2, <3>3, <1>2
    <3>5. w.posbits + (w.n_bits * ByteBits) * g = IF w.n_bits = a.n THEN a.n * a.q ELSE 0
      BY <3>4, <2>2, <1>11 DEF B, nn, q
    <3> QED BY <3>5, <3>3 DEF Grouped
  <2>3. CASE d.n_bits # a.n
    <3>1. 0 + (d.n_bits * B) * 0 = 0
      <4>1. \A u, v \in Int : 0 + (u * v) * 0 = 0
        OBVIOUS
      <4> QED BY <4>1, <1>2
    <3>2. w.posbits + (w.n_bits * ByteBits) * 0 = IF w.n_bits = a.n THEN a.n * a.q ELSE 0
      BY <3>1, <2>3, <1>11
    <3> QED BY <3>2, 0 \in Int DEF Grouped
  <2> QED BY <2>2, <2>3
<1>16. Reset(d, bytes) = w
  BY DEF Reset, w, x, r, m, n, o, base, ins, B, i, k
<1> QED BY <1>12, <1>13, <1>14, <1>15, <1>16


(***************************************************************************)
(* The actions of decompress.                                              *)
(***************************************************************************)
LEMMA StillReading ==
  ASSUME NEW log, UNCHANGED <<maxbits, block_mode, text, enc, file>>, Reading(log),
         NEW j \in 0 .. Len(log), Tracks(maxbits, dec, text, log, j, out)',
         \/ pc' = "header" /\ j = 0 /\ InHeader(dec, FileBytes)'
         \/ pc' = "reset" /\ Buffered(dec, FileBytes)' /\ AtGroup(dec, After(maxbits, log, j))'
         \/ pc' = "codes" /\ Buffered(dec, FileBytes)' /\ InCodes(dec)'
                          /\ Grouped(dec, After(maxbits, log, j))'
         \/ pc' = "done" /\ Buffered(dec, FileBytes)' /\ j = Len(log)
  PROVE  Decompressing' /\ Reading(log)'
<1>1. Decompressing'
  BY DEF Decompressing
<1>2. FileBytes' = FileBytes
  BY DEF FileBytes
<1>3. (/\ Complete(maxbits, text, log, file, FileBytes)
       /\ EncType(maxbits, enc) /\ Len(text) <= enc.rsize
       /\ enc.outbits <= (OBufSiz + OutSpare) * ByteBits)'
  BY <1>2 DEF Reading
<1>4. (LET a == After(maxbits, log, j)
       IN  /\ Tracks(maxbits, dec, text, log, j, out)
           /\ pc = "header" => j = 0 /\ InHeader(dec, FileBytes)
           /\ pc # "header" => Buffered(dec, FileBytes)
           /\ pc = "reset" => AtGroup(dec, a)
           /\ pc = "codes" => InCodes(dec) /\ Grouped(dec, a)
           /\ pc = "done" => j = Len(log))'
  OBVIOUS
<1>5. (\E k \in 0 .. Len(log) :
         LET a == After(maxbits, log, k)
         IN  /\ Tracks(maxbits, dec, text, log, k, out)
             /\ pc = "header" => k = 0 /\ InHeader(dec, FileBytes)
             /\ pc # "header" => Buffered(dec, FileBytes)
             /\ pc = "reset" => AtGroup(dec, a)
             /\ pc = "codes" => InCodes(dec) /\ Grouped(dec, a)
             /\ pc = "done" => k = Len(log))'
  BY <1>4
<1> QED BY <1>1, <1>3, <1>5 DEF Reading

\* What the file and the place in it say, whichever action is next.
LEMMA ReadingParts ==
  ASSUME NEW b \in Bits, InitBits < b, NEW t, NEW log, NEW f, NEW bytes,
         Complete(b, t, log, f, bytes), NEW j \in 0 .. Len(log)
  PROVE  /\ Log(b, t, log) /\ log \in Seq(Entry) /\ t \in Seq(Byte)
         /\ Len(log) \in Nat /\ j \in Nat /\ bytes \in Nat
         /\ WidthOf(b, After(b, log, j))
         /\ FileEnd(log) \in Nat /\ HeaderBits <= FileEnd(log)
         /\ FileEnd(log) <= bytes * ByteBits /\ bytes * ByteBits < FileEnd(log) + ByteBits
<1>1. Log(b, t, log) /\ log \in Seq(Entry) /\ t \in Seq(Byte) /\ Len(log) \in Nat /\ bytes \in Nat
      /\ bytes * ByteBits \in FileEnd(log) .. FileEnd(log) + ByteBits - 1
  BY DEF Complete, Log
<1>2. j \in Nat /\ (j # 0 => j \in 1 .. Len(log))
  BY <1>1
<1>3. WidthOf(b, After(b, log, j))
  <2>1. j # 0 => log[j] \in Entry /\ WidthOf(b, log[j])
    BY <1>1, <1>2, LogFields
  <2> QED BY <2>1, <1>2, AfterWidth
<1>4. FileEnd(log) \in Nat /\ HeaderBits <= FileEnd(log)
  <2>1. CASE log = <<>>
    BY <2>1, Constants DEF FileEnd
  <2>2. CASE log # <<>>
    <3> DEFINE r == log[Len(log)]
    <3>1. Len(log) \in 1 .. Len(log)
      BY <1>1, <2>2
    <3>2. At(r) \in Nat /\ r.n \in Nat /\ At(r) + r.n \in Nat
      <4>1. WidthOf(b, r)
        BY <3>1, <1>1, LogFields
      <4> HIDE DEF r
      <4> QED BY <4>1, WidthFields
    <3>3. 1 \in 1 .. Len(log) /\ log[1].n \in Nat /\ log[1].from = HeaderBits /\ log[1].q = 0
      <4>1. 1 \in 1 .. Len(log)
        BY <3>1
      <4>2. log[1].from = After(b, log, 0).from /\ log[1].q = After(b, log, 0).q
        BY <4>1, <1>1 DEF Log, Shaped
      <4> QED BY <4>1, <4>2, <1>1, AfterFields, EntryFields
    <3>4. At(log[1]) = HeaderBits
      BY <3>3, Constants DEF At
    <3>5. FileEnd(log) = At(r) + r.n
      BY <2>2 DEF FileEnd
    <3>6. At(log[1]) + log[1].n <= FileEnd(log)
      BY <3>3 DEF Complete, Placed
    <3> QED BY <3>2, <3>3, <3>4, <3>5, <3>6, Constants
  <2> QED BY <2>1, <2>2
<1>5. bytes * ByteBits \in Int
  BY <1>1, Constants
<1> QED BY <1>1, <1>2, <1>3, <1>4, <1>5, Constants

LEMMA ReadHeaderKeeps ==
  ASSUME Modes, Static, NEW log, Reading(log), Decompressing, ReadHeader
  PROVE  Decompressing' /\ Reading(log)'
<1> DEFINE b == maxbits  bytes == FileBytes
<1>0. b \in Bits /\ InitBits < b
  BY Wider
<1>1. /\ pc = "header"
      /\ IF dec.insize < 3 THEN dec' = Read(dec) /\ pc' = pc
         ELSE dec' = dec /\ pc' = "reset"
      /\ UNCHANGED <<maxbits, block_mode, text, enc, file, out>>
  BY DEF ReadHeader
<1>2. Complete(b, text, log, file, bytes)
  BY DEF Reading
<1>3. Tracks(b, dec, text, log, 0, out) /\ InHeader(dec, bytes)
  BY <1>1 DEF Reading
<1>4. 0 \in 0 .. Len(log) /\ bytes \in Nat /\ HeaderBits <= bytes * ByteBits /\ FileBytes' = bytes
  <2>1. 0 \in 0 .. Len(log)
    BY <1>2 DEF Complete, Log
  <2>2. bytes \in Nat /\ FileEnd(log) \in Nat /\ HeaderBits <= FileEnd(log)
        /\ FileEnd(log) <= bytes * ByteBits /\ bytes * ByteBits \in Int
    BY <2>1, <1>0, <1>2, ReadingParts, Constants
  <2> QED BY <2>1, <2>2, <1>1, Constants DEF FileBytes
<1>5. CASE dec.insize < 3
  <2> DEFINE n == Lower(IBufSiz, bytes - (dec.base + dec.insize))
             w == [dec EXCEPT !.rsize = n, !.insize = @ + n]
  <2>1. dec' = w
    BY <1>1, <1>5 DEF Read
  <2>2. bytes >= 3
    <3> DEFINE B == ByteBits
    <3>1. B \in Nat \ {0} /\ bytes \in Nat /\ B * 3 <= B * bytes
      BY <1>4, Constants DEF HeaderBits
    <3> HIDE DEF B, bytes
    <3>2. bytes < 3 => B * bytes + B <= B * 3
      <4>1. 3 \in Int /\ bytes \in Int
        BY <3>1
      <4>2. bytes < 3 => bytes <= 2
        BY <4>1
      <4>3. bytes < 3 => B * bytes <= B * 2
        BY <4>1, <4>2, <3>1, Multiples
      <4>4. B * bytes \in Int
        BY <3>1
      <4> DEFINE u == B * bytes
      <4> HIDE DEF u
      <4>5. B * 2 + B = B * 3
        BY <3>1
      <4> QED BY <4>3, <4>4, <4>5, <3>1 DEF u
    <3> DEFINE u == B * bytes  v == B * 3
    <3>3. u \in Int /\ v \in Int /\ v <= u
      BY <3>1
    <3>4. bytes < 3 => u + B <= v
      BY <3>2
    <3> HIDE DEF u, v
    <3> QED BY <3>1, <3>3, <3>4
  <2> HIDE DEF bytes
  <2>3. Tracks(b, w, text, log, 0, out) /\ InHeader(w, bytes)
    BY <1>0, <1>3, <1>4, <1>5, <2>2, HeaderRead
  <2> HIDE DEF w
  <2>4. Tracks(b, dec, text, log, 0, out)' /\ InHeader(dec, FileBytes)' /\ pc' = "header"
    BY <2>1, <2>3, <1>1, <1>4, <1>5 DEF bytes
  <2> QED BY <2>4, <1>1, <1>4, StillReading
<1>6. CASE ~(dec.insize < 3)
  <2>1. DecType(b, dec)
    BY <1>3 DEF Tracks
  <2>2. Buffered(dec, bytes) /\ AtGroup(dec, After(b, log, 0))
    <3> HIDE DEF bytes
    <3> QED BY <2>1, <1>0, <1>3, <1>4, <1>6, HeaderDone
  <2>3. /\ Tracks(b, dec, text, log, 0, out)' /\ Buffered(dec, FileBytes)'
        /\ AtGroup(dec, After(maxbits, log, 0))' /\ pc' = "reset"
    BY <2>2, <1>1, <1>3, <1>4, <1>6
  <2> QED BY <2>3, <1>1, <1>4, StillReading
<1> QED BY <1>5, <1>6

LEMMA ResetBufKeeps ==
  ASSUME Modes, Static, NEW log, Reading(log), Decompressing, ResetBuf
  PROVE  Decompressing' /\ Reading(log)'
<1> DEFINE b == maxbits  bytes == FileBytes  w == Reset(dec, bytes)
<1>0. b \in Bits /\ InitBits < b
  BY Wider
<1>1. /\ pc = "reset" /\ pc' = "codes" /\ dec' = w
      /\ UNCHANGED <<maxbits, block_mode, text, enc, file, out>>
  BY DEF ResetBuf, Reset, Read
<1>2. Complete(b, text, log, file, bytes)
  BY DEF Reading
<1>3. PICK j \in 0 .. Len(log) :
         /\ Tracks(b, dec, text, log, j, out) /\ Buffered(dec, bytes)
         /\ AtGroup(dec, After(b, log, j))
  BY <1>1 DEF Reading
<1>4. WidthOf(b, After(b, log, j)) /\ bytes \in Nat /\ FileBytes' = bytes
  <2>1. WidthOf(b, After(b, log, j)) /\ bytes \in Nat
    BY <1>0, <1>2, ReadingParts
  <2> QED BY <2>1, <1>1 DEF FileBytes
<1>5. /\ Tracks(b, w, text, log, j, out) /\ Buffered(w, bytes)
      /\ InCodes(w) /\ Grouped(w, After(b, log, j))
  <2> HIDE DEF bytes
  <2> QED BY <1>0, <1>3, <1>4, ResetKeeps
<1> HIDE DEF w
<1>6. /\ Tracks(b, dec, text, log, j, out)' /\ Buffered(dec, FileBytes)'
      /\ InCodes(dec)' /\ Grouped(dec, After(maxbits, log, j))'
  BY <1>1, <1>4, <1>5
<1> QED BY <1>1, <1>6, StillReading


\* The next entry is where decompress reads, and in the file.
LEMMA EntryInside ==
  ASSUME NEW b \in Bits, InitBits < b, NEW t, NEW log, NEW f, NEW bytes,
         Complete(b, t, log, f, bytes), NEW j \in 0 .. Len(log), j # Len(log)
  PROVE  LET a == After(b, log, j)
             r == log[j + 1]
         IN  /\ j + 1 \in 1 .. Len(log) /\ r \in Entry
             /\ r.m = a.m /\ r.n = a.n /\ r.from = a.from /\ r.q = a.q
             /\ At(r) = At(a) /\ At(a) + a.n <= FileEnd(log)
             /\ \A k \in 0 .. a.n - 1 : Bit(r.code, k) <=> At(a) + k \in f
<1> DEFINE a == After(b, log, j)  r == log[j + 1]
<1>1. Log(b, t, log) /\ Len(log) \in Nat /\ log \in Seq(Entry)
  BY ReadingParts
<1>2. j + 1 \in 1 .. Len(log) /\ (j + 1) - 1 = j
  BY <1>1
<1>3. r \in Entry
  BY <1>1, <1>2
<1>4. r.m = a.m /\ r.n = a.n /\ r.from = a.from /\ r.q = a.q
  <2>1. LET p == log[j + 1]
            x == After(b, log, (j + 1) - 1)
        IN  p.m = x.m /\ p.n = x.n /\ p.from = x.from /\ p.q = x.q
    BY <1>1, <1>2 DEF Log, Shaped
  <2> QED BY <2>1, <1>2
<1>5. /\ At(r) + r.n <= FileEnd(log)
      /\ \A k \in 0 .. r.n - 1 : Bit(r.code, k) <=> At(r) + k \in f
  BY <1>2 DEF Complete, Placed
<1> HIDE DEF a, r
<1>6. At(r) = At(a)
  BY <1>4 DEF At
<1>7. At(a) + a.n <= FileEnd(log)
  BY <1>4, <1>5, <1>6
<1>8. \A k \in 0 .. a.n - 1 : Bit(r.code, k) <=> At(a) + k \in f
  BY <1>4, <1>5, <1>6
<1> QED BY <1>2, <1>3, <1>4, <1>6, <1>7, <1>8 DEF a, r

LEMMA AllRead ==
  ASSUME NEW b \in Bits, InitBits < b, NEW t, NEW log, NEW f, NEW bytes,
         Complete(b, t, log, f, bytes)
  PROVE  At(After(b, log, Len(log))) = FileEnd(log)
<1> DEFINE L == Len(log)  a == After(b, log, L)  r == log[L]
<1>1. log \in Seq(Entry) /\ L \in Nat /\ Log(b, t, log)
  BY DEF Complete, Log
<1>2. CASE log = <<>>
  <2>1. L = 0
    BY <1>2
  <2>2. a.n = InitBits /\ a.from = HeaderBits /\ a.q = 0
    BY <2>1, <1>1, AfterFields
  <2> HIDE DEF a
  <2>3. At(a) = HeaderBits
    <3>1. HeaderBits \in Nat /\ InitBits * 0 = 0
      BY Constants
    <3> QED BY <3>1, <2>2 DEF At
  <2> QED BY <2>3, <1>2 DEF FileEnd, a
<1>3. CASE log # <<>>
  <2>1. L # 0 /\ L \in 1 .. L /\ r.code # CLEAR
    BY <1>1, <1>3 DEF Complete
  <2>2. WidthOf(b, r)
    BY <2>1, <1>1, LogFields
  <2>3. \/ a.n = r.n + 1 /\ a.q = 0 /\ a.from = At(r) + r.n
        \/ a.n = r.n /\ a.q = r.q + 1 /\ a.from = r.from
    BY <2>1, <1>1, AfterFields
  <2> HIDE DEF a, r
  <2> DEFINE n == r.n  q == r.q  from == r.from
  <2>4. n \in Nat /\ q \in Nat /\ from \in Nat /\ At(r) = from + n * q /\ At(r) \in Nat
    BY <2>2, WidthFields
  <2>5. At(a) = At(r) + n
    <3>1. CASE a.n = r.n + 1 /\ a.q = 0 /\ a.from = At(r) + r.n
      <4>1. (n + 1) * 0 = 0
        BY <2>4
      <4> QED BY <4>1, <3>1, <2>4 DEF At
    <3>2. CASE a.n = r.n /\ a.q = r.q + 1 /\ a.from = r.from
      <4>1. At(a) = from + n * (q + 1)
        BY <3>2 DEF At
      <4> HIDE DEF n, q, from
      <4>2. from + n * (q + 1) = (from + n * q) + n
        BY <2>4
      <4> QED BY <4>1, <4>2, <2>4
    <3> QED BY <2>3, <3>1, <3>2
  <2>6. FileEnd(log) = At(r) + r.n
    BY <1>3 DEF FileEnd, r
  <2> QED BY <2>5, <2>6 DEF a
<1> QED BY <1>2, <1>3

\* The table never outgrows the width of the code that is read next.
LEMMA FreeFits ==
  ASSUME NEW b \in Bits, InitBits < b, Literals >= 2, NEW t, NEW log, Log(b, t, log),
         NEW j \in 0 .. Len(log), WidthOf(b, After(b, log, j))
  PROVE  DecFree(b, log, j) <= DecMax(b, After(b, log, j).n)
<1> DEFINE a == After(b, log, j)  n == a.n
<1>1. j \in Nat /\ (j # 0 => j \in 1 .. Len(log)) /\ log \in Seq(Entry)
  BY DEF Log
<1>2. /\ n \in InitBits .. b /\ (n < b => Literals + a.m <= MAXCODE(n)) /\ a.m \in Nat
      /\ MAXCODE(n) \in Nat /\ MAXCODE(b) \in Nat /\ 2 * Literals <= MAXCODE(n)
      /\ 2 * Literals <= MAXCODE(b)
  <2>1. n \in InitBits .. b /\ (n < b => Literals + a.m <= MAXCODE(n)) /\ a.m \in Nat
    BY WidthFields
  <2> HIDE DEF n
  <2>2. b \in InitBits .. b
    BY <2>1, FirstWidth, Constants
  <2> QED BY <2>1, <2>2, FirstWidth
<1>3. DecMax(b, n) \in Int /\ 2 * Literals - 1 <= DecMax(b, n)
      /\ (n = b => DecMax(b, n) = MAXCODE(b)) /\ (n # b => DecMax(b, n) = MAXCODE(n) - 1)
  <2> HIDE DEF n
  <2> QED BY <1>2, Constants DEF DecMax
<1>4. CASE j = 0 \/ log[j].code = CLEAR
  <2>1. DecFree(b, log, j) <= FIRST /\ DecFree(b, log, j) \in Int
    BY <1>4, Constants DEF DecFree, FIRST, CLEAR
  <2>2. FIRST <= 2 * Literals - 1
    BY Constants DEF FIRST
  <2> DEFINE F == DecFree(b, log, j)
  <2> HIDE DEF n, F
  <2>3. F <= DecMax(b, n)
    BY <2>1, <2>2, <1>3, Constants DEF F
  <2> QED BY <2>3 DEF F, n
<1>5. CASE j # 0 /\ log[j].code # CLEAR
  <2>1. a.m = log[j].m + 1 /\ log[j].m \in Nat
    <3>1. log[j].m \in 1 .. j
      BY <1>1, <1>5, LogFields
    <3> QED BY <3>1, <1>1, <1>5, AfterFields
  <2> DEFINE m == log[j].m  M == MAXCODE(b)  F == DecFree(b, log, j)
  <2>2. F = Lower(Literals + m, M)
    BY <1>5 DEF DecFree
  <2>3. F <= Literals + m /\ F <= M /\ F \in Int
    <3> HIDE DEF F, m, M
    <3>1. m \in Nat /\ M \in Nat
      BY <2>1, <1>2 DEF m, M
    <3> QED BY <3>1, <2>2, Constants DEF Lower
  <2>4. m \in Nat /\ a.m = m + 1 /\ M = MAXCODE(b)
    BY <2>1
  <2> HIDE DEF F, m, M, n
  <2>5. n = b => F <= DecMax(b, n)
    BY <2>3, <2>4, <1>3
  <2>6. ASSUME n # b PROVE F <= DecMax(b, n)
    <3>1. n < b
      BY <2>6, <1>2, FirstWidth, Constants
    <3>2. Literals + (m + 1) <= MAXCODE(n)
      BY <3>1, <2>4, <1>2
    <3>3. F <= MAXCODE(n) - 1
      BY <3>2, <2>3, <2>4, <1>2, Constants
    <3> QED BY <3>3, <2>3, <2>6, <1>2, <1>3
  <2>7. F <= DecMax(b, n)
    BY <2>5, <2>6
  <2> QED BY <2>7 DEF F, n
<1> QED BY <1>4, <1>5


\* What decompress knows of its place, in whole groups of codes.
Placing(b, d, log, j, f, bytes, t, out_) ==
    /\ b \in Bits /\ InitBits < b /\ Literals >= 2
    /\ Complete(b, t, log, f, bytes) /\ j \in 0 .. Len(log)
    /\ Tracks(b, d, t, log, j, out_) /\ Buffered(d, bytes)
    /\ InCodes(d) /\ Grouped(d, After(b, log, j))

LEMMA PlacingParts ==
  ASSUME NEW b, NEW d, NEW log, NEW j, NEW f, NEW bytes, NEW t, NEW out_,
         Placing(b, d, log, j, f, bytes, t, out_)
  PROVE  LET a == After(b, log, j)
             B == ByteBits
             n == d.n_bits
         IN  /\ B \in Nat \ {0} /\ n \in Nat \ {0} /\ n * B \in Nat \ {0}
             /\ n \in InitBits .. b /\ a.n \in InitBits .. b /\ B <= n /\ a.n \in Nat
             /\ d.insize \in Nat /\ d.base \in Nat /\ d.rsize \in Nat /\ d.posbits \in Nat
             /\ d.inbits \in Int /\ d.maxcode \in Int /\ d.free_ent \in Int
             /\ bytes \in Nat /\ d.base + d.insize <= bytes
             /\ d.posbits <= d.insize * B /\ d.insize * B \in Nat /\ d.base * B \in Nat
             /\ (d.base + d.insize) * B = d.base * B + d.insize * B
             /\ (d.base + d.insize) * B <= bytes * B /\ bytes * B \in Nat
             /\ d.rsize = 0 => (d.base + d.insize) * B = bytes * B
             /\ d.base * B + d.posbits = At(a) /\ At(a) \in Nat
             /\ FileEnd(log) \in Nat /\ FileEnd(log) <= bytes * B /\ bytes * B < FileEnd(log) + B
             /\ d.rsize > 0 => d.posbits <= d.inbits /\ d.inbits <= d.insize * B
                               /\ \E k \in Nat : d.inbits = (n * B) * k
             /\ d.rsize = 0 => d.inbits = d.insize * B - (n - 1)
             /\ n = a.n \/ (n + 1 = a.n /\ a.q = 0)
             /\ a.q \in Nat /\ WidthOf(b, a)
<1> DEFINE a == After(b, log, j)  B == ByteBits  n == d.n_bits  i == d.insize  y == d.base
<1>1. /\ b \in Bits /\ InitBits < b /\ DecType(b, d) /\ j \in 0 .. Len(log) /\ Complete(b, t, log, f, bytes)
      /\ InStep(b, d, log, j, a)
  BY DEF Placing, Tracks
<1>2. /\ i \in Nat /\ y \in Nat /\ d.rsize \in Nat /\ d.posbits \in Nat
      /\ d.inbits \in Int /\ d.maxcode \in Int /\ d.free_ent \in Int
      /\ n \in Nat \ {0} /\ n * B \in Nat \ {0} /\ B \in Nat \ {0} /\ n \in InitBits .. b
  BY <1>1, DecFields, DecWidth, Constants
<1>3. /\ WidthOf(b, a) /\ bytes \in Nat
      /\ FileEnd(log) \in Nat /\ FileEnd(log) <= bytes * B /\ bytes * B < FileEnd(log) + B
  BY <1>1, ReadingParts
<1>4. a.n \in InitBits .. b /\ a.q \in Nat /\ At(a) \in Nat /\ a.n \in Nat
  <2> HIDE DEF a
  <2> QED BY <1>1, <1>3, WidthFields
<1>5. B <= n
  <2>1. InitBits <= n /\ B <= InitBits /\ InitBits \in Int
    BY <1>2, Constants
  <2> HIDE DEF B, n
  <2> QED BY <2>1, <1>2
<1>6. /\ y + i <= bytes /\ d.posbits <= i * B
      /\ (d.rsize = 0 => y + i = bytes)
      /\ d.inbits = IF d.rsize > 0 THEN (i - (i % n)) * B ELSE i * B - (n - 1)
      /\ (d.rsize > 0 => d.posbits <= d.inbits)
  BY DEF Placing, Buffered, InCodes
<1>7. /\ i * B \in Nat /\ y * B \in Nat /\ (y + i) * B = y * B + i * B
      /\ (y + i) * B <= bytes * B /\ bytes * B \in Nat
  <2> HIDE DEF i, y, B
  <2>1. i * B \in Nat /\ y * B \in Nat /\ (y + i) * B = y * B + i * B /\ bytes * B \in Nat
    BY <1>2, <1>3
  <2> DEFINE z == y + i
  <2>2. z \in Int /\ z <= bytes /\ bytes \in Int
    BY <1>2, <1>3, <1>6
  <2> HIDE DEF z
  <2>3. B * z <= B * bytes
    BY <2>2, <1>2, Multiples
  <2>4. z * B <= bytes * B
    BY <2>3, <2>2, <1>2
  <2> QED BY <2>1, <2>4 DEF z
<1>8. ASSUME d.rsize > 0
      PROVE  d.inbits <= i * B /\ \E k \in Nat : d.inbits = (n * B) * k
  <2> DEFINE k == i \div n  z == i - (i % n)
  <2>1. d.inbits = z * B
    BY <1>6, <1>8
  <2>2. i = n * k + (i % n) /\ i % n \in 0 .. n - 1 /\ k \in Int
    <3> HIDE DEF i, n
    <3> QED BY <1>2, Divided DEF k
  <2>3. k \in Nat
    <3> HIDE DEF i, n
    <3> QED BY <1>2 DEF k
  <2> DEFINE x == i % n  nk == n * k
  <2>4. x \in Nat /\ nk \in Int /\ i = nk + x /\ z = i - x
    BY <2>2, <1>2
  <2>5. z = nk /\ z <= i /\ z \in Int
    <3> HIDE DEF x, nk, i, z
    <3> QED BY <2>4, <1>2
  <2> HIDE DEF z, k, i, n, B, x
  <2>6. (n * k) * B = (n * B) * k
    BY <1>2, <2>3
  <2>7. B * z <= B * i
    BY <2>5, <1>2, Multiples
  <2>8. z * B <= i * B
    BY <2>7, <2>5, <1>2
  <2>9. d.inbits = (n * B) * k
    BY <2>1, <2>5, <2>6
  <2> QED BY <2>1, <2>3, <2>8, <2>9
<1>9. /\ y * B + d.posbits = At(a)
      /\ n = a.n \/ (n + 1 = a.n /\ a.q = 0)
  BY <1>1 DEF InStep
<1> QED BY <1>2, <1>3, <1>4, <1>5, <1>6, <1>7, <1>8, <1>9

LEMMA EndOfCodesKeeps ==
  ASSUME Modes, Static, NEW log, Reading(log), Decompressing, EndOfCodes
  PROVE  Decompressing' /\ Reading(log)'
<1> DEFINE b == maxbits  bytes == FileBytes  n == dec.n_bits  B == ByteBits
<1>0. b \in Bits /\ InitBits < b /\ Literals >= 2
  BY Wider
<1>1. /\ pc = "codes" /\ dec.inbits <= dec.posbits
      /\ pc' = IF dec.rsize > 0 THEN "reset" ELSE "done"
      /\ UNCHANGED <<maxbits, block_mode, text, enc, file, dec, out>>
  BY DEF EndOfCodes
<1>2. Complete(b, text, log, file, bytes)
  BY DEF Reading
<1>3. PICK j \in 0 .. Len(log) :
         /\ Tracks(b, dec, text, log, j, out) /\ Buffered(dec, bytes)
         /\ InCodes(dec) /\ Grouped(dec, After(b, log, j))
  BY <1>1 DEF Reading
<1> DEFINE a == After(b, log, j)
<1>4. Placing(b, dec, log, j, file, bytes, text, out)
  BY <1>0, <1>2, <1>3 DEF Placing
<1>5. Buffered(dec, FileBytes)' /\ Tracks(maxbits, dec, text, log, j, out)'
  BY <1>1, <1>3 DEF FileBytes
<1>6. CASE dec.rsize > 0
  <2>1. /\ n \in Nat \ {0} /\ B \in Nat \ {0} /\ n * B \in Nat \ {0} /\ dec.posbits \in Nat
        /\ dec.inbits \in Int /\ dec.posbits <= dec.inbits /\ a.q \in Nat
        /\ \E k \in Nat : dec.inbits = (n * B) * k
    BY <1>4, <1>6, PlacingParts
  <2>2. PICK k \in Nat : dec.inbits = (n * B) * k
    BY <2>1
  <2> DEFINE p == dec.posbits
  <2>3. p = (n * B) * k
    <3> DEFINE z == dec.inbits
    <3>1. p \in Nat /\ z \in Int /\ p <= z /\ z <= p
      BY <2>1, <1>1
    <3> HIDE DEF p, z
    <3>2. p = z
      BY <3>1
    <3> QED BY <3>2, <2>2 DEF z
  <2>4. PICK g \in Int : p + (n * B) * g = IF n = a.n THEN a.n * a.q ELSE 0
    BY <1>3 DEF Grouped
  <2>5. p % B = 0
    <3> HIDE DEF n, B
    <3>1. (n * B) * k = B * (n * k) + 0 /\ n * k \in Int
      BY <2>1, <2>2
    <3>2. (B * (n * k) + 0) % B = 0
      BY <3>1, <2>1, Quotient, 0 \in 0 .. B - 1
    <3> QED BY <3>1, <3>2, <2>3
  <2>6. ASSUME n = a.n PROVE a.q % B = 0
    <3> DEFINE q == a.q
    <3> HIDE DEF p
    <3>1. (n * B) * k + (n * B) * g = n * q /\ q \in Int
      <4>1. p + (n * B) * g = a.n * a.q
        BY <2>4, <2>6
      <4>2. q \in Int
        BY <2>1
      <4> QED BY <4>1, <4>2, <2>3, <2>6
    <3> HIDE DEF n, B, q, a
    <3>2. (n * B) * k + (n * B) * g = n * (B * (k + g)) /\ B * (k + g) \in Int /\ k + g \in Int
      BY <2>1
    <3>3. q = B * (k + g)
      BY <3>1, <3>2, <2>1, Multiples
    <3>4. (B * (k + g) + 0) % B = 0
      BY <3>2, <2>1, Quotient, 0 \in 0 .. B - 1
    <3>5. B * (k + g) + 0 = B * (k + g)
      BY <3>2
    <3> QED BY <3>3, <3>4, <3>5 DEF q
  <2>7. AtGroup(dec, a)
    BY <2>5, <2>6 DEF AtGroup
  <2>8. AtGroup(dec, After(maxbits, log, j))' /\ pc' = "reset"
    BY <2>7, <1>1, <1>6
  <2> QED BY <2>8, <1>1, <1>5, StillReading
<1>7. CASE ~(dec.rsize > 0)
  <2> DEFINE y == dec.base  i == dec.insize  p == dec.posbits
  <2>1. /\ n \in Nat \ {0} /\ y * B \in Nat /\ i * B \in Nat /\ dec.rsize \in Nat /\ p \in Nat
        /\ y * B + i * B = bytes * B /\ dec.inbits = i * B - (n - 1)
        /\ y * B + p = At(a) /\ FileEnd(log) \in Nat /\ FileEnd(log) <= bytes * B /\ bytes * B \in Nat
        /\ a.n \in Nat /\ n <= a.n /\ At(a) \in Nat
    <3>1. dec.rsize = 0
      <4>1. dec.rsize \in Nat
        BY <1>4, PlacingParts
      <4> QED BY <4>1, <1>7
    <3>2. n \in Nat \ {0} /\ a.n \in Nat /\ (n = a.n \/ n + 1 = a.n)
      BY <1>4, PlacingParts
    <3>3. n <= a.n
      <4> HIDE DEF n, a
      <4> QED BY <3>2
    <3>4. (y + i) * B = y * B + i * B /\ (y + i) * B = bytes * B
      BY <3>1, <1>4, PlacingParts
    <3> HIDE DEF a, b, bytes
    <3>5. /\ y * B \in Nat /\ i * B \in Nat /\ dec.rsize \in Nat /\ p \in Nat
          /\ dec.inbits = i * B - (n - 1) /\ y * B + p = At(a)
          /\ FileEnd(log) \in Nat /\ FileEnd(log) <= bytes * B /\ bytes * B \in Nat
          /\ At(a) \in Nat
      BY <3>1, <1>4, PlacingParts DEF a
    <3> QED BY <3>2, <3>3, <3>4, <3>5
  <2>2. j = Len(log)
    <3>1. SUFFICES ASSUME j # Len(log) PROVE FALSE
      OBVIOUS
    <3>2. At(a) + a.n <= FileEnd(log)
      BY <3>1, <1>0, <1>2, EntryInside
    <3> DEFINE u == y * B  v == i * B  z == bytes * B  nn == a.n  at == At(a)
    <3>3. /\ v - (n - 1) <= p /\ u + v = z /\ u + p = at /\ at + nn <= FileEnd(log)
          /\ FileEnd(log) <= z /\ n <= nn
      BY <2>1, <3>2, <1>1
    <3>4. /\ u \in Int /\ v \in Int /\ z \in Int /\ nn \in Int /\ at \in Int /\ p \in Int /\ n \in Int
          /\ FileEnd(log) \in Int
      BY <2>1
    <3> HIDE DEF u, v, z, nn, at, p, n
    <3> QED BY <3>3, <3>4
  <2>3. pc' = "done"
    BY <1>1, <1>7
  <2> QED BY <2>2, <2>3, <1>1, <1>5, StillReading
<1> QED BY <1>6, <1>7


LEMMA WidenCodesKeeps ==
  ASSUME Modes, Static, NEW log, Reading(log), Decompressing, WidenCodes
  PROVE  Decompressing' /\ Reading(log)'
<1> DEFINE b == maxbits  bytes == FileBytes  n == dec.n_bits  B == ByteBits  p == dec.posbits
           mx == IF n + 1 = b THEN MAXCODE(b) ELSE MAXCODE(n + 1) - 1
           sk == GroupEnd(p, 0, n)
           w == [dec EXCEPT !.posbits = sk, !.n_bits = n + 1, !.maxcode = mx]
<1>0. b \in Bits /\ InitBits < b /\ Literals >= 2
  BY Wider
<1>1. /\ pc = "codes" /\ pc' = "reset" /\ dec.free_ent > dec.maxcode /\ dec' = w
      /\ UNCHANGED <<maxbits, block_mode, text, enc, file, out>>
  BY DEF WidenCodes, More, SkipGroup
<1>2. Complete(b, text, log, file, bytes)
  BY DEF Reading
<1>3. PICK j \in 0 .. Len(log) :
         /\ Tracks(b, dec, text, log, j, out) /\ Buffered(dec, bytes)
         /\ InCodes(dec) /\ Grouped(dec, After(b, log, j))
  BY <1>1 DEF Reading
<1> DEFINE a == After(b, log, j)
<1>4. Placing(b, dec, log, j, file, bytes, text, out)
  BY <1>0, <1>2, <1>3 DEF Placing
<1>5. /\ n \in Nat \ {0} /\ B \in Nat \ {0} /\ n * B \in Nat \ {0} /\ p \in Nat /\ n \in InitBits .. b
      /\ WidthOf(b, a) /\ a.n \in InitBits .. b /\ a.n \in Nat
  BY <1>4, PlacingParts
<1>6. n + 1 = a.n /\ a.q = 0 /\ dec.free_ent = DecFree(b, log, j) /\ dec.base * B + p = At(a)
  BY <1>1, <1>3 DEF Tracks, InStep
<1>7. PICK g \in Int : p + (n * B) * g = 0
  <2>1. n # a.n
    <3> HIDE DEF n, a
    <3> QED BY <1>5, <1>6
  <2> HIDE DEF a, n
  <2>2. PICK g \in Int : p + (n * B) * g = IF n = a.n THEN a.n * a.q ELSE 0
    BY <1>3 DEF Grouped, a, n
  <2> QED BY <2>1, <2>2
<1>8. sk = p /\ p % B = 0
  <2> HIDE DEF sk
  <2> DEFINE h == -g
  <2>1. p - 0 = (n * B) * h /\ h \in Int
    <3> DEFINE N == n * B
    <3>1. N \in Int /\ p \in Int /\ p + N * g = 0
      BY <1>5, <1>7
    <3> HIDE DEF N, p
    <3>2. p - 0 = N * (-g) /\ -g \in Int
      BY <3>1
    <3> QED BY <3>2 DEF N
  <2> HIDE DEF h
  <2>2. sk = p
    <3>1. GroupEnd(p, 0, n) = p
      <4> DEFINE z == 0
      <4>1. n \in Nat \ {0} /\ p \in Int /\ z \in Int /\ p - z = (n * ByteBits) * h /\ h \in Int
        BY <2>1, <1>5
      <4> HIDE DEF n, p, z
      <4>2. GroupEnd(p, z, n) = p
        BY <4>1, GroupBegins
      <4> QED BY <4>2 DEF z
    <3> QED BY <3>1 DEF sk
  <2>3. p % B = 0
    <3> HIDE DEF n, B, p
    <3>1. p = B * (n * h) + 0 /\ n * h \in Int
      BY <2>1, <1>5
    <3>2. (B * (n * h) + 0) % B = 0
      BY <3>1, <1>5, Quotient, 0 \in 0 .. B - 1
    <3> QED BY <3>1, <3>2
  <2> QED BY <2>2, <2>3
<1>9. mx = DecMax(b, a.n) /\ mx \in Nat
  <2>1. mx = DecMax(b, a.n)
    BY <1>6 DEF DecMax
  <2> DEFINE nn == a.n
  <2>2. MAXCODE(nn) \in Nat \ {0} /\ MAXCODE(b) \in Nat \ {0}
    <3>1. nn \in InitBits .. b /\ b \in InitBits .. b
      BY <1>0, <1>5, FirstWidth, Constants
    <3> HIDE DEF nn
    <3> QED BY <3>1, <1>0, FirstWidth
  <2> HIDE DEF nn, mx
  <2>3. DecMax(b, nn) \in Nat
    BY <2>2 DEF DecMax
  <2> QED BY <2>1, <2>3 DEF nn
<1> HIDE DEF mx, sk
<1>10. dec.free_ent <= mx
  <2>1. Log(b, text, log)
    BY <1>2 DEF Complete
  <2>2. DecFree(b, log, j) <= DecMax(b, After(b, log, j).n)
    BY <2>1, <1>0, <1>5, FreeFits
  <2> QED BY <2>2, <1>6, <1>9
<1>11. DecType(b, dec) /\ dec.free_ent \in Int
  <2>1. DecType(b, dec)
    BY <1>3 DEF Tracks
  <2> QED BY <2>1, <1>0, DecWidth
<1>12. /\ DecType(b, w) /\ w.n_bits = n + 1 /\ w.posbits = p /\ w.maxcode = mx
       /\ w.base = dec.base /\ w.insize = dec.insize /\ w.rsize = dec.rsize
       /\ w.free_ent = dec.free_ent /\ w.oldcode = dec.oldcode /\ w.finchar = dec.finchar
       /\ w.tab = dec.tab
  <2> DEFINE nn == n + 1
  <2>1. nn \in InitBits .. b
    BY <1>5, <1>6
  <2> HIDE DEF nn
  <2>2. sk \in Nat
    BY <1>5, <1>8
  <2> DEFINE v == [dec EXCEPT !.posbits = sk, !.n_bits = nn, !.maxcode = mx]
  <2>3. /\ DecType(b, v) /\ v.n_bits = nn /\ v.posbits = sk /\ v.maxcode = mx
        /\ v.base = dec.base /\ v.insize = dec.insize /\ v.rsize = dec.rsize
        /\ v.free_ent = dec.free_ent /\ v.oldcode = dec.oldcode /\ v.finchar = dec.finchar
        /\ v.tab = dec.tab
    BY <1>9, <1>11, <2>1, <2>2 DEF DecType
  <2>4. v = w
    BY DEF nn
  <2> HIDE DEF v, w
  <2> QED BY <1>8, <2>3, <2>4 DEF nn
<1> HIDE DEF w
<1>13. InStep(b, w, log, j, a)
  <2>1. ~(w.free_ent > w.maxcode)
    <3> DEFINE x == dec.free_ent
    <3>1. x \in Int /\ mx \in Int /\ x <= mx
      BY <1>9, <1>10, <1>11
    <3> HIDE DEF x
    <3>2. ~(x > mx)
      BY <3>1
    <3> QED BY <3>2, <1>12 DEF x
  <2> QED BY <2>1, <1>6, <1>9, <1>12 DEF InStep
<1>14. Tracks(b, w, text, log, j, out)
  <2>1. Entries(dec, text, log, j) /\ Decoded(text, log, j, out)
    BY <1>3 DEF Tracks
  <2>2. Entries(w, text, log, j)
    BY <2>1, <1>12 DEF Entries
  <2> QED BY <2>1, <2>2, <1>12, <1>13 DEF Tracks
<1>15. Buffered(w, bytes)
  BY <1>3, <1>12 DEF Buffered
<1>16. AtGroup(w, a)
  <2>1. 0 % B = 0
    <3> HIDE DEF B
    <3> QED BY <1>5
  <2> QED BY <2>1, <1>6, <1>8, <1>12 DEF AtGroup
<1>17. /\ Tracks(b, dec, text, log, j, out)' /\ Buffered(dec, FileBytes)'
       /\ AtGroup(dec, After(maxbits, log, j))' /\ FileBytes' = FileBytes
  BY <1>1, <1>14, <1>15, <1>16 DEF FileBytes
<1> QED BY <1>1, <1>17, StillReading

\* When the width is right, a whole code is left in the buffer, and it is that
\* of the next entry.
LEMMA ReadyPlace ==
  ASSUME NEW b, NEW d, NEW log, NEW j, NEW f, NEW bytes, NEW t, NEW out_,
         Placing(b, d, log, j, f, bytes, t, out_),
         d.inbits > d.posbits, d.free_ent <= d.maxcode
  PROVE  LET a == After(b, log, j)
         IN  /\ d.n_bits = a.n /\ j # Len(log)
             /\ d.posbits + a.n <= d.insize * ByteBits
             /\ d.rsize > 0 => d.posbits + a.n <= d.inbits
             /\ \E g \in Int : d.posbits - 0 = a.n * a.q + (a.n * ByteBits) * g
<1> DEFINE a == After(b, log, j)  B == ByteBits  n == d.n_bits  i == d.insize  y == d.base
           p == d.posbits  at == At(a)
<1>1. n = a.n
  <2>1. InStep(b, d, log, j, a) /\ d.free_ent \in Int /\ d.maxcode \in Int
    BY PlacingParts DEF Placing, Tracks
  <2> QED BY <2>1 DEF InStep
<1>2. /\ n \in Nat \ {0} /\ B \in Nat \ {0} /\ n * B \in Nat \ {0} /\ p \in Nat /\ B <= n
      /\ d.inbits \in Int /\ d.rsize \in Nat /\ a.q \in Nat
      /\ y * B \in Nat /\ i * B \in Nat /\ bytes * B \in Nat /\ at \in Nat
      /\ y * B + p = at /\ FileEnd(log) \in Nat /\ bytes * B < FileEnd(log) + B
  BY PlacingParts
<1>3. y * B + i * B <= bytes * B
  <2>1. (y + i) * B = y * B + i * B /\ (y + i) * B <= bytes * B
    BY PlacingParts
  <2> QED BY <2>1
<1>4. PICK g \in Int : p + (n * B) * g = n * a.q
  <2>1. Grouped(d, a)
    BY DEF Placing
  <2> QED BY <2>1, <1>1 DEF Grouped
<1> DEFINE q == a.q
<1>5. p = n * (q - B * g) /\ p - 0 = n * q + (n * B) * (-g) /\ q - B * g \in Int
  <2>1. n \in Int /\ B \in Int /\ q \in Int /\ p \in Int /\ p + (n * B) * g = n * q
    BY <1>2, <1>4
  <2> HIDE DEF n, B, q, p
  <2>2. n * (q - B * g) = n * q - (n * B) * g /\ (n * B) * (-g) = -((n * B) * g) /\ q - B * g \in Int
    BY <2>1
  <2> DEFINE u == (n * B) * g  v == n * q
  <2>3. u \in Int /\ v \in Int /\ p + u = v
    BY <2>1
  <2>4. n * (q - B * g) = v - u /\ (n * B) * (-g) = -u
    BY <2>2
  <2> HIDE DEF u, v
  <2>5. p = v - u /\ p - 0 = v + (-u)
    BY <2>1, <2>3
  <2> QED BY <2>2, <2>4, <2>5 DEF v
<1>6. ASSUME d.rsize > 0 PROVE p + n <= d.inbits /\ d.inbits <= i * B
  <2>1. d.inbits <= i * B /\ \E k \in Nat : d.inbits = (n * B) * k
    BY <1>6, PlacingParts
  <2>2. PICK k \in Nat : d.inbits = (n * B) * k
    BY <2>1
  <2> DEFINE x == q - B * g  z == B * k
  <2>3. d.inbits = n * z /\ z \in Int
    <3> HIDE DEF n, B
    <3>1. (n * B) * k = n * (B * k) /\ B * k \in Int
      BY <1>2
    <3> QED BY <3>1, <2>2
  <2>4. x \in Int /\ p = n * x /\ n * x < n * z
    BY <1>5, <2>3
  <2> HIDE DEF x, z, n
  <2>5. n * x + n <= n * z
    BY <2>3, <2>4, <1>2, Multiples
  <2> QED BY <2>1, <2>3, <2>4, <2>5
<1>7. ASSUME ~(d.rsize > 0) PROVE p + n <= i * B
  <2>1. d.rsize = 0
    BY <1>2, <1>7
  <2>2. d.inbits = i * B - (n - 1)
    BY <2>1, PlacingParts
  <2> DEFINE v == i * B
  <2>3. v - (n - 1) > p /\ v \in Int /\ p \in Int /\ n \in Int
    BY <2>2, <1>2
  <2> HIDE DEF v, p, n
  <2>4. p + n <= v
    BY <2>3
  <2> QED BY <2>4 DEF v
<1>8. p + n <= i * B
  <2> DEFINE v == i * B  x == d.inbits
  <2>1. d.rsize > 0 => p + n <= x /\ x <= v
    BY <1>6
  <2>2. ~(d.rsize > 0) => p + n <= v
    BY <1>7
  <2>3. v \in Int /\ x \in Int /\ p + n \in Int
    BY <1>2
  <2> DEFINE z == p + n
  <2> HIDE DEF v, x, z
  <2>4. z <= v
    BY <2>1, <2>2, <2>3 DEF z
  <2> QED BY <2>4 DEF v, z
<1>9. j # Len(log)
  <2>1. SUFFICES ASSUME j = Len(log) PROVE FALSE
    OBVIOUS
  <2>2. at = FileEnd(log)
    <3>1. b \in Bits /\ InitBits < b /\ Complete(b, t, log, f, bytes)
      BY DEF Placing
    <3> QED BY <3>1, <2>1, AllRead
  <2> DEFINE u == y * B  v == i * B  z == bytes * B  E == FileEnd(log)
  <2>3. /\ u \in Int /\ v \in Int /\ z \in Int /\ E \in Int /\ p \in Int /\ n \in Int /\ B \in Int
        /\ u + p = E /\ p + n <= v /\ u + v <= z /\ z < E + B /\ B <= n
    BY <1>2, <1>3, <1>8, <2>2
  <2> HIDE DEF u, v, z, E, p, n, B
  <2> QED BY <2>3
<1>10. \E h \in Int : d.posbits - 0 = a.n * a.q + (a.n * ByteBits) * h
  <2>1. -g \in Int
    OBVIOUS
  <2>2. d.posbits - 0 = a.n * a.q + (a.n * ByteBits) * (-g)
    BY <1>1, <1>5
  <2> QED BY <2>1, <2>2
<1> QED BY <1>1, <1>6, <1>8, <1>9, <1>10


\* The place behind a code that is not CLEAR; the width grows with the table.
Advanced(d, w, free) ==
    /\ w.posbits = d.posbits + d.n_bits /\ w.free_ent = free
    /\ w.base = d.base /\ w.insize = d.insize /\ w.rsize = d.rsize /\ w.inbits = d.inbits
    /\ w.n_bits = d.n_bits /\ w.maxcode = d.maxcode

LEMMA NextStep ==
  ASSUME NEW b, NEW d, NEW log, NEW j, NEW f, NEW bytes, NEW t, NEW out_,
         Placing(b, d, log, j, f, bytes, t, out_),
         d.inbits > d.posbits, d.free_ent <= d.maxcode,
         log[j + 1].code # CLEAR, NEW w, Advanced(d, w, DecFree(b, log, j + 1))
  PROVE  LET a2 == After(b, log, j + 1)
         IN  /\ InStep(b, w, log, j + 1, a2)
             /\ Buffered(w, bytes) /\ InCodes(w) /\ Grouped(w, a2)
<1> DEFINE a == After(b, log, j)  a2 == After(b, log, j + 1)  r == log[j + 1]
           n == d.n_bits  B == ByteBits  p == d.posbits  wide == r.n < b /\ FIRST + r.m > MAXCODE(r.n)
<1>1. b \in Bits /\ InitBits < b /\ j \in 0 .. Len(log) /\ Complete(b, t, log, f, bytes)
  BY DEF Placing
<1>2. /\ n = a.n /\ j # Len(log) /\ p + a.n <= d.insize * B
      /\ (d.rsize > 0 => p + a.n <= d.inbits)
      /\ \E g \in Int : p - 0 = a.n * a.q + (a.n * B) * g
  BY ReadyPlace
<1>3. /\ j + 1 \in 1 .. Len(log) /\ r \in Entry
      /\ r.m = a.m /\ r.n = a.n /\ r.from = a.from /\ r.q = a.q /\ At(r) = At(a)
  BY <1>1, <1>2, EntryInside
<1>4. /\ WidthOf(b, r) /\ j + 1 \in Nat /\ j + 1 # 0 /\ DecType(b, d)
  <2>1. Log(b, t, log) /\ j \in Nat
    BY <1>1, ReadingParts
  <2>2. WidthOf(b, r)
    BY <2>1, <1>3, LogFields
  <2> QED BY <2>1, <2>2 DEF Placing, Tracks
<1>5. /\ n \in Nat \ {0} /\ B \in Nat \ {0} /\ n * B \in Nat \ {0} /\ p \in Nat /\ n \in InitBits .. b
      /\ d.base * B + p = At(a) /\ At(a) \in Nat /\ d.base * B \in Nat
  BY PlacingParts
<1>6. /\ r.n \in InitBits .. b /\ r.m \in Nat \ {0} /\ r.q \in Nat /\ r.from \in Nat
      /\ (r.n < b => Literals + r.m <= MAXCODE(r.n)) /\ At(r) = r.from + r.n * r.q /\ At(r) \in Nat
  <2> HIDE DEF r
  <2> QED BY <1>1, <1>4, WidthFields
<1>7. IF wide THEN a2.n = r.n + 1 /\ a2.q = 0 /\ a2.from = At(r) + r.n
      ELSE a2.n = r.n /\ a2.q = r.q + 1 /\ a2.from = r.from
  BY <1>4, AfterFields
<1> HIDE DEF a, a2, r
<1>8. n = r.n
  BY <1>2, <1>3
<1>9. At(a2) = At(r) + n
  <2>1. CASE wide
    <3>1. (r.n + 1) * 0 = 0
      BY <1>5, <1>8
    <3> QED BY <3>1, <2>1, <1>5, <1>6, <1>7, <1>8 DEF At
  <2>2. CASE ~wide
    <3> DEFINE q == r.q  from == r.from
    <3>1. At(a2) = from + n * (q + 1) /\ At(r) = from + n * q
      BY <2>2, <1>6, <1>7, <1>8 DEF At
    <3>2. n \in Int /\ q \in Int /\ from \in Int
      BY <1>5, <1>6
    <3> HIDE DEF n, q, from
    <3>3. from + n * (q + 1) = (from + n * q) + n
      BY <3>2
    <3> QED BY <3>1, <3>3
  <2> QED BY <2>1, <2>2
<1>10. w.base * B + w.posbits = At(a2)
  <2> DEFINE y == d.base * B
  <2>1. w.base * B + w.posbits = y + (p + n)
    BY DEF Advanced
  <2>2. y + p = At(r) /\ y \in Int /\ p \in Int /\ n \in Int
    BY <1>3, <1>5
  <2> HIDE DEF y, p, n
  <2>3. y + (p + n) = At(r) + n
    BY <2>2
  <2> QED BY <2>1, <2>3, <1>9
<1> DEFINE F == DecFree(b, log, j + 1)  M == MAXCODE(b)  mn == MAXCODE(n)  m == r.m
<1>11. F = Lower(Literals + m, M)
  BY <1>4 DEF DecFree, r
<1>12. M \in Nat /\ mn \in Nat /\ mn <= M /\ m \in Nat
  <2>1. n \in InitBits .. b /\ b \in InitBits .. b
    BY <1>1, <1>5, FirstWidth, Constants
  <2> HIDE DEF n
  <2>2. M \in Nat /\ MAXCODE(n) \in Nat /\ MAXCODE(n) <= M
    BY <2>1, <1>1, FirstWidth
  <2> QED BY <2>2, <1>6 DEF n
<1>13. d.maxcode = DecMax(b, n)
  BY DEF Placing, Tracks, InStep
<1>14. (F > d.maxcode) <=> wide
  <2>1. CASE n = b
    <3>1. d.maxcode = M
      BY <2>1, <1>13 DEF DecMax
    <3>2. ~wide
      <4>1. ~(r.n < b)
        BY <2>1, <1>8, <1>5
      <4> QED BY <4>1
    <3> HIDE DEF F, M, m, wide
    <3>3. ~(F > M)
      BY <1>11, <1>12, Constants DEF Lower
    <3> QED BY <3>1, <3>2, <3>3
  <2>2. CASE n # b
    <3>1. n < b /\ d.maxcode = mn - 1
      <4>1. n < b
        <5> HIDE DEF n
        <5>1. b \in Nat /\ InitBits \in Nat
          BY <1>1, FirstWidth, Constants
        <5> QED BY <5>1, <2>2, <1>5
      <4> QED BY <4>1, <2>2, <1>13 DEF DecMax
    <3>2. Literals + m <= mn
      BY <3>1, <1>6, <1>8
    <3>3. wide <=> FIRST + m > mn
      BY <3>1, <1>8
    <3> HIDE DEF F, M, m, wide, mn
    <3>4. Literals + m <= M
      BY <3>2, <1>12, Constants
    <3>5. F = Literals + m
      BY <3>4, <1>11, <1>12, Constants DEF Lower
    <3>6. F > mn - 1 <=> FIRST + m > mn
      BY <3>5, <3>2, <1>12, Constants DEF FIRST
    <3> QED BY <3>1, <3>3, <3>6
  <2> QED BY <2>1, <2>2
<1> HIDE DEF F
<1>15. w.free_ent = F /\ w.maxcode = d.maxcode /\ w.n_bits = n
  BY DEF Advanced, F
<1>16. InStep(b, w, log, j + 1, a2)
  <2>1. CASE wide
    <3>1. w.n_bits + 1 = a2.n /\ a2.q = 0
      BY <2>1, <1>7, <1>8, <1>15
    <3>2. w.free_ent > w.maxcode
      BY <2>1, <1>14, <1>15
    <3> QED BY <3>1, <3>2, <1>10, <1>13, <1>15 DEF InStep, F
  <2>2. CASE ~wide
    <3>1. w.n_bits = a2.n
      BY <2>2, <1>7, <1>8, <1>15
    <3>2. ~(w.free_ent > w.maxcode)
      BY <2>2, <1>14, <1>15
    <3> QED BY <3>1, <3>2, <1>10, <1>13, <1>15 DEF InStep, F
  <2> QED BY <2>1, <2>2
<1>17. w.posbits = p + n /\ p + n <= d.insize * B /\ (d.rsize > 0 => p + n <= d.inbits)
  BY <1>2 DEF Advanced
<1>18. Buffered(w, bytes)
  <2>1. Buffered(d, bytes)
    BY DEF Placing
  <2> QED BY <2>1, <1>17 DEF Buffered, Advanced
<1>19. InCodes(w)
  <2>1. InCodes(d)
    BY DEF Placing
  <2> QED BY <2>1, <1>17 DEF InCodes, Advanced
<1>20. Grouped(w, a2)
  <2>1. PICK g \in Int : p - 0 = r.n * r.q + (r.n * B) * g
    BY <1>2, <1>3
  <2> DEFINE z == 0
  <2>2. p \in Int /\ z \in Int /\ p - z = r.n * r.q + (r.n * B) * g
    BY <2>1, <1>5
  <2> HIDE DEF p, z
  <2>3. /\ (p + r.n) - z = r.n * (r.q + 1) + (r.n * ByteBits) * g
        /\ wide => \E h \in Int : (p + r.n) - z = (r.n * ByteBits) * h
    <3>1. b \in Bits /\ WidthOf(b, r)
      BY <1>1, <1>4
    <3>2. p \in Int /\ z \in Int /\ p - z = r.n * r.q + (r.n * ByteBits) * g
      BY <2>2
    <3> HIDE DEF wide
    <3> HIDE <2>1, <2>2, <1>1, <1>2, <1>3, <1>4, <1>5, <1>6, <1>7, <1>8
    <3> DEFINE goal == /\ (p + r.n) - z = r.n * (r.q + 1) + (r.n * ByteBits) * g
                       /\ r.n < b /\ FIRST + r.m > MAXCODE(r.n) =>
                             \E h \in Int : (p + r.n) - z = (r.n * ByteBits) * h
    <3>3. goal
      BY <3>1, <3>2, NextAligned
    <3> QED BY <3>3 DEF wide
  <2> DEFINE N == n * B  x == p + n
  <2>4. N \in Int /\ x \in Int
    BY <1>5, <2>2
  <2>5. CASE wide
    <3>1. PICK h \in Int : x - 0 = N * h
      BY <2>3, <2>5, <1>8 DEF z
    <3>2. n # a2.n
      <4>1. a2.n = n + 1
        BY <2>5, <1>7, <1>8
      <4> HIDE DEF n
      <4> QED BY <4>1, <1>5
    <3> HIDE DEF N, x
    <3>3. x + N * (-h) = 0 /\ -h \in Int
      BY <2>4, <3>1
    <3>4. w.posbits + (w.n_bits * B) * (-h) = 0
      BY <3>3, <1>15, <1>17 DEF N, x
    <3>5. w.n_bits # a2.n
      BY <3>2, <1>15
    <3> QED BY <3>3, <3>4, <3>5 DEF Grouped
  <2>6. CASE ~wide
    <3> DEFINE y == n * (r.q + 1)
    <3>1. x - 0 = y + N * g /\ y \in Int
      <4>1. x - 0 = y + N * g
        BY <2>3, <1>8 DEF z
      <4> QED BY <4>1, <1>5, <1>6
    <3>2. n = a2.n /\ a2.q = r.q + 1
      BY <2>6, <1>7, <1>8
    <3>3. y = a2.n * a2.q
      BY <3>2
    <3> HIDE DEF N, x, y
    <3>4. x + N * (-g) = y /\ -g \in Int
      BY <2>4, <3>1
    <3>5. w.posbits + (w.n_bits * B) * (-g) = a2.n * a2.q
      BY <3>3, <3>4, <1>15, <1>17 DEF N, x
    <3>6. w.n_bits = a2.n
      BY <3>2, <1>15
    <3> QED BY <3>4, <3>5, <3>6 DEF Grouped
  <2> QED BY <2>5, <2>6
<1> QED BY <1>16, <1>18, <1>19, <1>20 DEF a2

\* The code read is the one written.
LEMMA CodeRead ==
  ASSUME Modes, Static, NEW log, Reading(log), Decompressing, Ready
  PROVE  \E j \in 0 .. Len(log) :
            /\ Placing(maxbits, dec, log, j, file, FileBytes, text, out)
            /\ dec.inbits > dec.posbits /\ dec.free_ent <= dec.maxcode
            /\ j # Len(log) /\ Code = log[j + 1].code
<1> DEFINE b == maxbits  bytes == FileBytes
<1>0. b \in Bits /\ InitBits < b /\ Literals >= 2
  BY Wider
<1>1. pc = "codes" /\ dec.inbits > dec.posbits /\ dec.free_ent <= dec.maxcode
  BY DEF Ready, More
<1>2. Complete(b, text, log, file, bytes)
  BY DEF Reading
<1>3. PICK j \in 0 .. Len(log) :
         /\ Tracks(b, dec, text, log, j, out) /\ Buffered(dec, bytes)
         /\ InCodes(dec) /\ Grouped(dec, After(b, log, j))
  BY <1>1 DEF Reading
<1>4. Placing(b, dec, log, j, file, bytes, text, out)
  BY <1>0, <1>2, <1>3 DEF Placing
<1> DEFINE a == After(b, log, j)  r == log[j + 1]  n == dec.n_bits  at == dec.base * ByteBits + dec.posbits
<1>5. n = a.n /\ j # Len(log)
  BY <1>1, <1>4, ReadyPlace
<1>6. /\ j + 1 \in 1 .. Len(log) /\ r \in Entry /\ r.n = n /\ at = At(a)
      /\ \A k \in 0 .. n - 1 : Bit(r.code, k) <=> at + k \in file
  <2>1. at = At(a)
    BY <1>3 DEF Tracks, InStep
  <2> HIDE DEF at
  <2> QED BY <2>1, <1>0, <1>2, <1>5, EntryInside
<1>7. r.code \in 0 .. MAXCODE(n) - 1 /\ n \in 0 .. Literals
  <2>1. Log(b, text, log)
    BY <1>2 DEF Complete
  <2>2. r.code < MAXCODE(r.n) /\ r.code \in Nat
    BY <2>1, <1>6, LogFields, EntryFields
  <2>3. n \in InitBits .. b
    BY <1>4, PlacingParts
  <2> HIDE DEF n
  <2>4. MAXCODE(n) \in Nat /\ n \in 0 .. Literals
    BY <2>3, <1>0, FirstWidth, Constants
  <2> QED BY <2>2, <2>4, <1>6 DEF n
<1> DEFINE Is(c) == c \in 0 .. MAXCODE(n) - 1 /\ \A k \in 0 .. n - 1 : Bit(c, k) <=> at + k \in file
<1>8. Is(r.code)
  BY <1>6, <1>7
<1>9. Code = CHOOSE c \in 0 .. MAXCODE(n) - 1 :
                \A k \in 0 .. n - 1 : Bit(c, k) <=> at + k \in file
  BY DEF Code
<1>10. Is(Code)
  BY <1>8, <1>9
<1>11. Code = r.code
  <2> HIDE DEF n, at
  <2>1. \A k \in 0 .. n - 1 : Bit(Code, k) <=> Bit(r.code, k)
    BY <1>8, <1>10
  <2>2. Code \in 0 .. MAXCODE(n) - 1 /\ r.code \in 0 .. MAXCODE(n) - 1
    BY <1>8, <1>10
  <2> HIDE DEF r
  <2> QED BY <2>1, <2>2, <1>7, SameBits
<1> QED BY <1>1, <1>4, <1>5, <1>11


\* The maximum after CLEAR.
LEMMA FirstMax ==
  ASSUME NEW b \in Bits, InitBits < b, Literals >= 2
  PROVE  LET mx == MAXCODE(InitBits) - 1
         IN  /\ InitBits \in InitBits .. b /\ mx \in Nat /\ mx = DecMax(b, InitBits) /\ CLEAR <= mx
             /\ CLEAR \in CLEAR .. MAXCODE(b) /\ FIRST - 1 = CLEAR
<1>1. InitBits \in InitBits .. b /\ b \in InitBits .. b /\ InitBits # b
  <2>1. b \in Nat /\ InitBits \in Nat
    BY FirstWidth, Constants
  <2> QED BY <2>1
<1>2. MAXCODE(InitBits) = 2 * Literals /\ MAXCODE(b) \in Nat /\ 2 * Literals <= MAXCODE(b)
  BY <1>1, FirstWidth
<1>3. DecMax(b, InitBits) = MAXCODE(InitBits) - 1
  BY <1>1 DEF DecMax
<1> DEFINE M == MAXCODE(b)
<1>4. 2 * Literals - 1 \in Nat /\ Literals <= 2 * Literals - 1 /\ Literals \in Literals .. M
      /\ FIRST - 1 = Literals
  <2> HIDE DEF M
  <2>1. M \in Nat /\ 2 * Literals <= M
    BY <1>2 DEF M
  <2> QED BY <2>1, Constants DEF FIRST
<1> QED BY <1>1, <1>2, <1>3, <1>4 DEF CLEAR

LEMMA ClearKeeps ==
  ASSUME NEW b, NEW d, NEW log, NEW j, NEW f, NEW bytes, NEW t, NEW out_,
         Placing(b, d, log, j, f, bytes, t, out_),
         d.inbits > d.posbits, d.free_ent <= d.maxcode, d.oldcode # -1,
         log[j + 1].code = CLEAR,
         NEW sk, sk = GroupEnd(d.posbits + d.n_bits, 0, d.n_bits),
         NEW w, w = [d EXCEPT !.free_ent = FIRST - 1, !.posbits = sk,
                              !.n_bits = InitBits, !.maxcode = MAXCODE(InitBits) - 1]
  PROVE  /\ j + 1 \in 0 .. Len(log) /\ Tracks(b, w, t, log, j + 1, out_)
         /\ Buffered(w, bytes) /\ AtGroup(w, After(b, log, j + 1))
<1> DEFINE a == After(b, log, j)  a2 == After(b, log, j + 1)  r == log[j + 1]
           n == d.n_bits  B == ByteBits  p == d.posbits  N == n * B
<1>1. /\ b \in Bits /\ InitBits < b /\ Literals >= 2 /\ j \in 0 .. Len(log)
      /\ Complete(b, t, log, f, bytes) /\ Tracks(b, d, t, log, j, out_) /\ Buffered(d, bytes)
  BY DEF Placing
<1>2. /\ n = a.n /\ j # Len(log)
      /\ \E g \in Int : p - 0 = a.n * a.q + (a.n * B) * g
  BY ReadyPlace
<1>3. /\ j + 1 \in 1 .. Len(log) /\ r \in Entry
      /\ r.n = a.n /\ r.from = a.from /\ r.q = a.q /\ At(r) = At(a)
  BY <1>1, <1>2, EntryInside
<1>4. /\ Log(b, t, log) /\ j \in Nat /\ Len(log) \in Nat /\ log \in Seq(Entry)
      /\ WidthOf(b, r) /\ r.end = Done(log, j) /\ Done(log, j + 1) = r.end
  <2>1. Log(b, t, log) /\ j \in Nat /\ Len(log) \in Nat /\ log \in Seq(Entry)
    BY <1>1, ReadingParts
  <2>2. (j + 1) - 1 = j
    BY <2>1
  <2> QED BY <2>1, <2>2, <1>3, LogFields
<1>5. /\ n \in Nat \ {0} /\ B \in Nat \ {0} /\ N \in Nat \ {0} /\ p \in Nat /\ n \in InitBits .. b
      /\ d.base * B + p = At(a) /\ At(a) \in Nat /\ d.base * B \in Nat /\ d.insize * B \in Nat
      /\ d.rsize \in Nat /\ d.inbits \in Int /\ FileEnd(log) <= bytes * B /\ FileEnd(log) \in Nat
      /\ bytes * B \in Nat
  BY PlacingParts
<1>6. /\ r.q \in Nat /\ r.from \in Nat /\ At(r) = r.from + r.n * r.q
  <2> HIDE DEF r
  <2> QED BY <1>1, <1>4, WidthFields
<1>7. j + 1 # Len(log)
  <2>1. SUFFICES ASSUME j + 1 = Len(log) PROVE FALSE
    OBVIOUS
  <2>2. log # <<>>
    BY <2>1, <1>4
  <2> QED BY <2>1, <2>2, <1>1 DEF Complete
<1>8. a2.m = 1 /\ a2.n = InitBits /\ a2.q = 0 /\ a2.from = r.from + (r.n * B) * (r.q \div B + 1)
  <2>1. j + 1 \in Nat /\ j + 1 # 0
    BY <1>4
  <2> QED BY <2>1, AfterFields
<1>9. At(a2) + a2.n <= FileEnd(log) /\ At(a2) = a2.from /\ At(a2) \in Nat
  <2>1. j + 1 \in 0 .. Len(log)
    BY <1>3, <1>4
  <2>2. At(a2) + a2.n <= FileEnd(log)
    <3> DEFINE j2 == j + 1
    <3>1. j2 \in 0 .. Len(log) /\ j2 # Len(log)
      BY <2>1, <1>7
    <3> HIDE DEF j2
    <3>2. At(After(b, log, j2)) + After(b, log, j2).n <= FileEnd(log)
      BY <3>1, <1>1, EntryInside
    <3> QED BY <3>2 DEF j2
  <2>3. WidthOf(b, a2)
    BY <2>1, <1>1, ReadingParts
  <2> HIDE DEF a2
  <2>4. At(a2) \in Nat /\ a2.from \in Nat
    BY <2>3, <1>1, WidthFields
  <2>5. InitBits * 0 = 0
    BY Constants
  <2> QED BY <2>2, <2>4, <2>5, <1>8 DEF At
<1> HIDE DEF a, a2, r
<1>10. PICK g \in Int : p - 0 = r.n * r.q + (r.n * B) * g
  BY <1>2, <1>3
<1> DEFINE q == r.q  from == r.from  dv == q \div B  md == q % B
<1>11. n = r.n /\ p - 0 = n * q + N * g
  BY <1>2, <1>3, <1>10
<1>12. q = B * dv + md /\ md \in 0 .. B - 1 /\ dv \in Int
  <2> HIDE DEF q, B
  <2>1. q \in Int
    BY <1>6 DEF q
  <2> QED BY <2>1, <1>5, Divided
<1>13. /\ d.base * B + sk = a2.from
       /\ sk = 0 + N * (dv + 1 + g)
  <2> DEFINE X == d.base * B  z == 0
  <2>1. Reached(n, q, from, p, z, X, g)
    <3>1. X + p = from + n * q
      BY <1>3, <1>5, <1>6, <1>11
    <3>2. n \in Nat \ {0} /\ q \in Nat /\ from \in Int /\ p \in Int /\ X \in Int /\ z \in Int /\ g \in Int
      BY <1>5, <1>6
    <3> QED BY <3>1, <3>2, <1>11 DEF Reached
  <2> HIDE DEF X, z, n, q, from, p
  <2>2. /\ X + GroupEnd(p + n, z, n) = from + (n * ByteBits) * (q \div ByteBits + 1)
        /\ GroupEnd(p + n, z, n) = z + (n * ByteBits) * (q \div ByteBits + 1 + g)
    BY <2>1, NextGroup
  <2>3. sk = GroupEnd(p + n, z, n)
    BY DEF p, n, z
  <2> QED BY <2>2, <2>3, <1>8, <1>11 DEF X, z, n, q, from
<1>14. sk \in Nat /\ p + n <= sk
  <2> DEFINE x == p + n  z == 0
  <2>1. n \in Nat \ {0} /\ x \in Int /\ z \in Int /\ sk = GroupEnd(x, z, n)
    BY <1>5
  <2> HIDE DEF x, z, n
  <2>2. sk \in Int /\ x <= sk
    BY <2>1, GroupEndNear
  <2> HIDE DEF p
  <2>3. x \in Nat
    BY <1>5 DEF x, n
  <2>4. sk \in Nat
    BY <2>2, <2>3
  <2> QED BY <2>2, <2>4 DEF x
<1>15. sk % B = 0
  <2> HIDE DEF n, B, dv
  <2>1. sk = B * (n * (dv + 1 + g)) + 0 /\ n * (dv + 1 + g) \in Int
    BY <1>5, <1>12, <1>13
  <2>2. (B * (n * (dv + 1 + g)) + 0) % B = 0
    BY <2>1, <1>5, Quotient, 0 \in 0 .. B - 1
  <2> QED BY <2>1, <2>2
<1>16. sk <= d.insize * B
  <2>1. CASE d.rsize > 0
    <3>1. d.inbits <= d.insize * B /\ \E k \in Nat : d.inbits = N * k
      BY <2>1, PlacingParts
    <3>2. PICK k \in Nat : d.inbits = N * k
      BY <3>1
    <3> DEFINE h == dv + g
    <3>3. p = N * h + n * md
      <4> HIDE DEF q, B, dv, md, n
      <4>1. n \in Int /\ B \in Int /\ md \in Int /\ p \in Int
        BY <1>5, <1>12
      <4>2. n * (B * dv + md) + (n * B) * g = (n * B) * (dv + g) + n * md
        BY <4>1, <1>12
      <4>3. p - 0 = p
        BY <4>1
      <4> QED BY <4>2, <4>3, <1>11, <1>12
    <3>4. 0 <= n * md
      <4> HIDE DEF md, n, B
      <4>1. md \in Nat
        BY <1>5, <1>12
      <4> QED BY <4>1, <1>5
    <3>5. N * h < N * k
      <4> DEFINE u == N * h  v == n * md  x == d.inbits
      <4>1. u \in Int /\ v \in Int /\ x \in Int /\ 0 <= v /\ p = u + v /\ x > p /\ x = N * k
        BY <1>5, <1>12, <3>2, <3>3, <3>4
      <4> HIDE DEF u, v, x, p
      <4>2. u < x
        BY <4>1
      <4> QED BY <4>1, <4>2 DEF u
    <3>6. N * h + N <= N * k
      <4>1. h \in Int /\ N \in Nat \ {0} /\ k \in Int
        BY <1>5, <1>12
      <4> HIDE DEF h, N
      <4> QED BY <4>1, <3>5, Multiples
    <3>7. sk = N * h + N
      <4>1. dv + 1 + g = h + 1 /\ h \in Int
        BY <1>12
      <4> HIDE DEF h, N
      <4>2. 0 + N * (h + 1) = N * h + N
        BY <4>1, <1>5
      <4> QED BY <4>1, <4>2, <1>13
    <3> DEFINE u == N * h + N  x == d.inbits  v == d.insize * B
    <3>8. sk = u /\ u <= x /\ x <= v /\ u \in Int /\ x \in Int /\ v \in Int
      BY <3>1, <3>2, <3>6, <3>7, <1>5, <1>14
    <3> HIDE DEF u, x, v
    <3>9. sk <= v
      BY <3>8
    <3> QED BY <3>9 DEF v
  <2>2. CASE ~(d.rsize > 0)
    <3>1. d.rsize = 0
      BY <2>2, <1>5
    <3> DEFINE y == d.base * B  v == d.insize * B  z == bytes * B  E == FileEnd(log)
    <3>2. y + v = z
      <4>1. (d.base + d.insize) * B = y + v /\ (d.base + d.insize) * B = z
        BY <3>1, PlacingParts
      <4> QED BY <4>1
    <3>3. /\ y \in Int /\ v \in Int /\ z \in Int /\ E \in Int /\ sk \in Int
          /\ y + sk <= E /\ E <= z
      <4>1. At(a2) <= FileEnd(log)
        <5>1. a2.n \in Nat
          BY <1>8, Constants
        <5> QED BY <5>1, <1>5, <1>9
      <4> QED BY <4>1, <1>5, <1>9, <1>13, <1>14
    <3> HIDE DEF y, v, z, E
    <3>4. sk <= v
      BY <3>2, <3>3
    <3> QED BY <3>4 DEF v
  <2> QED BY <2>1, <2>2
<1> DEFINE mx == MAXCODE(InitBits) - 1
<1>17. InitBits \in InitBits .. b /\ mx \in Nat /\ mx = DecMax(b, InitBits) /\ CLEAR <= mx
       /\ CLEAR \in CLEAR .. MAXCODE(b) /\ FIRST - 1 = CLEAR
  BY <1>1, FirstMax
<1> HIDE DEF mx
<1>18. /\ DecType(b, w) /\ w.free_ent = CLEAR /\ w.posbits = sk /\ w.n_bits = InitBits
       /\ w.maxcode = mx /\ w.base = d.base /\ w.insize = d.insize /\ w.rsize = d.rsize
       /\ w.oldcode = d.oldcode
  <2>1. w = [d EXCEPT !.free_ent = CLEAR, !.posbits = sk, !.n_bits = InitBits, !.maxcode = mx]
    BY <1>17 DEF mx
  <2>2. DecType(b, d)
    BY <1>1 DEF Tracks
  <2> QED BY <2>1, <2>2, <1>14, <1>17 DEF DecType
<1>19. InStep(b, w, log, j + 1, a2)
  <2>1. DecFree(b, log, j + 1) = CLEAR
    BY <1>4 DEF DecFree, r
  <2>2. w.base * B + w.posbits = At(a2)
    BY <1>9, <1>13, <1>18
  <2>3. ~(w.free_ent > w.maxcode)
    <3>1. ~(CLEAR > mx)
      BY <1>17, Constants
    <3> QED BY <3>1, <1>18
  <2> QED BY <2>1, <2>2, <2>3, <1>8, <1>17, <1>18 DEF InStep
<1>20. Entries(w, t, log, j + 1)
  <2>1. j + 1 # 0 /\ w.oldcode # -1
    BY <1>4, <1>18
  <2> QED BY <2>1 DEF Entries
<1>21. Decoded(t, log, j + 1, out_)
  <2>1. Decoded(t, log, j, out_) /\ Done(log, j + 1) = Done(log, j)
    BY <1>1, <1>4 DEF Tracks
  <2> QED BY <2>1 DEF Decoded
<1>22. Tracks(b, w, t, log, j + 1, out_)
  BY <1>18, <1>19, <1>20, <1>21 DEF Tracks, a2
<1>23. Buffered(w, bytes)
  BY <1>1, <1>16, <1>18 DEF Buffered
<1>24. AtGroup(w, a2)
  <2>1. 0 % B = 0
    <3> HIDE DEF B
    <3> QED BY <1>5
  <2> QED BY <2>1, <1>8, <1>15, <1>18 DEF AtGroup
<1> QED BY <1>3, <1>4, <1>22, <1>23, <1>24 DEF a2

LEMMA ClearTableKeeps ==
  ASSUME Modes, Static, NEW log, Reading(log), Decompressing, ClearTable
  PROVE  Decompressing' /\ Reading(log)'
<1> DEFINE sk == GroupEnd(dec.posbits + dec.n_bits, 0, dec.n_bits)
           w == [dec EXCEPT !.free_ent = FIRST - 1, !.posbits = sk,
                            !.n_bits = InitBits, !.maxcode = MAXCODE(InitBits) - 1]
<1>1. PICK j \in 0 .. Len(log) :
         /\ Placing(maxbits, dec, log, j, file, FileBytes, text, out)
         /\ dec.inbits > dec.posbits /\ dec.free_ent <= dec.maxcode
         /\ j # Len(log) /\ Code = log[j + 1].code
  BY CodeRead DEF ClearTable
<1>2. /\ dec.oldcode # -1 /\ Code = CLEAR /\ pc' = "reset" /\ DecType(maxbits, dec)
      /\ UNCHANGED <<maxbits, block_mode, text, enc, file, out>>
  BY <1>1 DEF ClearTable, Cleared, Placing, Tracks
<1>3. dec' = w
  <2>1. Taken.posbits = dec.posbits + dec.n_bits
    BY <1>2 DEF Taken, DecType
  <2> QED BY <2>1 DEF ClearTable, SkipGroup
<1> HIDE DEF sk
<1>4. /\ j + 1 \in 0 .. Len(log) /\ Tracks(maxbits, w, text, log, j + 1, out)
      /\ Buffered(w, FileBytes) /\ AtGroup(w, After(maxbits, log, j + 1))
  BY <1>1, <1>2, ClearKeeps DEF sk
<1> HIDE DEF w
<1>5. /\ Tracks(maxbits, dec, text, log, j + 1, out)' /\ Buffered(dec, FileBytes)'
      /\ AtGroup(dec, After(maxbits, log, j + 1))'
  BY <1>2, <1>3, <1>4 DEF FileBytes
<1> QED BY <1>2, <1>4, <1>5, StillReading


(***************************************************************************)
(* The strings of the codes.                                               *)
(***************************************************************************)
Str(t, from, to) == [k \in 1 .. to - from |-> t[from + k]]

LEMMA StrType ==
  ASSUME NEW B, NEW t \in Seq(B), NEW from \in Nat, NEW to \in Nat, from <= to, to <= Len(t)
  PROVE  /\ Str(t, from, to) \in Seq(B) /\ Len(Str(t, from, to)) = to - from
         /\ \A k \in 1 .. to - from : Str(t, from, to)[k] = t[from + k]
BY DEF Str

LEMMA StrOne ==
  ASSUME NEW t, NEW from \in Nat, NEW to \in Nat, to = from + 1
  PROVE  Str(t, from, to) = <<t[to]>>
<1>1. to - from = 1 /\ 1 .. 1 = {1}
  OBVIOUS
<1> QED BY <1>1 DEF Str

LEMMA StrNext ==
  ASSUME NEW B, NEW t \in Seq(B), NEW from \in Nat, NEW to \in Nat, from <= to, to < Len(t)
  PROVE  Append(Str(t, from, to), t[to + 1]) = Str(t, from, to + 1)
<1> DEFINE z == to + 1  s == Str(t, from, to)  u == Str(t, from, z)  v == Append(s, t[z])
<1>0. to <= Len(t) /\ z \in Nat /\ from <= z /\ z <= Len(t)
  BY Len(t) \in Nat
<1>1. s \in Seq(B) /\ Len(s) = to - from /\ \A k \in 1 .. to - from : s[k] = t[from + k]
  BY <1>0, StrType
<1>2. u \in Seq(B) /\ Len(u) = z - from /\ \A k \in 1 .. z - from : u[k] = t[from + k]
  <2> HIDE DEF z
  <2> QED BY <1>0, StrType
<1> HIDE DEF s, u
<1>3. t[z] \in B
  BY <1>0
<1>4. v \in Seq(B) /\ Len(v) = Len(s) + 1 /\ (\A k \in 1 .. Len(s) : v[k] = s[k]) /\ v[Len(s) + 1] = t[z]
  BY <1>1, <1>3
<1> HIDE DEF v
<1>5. Len(v) = Len(u)
  BY <1>1, <1>2, <1>4
<1>6. ASSUME NEW k \in 1 .. Len(v) PROVE v[k] = u[k]
  <2>1. CASE k \in 1 .. to - from
    BY <2>1, <1>1, <1>2, <1>4
  <2>2. CASE k = to - from + 1
    BY <2>2, <1>1, <1>2, <1>4
  <2> QED BY <2>1, <2>2, <1>1, <1>4
<1>7. v = u
  <2> HIDE DEF z
  <2>1. u \in Seq(B) /\ v \in Seq(B)
    BY <1>2, <1>4
  <2> QED BY <2>1, <1>5, <1>6
<1> QED BY <1>7 DEF v, s, u, z

\* The string of a code: of one in the table, the piece it was made of.
Spelling(t, log, d, c) ==
    IF c \in Byte THEN <<c>>
    ELSE Str(t, Done(log, Origin(d, c) - 1), log[Origin(d, c)].end + 1)

LEMMA Spelled ==
  ASSUME NEW t, NEW log, NEW d, NEW c, NEW from \in Nat, NEW to \in Nat,
         Denotes(t, log, d, c, from, to)
  PROVE  Spelling(t, log, d, c) = Str(t, from, to)
<1>1. CASE c \in Byte
  <2>1. to = from + 1 /\ t[to] = c
    BY <1>1 DEF Denotes
  <2>2. Str(t, from, to) = <<t[to]>>
    BY <2>1, StrOne
  <2> QED BY <2>1, <2>2, <1>1 DEF Spelling
<1>2. CASE c \notin Byte
  <2> DEFINE e == Origin(d, c)  f == Done(log, e - 1)  z == log[e].end + 1
  <2>1. to - from = z - f /\ Piece(t, from, to, f)
    BY <1>2 DEF Denotes
  <2>2. Spelling(t, log, d, c) = Str(t, f, z)
    BY <1>2 DEF Spelling
  <2> HIDE DEF f, z
  <2>3. Str(t, f, z) = Str(t, from, to)
    BY <2>1 DEF Str, Piece
  <2> QED BY <2>2, <2>3
<1> QED BY <1>1, <1>2

\* What the entries below "free" are, when the codes since the last CLEAR are
\* numbers d + 1 to J of the log.
Tabled(tab, t, log, d, J, free) ==
    /\ d \in Nat /\ J \in d .. Len(log)
    /\ \A e \in d + 1 .. J : log[e].m = e - d /\ log[e].code # CLEAR
    /\ free \in Int /\ free <= Literals + (J - d)
    /\ \A c \in FIRST .. free - 1 :
          LET e == Origin(d, c)
          IN  tab[c] = [prefix |-> log[e].code, suffix |-> t[log[e].end + 1]]

LEMMA TabledEntry ==
  ASSUME NEW b, NEW t, NEW log, Log(b, t, log), NEW tab, NEW d, NEW J, NEW free,
         Tabled(tab, t, log, d, J, free), NEW c \in FIRST .. free - 1
  PROVE  LET e == Origin(d, c)
             p == tab[c].prefix
             f == Done(log, e - 1)
             z == log[e].end
         IN  /\ e \in d + 1 .. J - 1 /\ c \notin Byte /\ c # CLEAR
             /\ p \in Nat /\ p < c /\ p # CLEAR
             /\ f \in Nat /\ z \in Nat /\ f <= z /\ z < Len(t)
             /\ tab[c].suffix = t[z + 1] /\ Denotes(t, log, d, p, f, z)
<1> DEFINE e == Origin(d, c)  p == log[e].code  f == Done(log, e - 1)  z == log[e].end
<1>1. /\ d \in Nat /\ J \in d .. Len(log) /\ Len(log) \in Nat /\ log \in Seq(Entry)
      /\ free \in Int /\ free <= Literals + (J - d)
      /\ \A i \in d + 1 .. J : log[i].m = i - d /\ log[i].code # CLEAR
      /\ tab[c] = [prefix |-> p, suffix |-> t[z + 1]]
  <2>1. log \in Seq(Entry)
    BY DEF Log
  <2>2. \A x \in FIRST .. free - 1 :
          LET y == Origin(d, x)
          IN  tab[x] = [prefix |-> log[y].code, suffix |-> t[log[y].end + 1]]
    BY DEF Tabled
  <2>3. tab[c] = [prefix |-> p, suffix |-> t[z + 1]]
    BY <2>2
  <2>4. /\ d \in Nat /\ J \in d .. Len(log) /\ free \in Int /\ free <= Literals + (J - d)
        /\ \A i \in d + 1 .. J : log[i].m = i - d /\ log[i].code # CLEAR
    BY DEF Tabled
  <2>5. Len(log) \in Nat
    BY <2>1
  <2> QED BY <2>1, <2>3, <2>4, <2>5
<1>2. c \in Int /\ e = d + (c - FIRST) + 1 /\ FIRST = Literals + 1 /\ Literals \in Nat /\ CLEAR = Literals
  BY Constants DEF Origin, FIRST, CLEAR
<1> HIDE DEF e
<1>3. e \in d + 1 .. J - 1 /\ c = Literals + (e - d) /\ c \notin Byte /\ c # CLEAR
  <2>1. /\ c \in Int /\ d \in Int /\ J \in Int /\ Literals \in Nat /\ free \in Int
        /\ e = d + (c - (Literals + 1)) + 1 /\ Literals + 1 <= c /\ c <= free - 1
        /\ free <= Literals + (J - d)
    BY <1>1, <1>2
  <2> HIDE <1>1, <1>2
  <2>2. e = d + (c - Literals) /\ e \in Int
    BY <2>1
  <2>3. c = Literals + (e - d) /\ d + 1 <= e
    BY <2>1, <2>2
  <2>4. e <= J - 1
    BY <2>1, <2>2
  <2>5. c \notin 0 .. Literals - 1 /\ c # Literals
    BY <2>1
  <2> QED BY <2>1, <2>2, <2>3, <2>4, <2>5, <1>2 DEF Byte
<1>4. e \in 1 .. Len(log) /\ e + 1 \in 1 .. Len(log) /\ e \in d + 1 .. J /\ e + 1 \in d + 1 .. J
  BY <1>1, <1>3
<1>5. log[e].m = e - d /\ p # CLEAR /\ log[e + 1].code # CLEAR
  BY <1>1, <1>4
<1>6. /\ z \in f + 1 .. Len(t) /\ Known(log[e].m, p) /\ Denotes(t, log, e - log[e].m, p, f, z)
      /\ Done(log, e) = z
  BY <1>4, <1>5, LogFields
<1>7. f \in Nat /\ Len(t) \in Nat
  <2>1. e - 1 \in 0 .. Len(log)
    BY <1>1, <1>3
  <2> QED BY <2>1, LogEnds
<1>8. z < Len(t)
  <2>1. log[e + 1].end \in Done(log, e) + 1 .. Len(t)
    <3> DEFINE i == e + 1
    <3>1. i \in 1 .. Len(log) /\ log[i].code # CLEAR
      BY <1>4, <1>5
    <3> HIDE DEF i
    <3>2. log[i].end \in Done(log, i - 1) + 1 .. Len(t)
      BY <3>1, LogFields
    <3>3. i - 1 = e
      BY <1>3, <1>1 DEF i
    <3> QED BY <3>2, <3>3 DEF i
  <2> QED BY <2>1, <1>6, <1>7
<1>9. p \in Nat /\ p < c
  <2>1. p \in Byte \/ p \in FIRST .. FIRST + (e - d) - 2
    BY <1>5, <1>6 DEF Known
  <2> HIDE DEF p
  <2> QED BY <2>1, <1>1, <1>2, <1>3, Constants DEF Byte
<1>10. e - log[e].m = d
  BY <1>5, <1>3, <1>1
<1>11. tab[c].prefix = p /\ tab[c].suffix = t[z + 1]
  BY <1>1
<1>12. z \in Nat /\ f <= z
  BY <1>6, <1>7
<1> QED BY <1>3, <1>5, <1>6, <1>7, <1>8, <1>9, <1>10, <1>11, <1>12 DEF e

LEMMA Expanded ==
  ASSUME block_mode, NEW b, NEW t, NEW log, Log(b, t, log), NEW d, NEW J, NEW free,
         Tabled(dec.tab, t, log, d, J, free),
         NEW code, code \in Byte \/ code \in FIRST .. free - 1
  PROVE  Expand(code) = Spelling(t, log, d, code)
<1> DEFINE S == Strings(code)  h == [c \in S |-> Spelling(t, log, d, c)]
           Is(g) == g = [c \in S |-> IF c < Literals THEN <<c>>
                                     ELSE Append(g[dec.tab[c].prefix], dec.tab[c].suffix)]
<1>0. S = {c \in 0 .. code : c # CLEAR} /\ code \in Nat /\ code # CLEAR /\ free \in Int
  <2>1. S = {c \in 0 .. code : c # CLEAR}
    BY DEF Strings
  <2>2. free \in Int
    BY DEF Tabled
  <2>3. code \in Nat /\ code # CLEAR
    BY <2>2, Constants DEF Byte, CLEAR, FIRST
  <2> QED BY <2>1, <2>2, <2>3
<1>1. ASSUME NEW c \in S
      PROVE  c \in Byte \/ c \in FIRST .. free - 1
  <2>1. c \in 0 .. code /\ c # CLEAR
    BY <1>0
  <2> HIDE DEF S
  <2> QED BY <2>1, <1>0, Constants DEF Byte, CLEAR, FIRST
<1> HIDE DEF S
<1>2. code \in S
  BY <1>0
<1>3. ASSUME NEW c \in S, c \notin Byte
      PROVE  /\ dec.tab[c].prefix \in S /\ dec.tab[c].prefix < c
             /\ h[c] = Append(h[dec.tab[c].prefix], dec.tab[c].suffix)
  <2> DEFINE e == Origin(d, c)  p == dec.tab[c].prefix  f == Done(log, e - 1)  z == log[e].end
  <2>1. c \in FIRST .. free - 1
    BY <1>1, <1>3
  <2>2. /\ p \in Nat /\ p < c /\ p # CLEAR
        /\ f \in Nat /\ z \in Nat /\ f <= z /\ z < Len(t)
        /\ dec.tab[c].suffix = t[z + 1] /\ Denotes(t, log, d, p, f, z)
    BY <2>1, TabledEntry
  <2>3. p \in S
    <3>1. c \in 0 .. code /\ c \in Int
      BY <1>0
    <3> HIDE DEF p
    <3> QED BY <3>1, <2>2, <1>0
  <2>4. h[p] = Str(t, f, z)
    <3>1. h[p] = Spelling(t, log, d, p)
      BY <2>3
    <3> HIDE DEF p, f, z
    <3>2. Spelling(t, log, d, p) = Str(t, f, z)
      BY <2>2, Spelled
    <3> QED BY <3>1, <3>2
  <2>5. h[c] = Str(t, f, z + 1)
    BY <1>3 DEF Spelling
  <2>6. Append(Str(t, f, z), t[z + 1]) = Str(t, f, z + 1)
    <3>1. t \in Seq(Byte)
      BY DEF Log
    <3> HIDE DEF f, z
    <3> QED BY <3>1, <2>2, StrNext
  <2>7. h[c] = Append(h[p], dec.tab[c].suffix)
    BY <2>2, <2>4, <2>5, <2>6
  <2> QED BY <2>2, <2>3, <2>7
<1>4. ASSUME NEW c \in S
      PROVE  c < Literals <=> c \in Byte
  BY <1>0, Constants DEF Byte
<1>5. ASSUME NEW c \in S, c \in Byte
      PROVE  h[c] = <<c>>
  BY <1>5 DEF Spelling
<1>6. Is(h)
  <2> DEFINE G(c) == IF c < Literals THEN <<c>> ELSE Append(h[dec.tab[c].prefix], dec.tab[c].suffix)
  <2>1. ASSUME NEW c \in S PROVE Spelling(t, log, d, c) = G(c)
    <3>1. h[c] = Spelling(t, log, d, c)
      OBVIOUS
    <3> HIDE DEF h
    <3> QED BY <3>1, <1>3, <1>4, <1>5
  <2> DEFINE hh == h
  <2>2. hh = [c \in S |-> G(c)]
    <3>1. [c \in S |-> Spelling(t, log, d, c)] = [c \in S |-> G(c)]
      <4> HIDE DEF h, G
      <4> QED BY <2>1
    <3> QED BY <3>1
  <2> QED BY <2>2
<1> HIDE DEF h
<1>7. Is(CHOOSE g : Is(g))
  <2> HIDE DEF Is
  <2> QED BY <1>6
<1> DEFINE g == CHOOSE x : Is(x)
<1>8. Expand(code) = g[code]
  BY Zenon DEF Expand, S
<1>9. Is(g)
  BY <1>7
<1> HIDE DEF g
<1>10. \A c \in S : g[c] = h[c]
  <2> DEFINE T == {c \in S : g[c] # h[c]}
  <2>1. SUFFICES ASSUME T # {} PROVE FALSE
    OBVIOUS
  <2>2. T \in SUBSET Nat
    BY <1>0
  <2>3. PICK c \in T : \A x \in T : c <= x
    BY <2>1, <2>2, Least
  <2>4. c \in S /\ c \in Nat /\ g[c] # h[c]
    BY <2>2, <2>3
  <2>5. g[c] = IF c < Literals THEN <<c>> ELSE Append(g[dec.tab[c].prefix], dec.tab[c].suffix)
    BY <1>9, <2>4
  <2>6. CASE c \in Byte
    BY <2>4, <2>5, <2>6, <1>4, <1>5
  <2>7. CASE c \notin Byte
    <3> DEFINE p == dec.tab[c].prefix
    <3>1. p \in S /\ p < c /\ h[c] = Append(h[p], dec.tab[c].suffix)
      BY <1>3, <2>4, <2>7
    <3>2. p \notin T
      <4>1. p \in Nat
        BY <3>1, <1>0
      <4> HIDE DEF p
      <4> QED BY <4>1, <3>1, <2>3, <2>4
    <3>3. g[p] = h[p]
      BY <3>1, <3>2
    <3> QED BY <3>1, <3>3, <2>4, <2>5, <2>7, <1>4
  <2> QED BY <2>6, <2>7
<1>11. h[code] = Spelling(t, log, d, code)
  BY <1>2 DEF h
<1> QED BY <1>2, <1>8, <1>10, <1>11


\* What decompress knows when a code after the first one is read that is not CLEAR.
LEMMA NextRead ==
  ASSUME NEW b, NEW d, NEW log, NEW j, NEW f, NEW bytes, NEW t, NEW out_,
         Placing(b, d, log, j, f, bytes, t, out_),
         d.inbits > d.posbits, d.free_ent <= d.maxcode, d.oldcode # -1,
         log[j + 1].code # CLEAR
  PROVE  LET r == log[j + 1]
             s == Done(log, j)
             free == d.free_ent
             M == MAXCODE(b)
         IN  /\ Log(b, t, log) /\ j \in 1 .. Len(log) /\ j + 1 \in 1 .. Len(log)
             /\ s \in Nat /\ r.end \in s + 1 .. Len(t) /\ Len(t) \in Nat /\ t \in Seq(Byte)
             /\ Done(log, j + 1) = r.end
             /\ r.code \in Nat /\ r.code < M /\ M \in Nat /\ free \in CLEAR .. M
             /\ Denotes(t, log, (j + 1) - r.m, r.code, s, r.end)
             /\ free < M => DecFree(b, log, j + 1) = free + 1
             /\ ~(free < M) => DecFree(b, log, j + 1) = free
             /\ log[j].code = CLEAR => r.code \in Byte /\ free = CLEAR
             /\ log[j].code # CLEAR =>
                  /\ Tabled(d.tab, t, log, (j + 1) - r.m, j, free)
                  /\ r.m = log[j].m + 1 /\ log[j].m \in Nat
                  /\ free = Lower(Literals + (r.m - 1), M)
                  /\ r.code \in Byte \/ r.code \in FIRST .. Literals + (r.m - 1)
<1> DEFINE a == After(b, log, j)  r == log[j + 1]  s == Done(log, j)
           free == d.free_ent  M == MAXCODE(b)  m == r.m
<1>1. /\ b \in Bits /\ InitBits < b /\ Literals >= 2 /\ j \in 0 .. Len(log)
      /\ Complete(b, t, log, f, bytes) /\ Tracks(b, d, t, log, j, out_)
  BY DEF Placing
<1>2. j # Len(log) /\ d.n_bits = a.n
  BY ReadyPlace
<1>3. j + 1 \in 1 .. Len(log) /\ r \in Entry /\ r.m = a.m /\ r.n = a.n
  BY <1>1, <1>2, EntryInside
<1>4. /\ Log(b, t, log) /\ j \in Nat /\ Len(log) \in Nat /\ t \in Seq(Byte) /\ Len(t) \in Nat
      /\ (j + 1) - 1 = j
  <2>1. Log(b, t, log) /\ j \in Nat /\ Len(log) \in Nat /\ t \in Seq(Byte)
    BY <1>1, ReadingParts
  <2> QED BY <2>1
<1>5. Entries(d, t, log, j) /\ InStep(b, d, log, j, a) /\ DecType(b, d)
  BY <1>1 DEF Tracks
<1>6. j \in 1 .. Len(log)
  <2>1. j # 0
    BY <1>5 DEF Entries
  <2> QED BY <2>1, <1>1, <1>4
<1>7. /\ r.end \in s + 1 .. Len(t) /\ Known(m, r.code) /\ s \in Nat /\ Done(log, j + 1) = r.end
      /\ Denotes(t, log, (j + 1) - m, r.code, s, r.end)
      /\ r.code < MAXCODE(r.n) /\ r.code \in Nat /\ m \in 1 .. j + 1
  <2> DEFINE i == j + 1
  <2>1. i \in 1 .. Len(log) /\ log[i].code # CLEAR
    BY <1>3
  <2> HIDE DEF i
  <2>2. /\ log[i].end \in Done(log, i - 1) + 1 .. Len(t) /\ Known(log[i].m, log[i].code)
        /\ Denotes(t, log, i - log[i].m, log[i].code, Done(log, i - 1), log[i].end)
        /\ Done(log, i) = log[i].end /\ log[i].code < MAXCODE(log[i].n) /\ log[i].m \in 1 .. i
    BY <2>1, <1>4, LogFields
  <2>3. i - 1 = j
    BY <1>4 DEF i
  <2>4. s \in Nat
    BY <1>1, <1>4, LogEnds
  <2>5. r.code \in Nat
    BY <1>3, EntryFields
  <2> QED BY <2>2, <2>3, <2>4, <2>5 DEF i
<1>8. M \in Nat /\ r.code < M /\ 2 * Literals <= M /\ free \in CLEAR .. M
  <2> DEFINE n == a.n
  <2>1. n \in InitBits .. b /\ b \in InitBits .. b
    <3>1. d.n_bits \in InitBits .. b
      BY <1>5, DecFields
    <3> QED BY <3>1, <1>1, <1>2, FirstWidth, Constants
  <2> HIDE DEF n
  <2>2. MAXCODE(n) \in Nat /\ M \in Nat /\ MAXCODE(n) <= M /\ 2 * Literals <= M
    BY <2>1, <1>1, FirstWidth
  <2>3. r.code < MAXCODE(n)
    BY <1>3, <1>7 DEF n
  <2>4. free \in CLEAR .. M
    BY <1>5, DecFields
  <2> HIDE DEF M, r
  <2> QED BY <2>2, <2>3, <2>4, <1>7
<1>9. free = DecFree(b, log, j) /\ DecFree(b, log, j + 1) = Lower(Literals + m, M)
  <2>1. j + 1 # 0
    BY <1>4
  <2> QED BY <2>1, <1>5 DEF InStep, DecFree
<1> HIDE DEF M, free
<1>10. CASE log[j].code = CLEAR
  <2>1. m = 1
    BY <1>3, <1>4, <1>6, <1>10, AfterFields
  <2>2. free = CLEAR
    BY <1>9, <1>6, <1>10 DEF DecFree
  <2>3. r.code \in Byte
    <3>1. r.code \in Byte \/ r.code \in FIRST .. FIRST + 1 - 2
      BY <2>1, <1>7 DEF Known
    <3>2. FIRST .. FIRST + 1 - 2 = {}
      BY Constants
    <3> QED BY <3>1, <3>2
  <2>4. free < M /\ DecFree(b, log, j + 1) = free + 1
    <3>1. Literals < M /\ Lower(Literals + 1, M) = Literals + 1
      BY <1>1, <1>8, Constants DEF Lower
    <3> QED BY <3>1, <2>1, <2>2, <1>9 DEF CLEAR
  <2> QED BY <2>1, <2>2, <2>3, <2>4, <1>3, <1>4, <1>6, <1>7, <1>8, <1>10 DEF M, free
<1>11. CASE log[j].code # CLEAR
  <2> DEFINE m0 == log[j].m  d0 == (j + 1) - m
  <2>1. m = m0 + 1 /\ m0 \in 1 .. j /\ m0 \in Nat
    <3>1. m0 \in 1 .. j
      BY <1>4, <1>6, LogFields
    <3>2. a.m = m0 + 1
      BY <1>4, <1>6, <1>11, AfterFields
    <3> QED BY <3>1, <3>2, <1>3
  <2>2. free = Lower(Literals + m0, M)
    BY <1>6, <1>9, <1>11 DEF DecFree, M
  <2> HIDE DEF m0
  <2>3. /\ free <= Literals + m0 /\ free \in Int /\ Literals + (m - 1) = Literals + m0
        /\ free < M => free + 1 = Lower(Literals + m, M)
        /\ ~(free < M) => free = Lower(Literals + m, M)
    <3> HIDE DEF m
    <3> QED BY <2>1, <2>2, <1>8, Constants DEF Lower
  <2>4. r.code \in Byte \/ r.code \in FIRST .. Literals + (m - 1)
    <3>1. r.code \in Byte \/ r.code \in FIRST .. FIRST + m - 2
      BY <1>7 DEF Known
    <3>2. FIRST + m - 2 = Literals + (m - 1)
      BY <2>1, Constants DEF FIRST
    <3> QED BY <3>1, <3>2
  <2>5. d0 \in 0 .. j /\ \A e \in d0 + 1 .. j : log[e].m = e - d0 /\ log[e].code # CLEAR
    <3>1. d0 = j + 1 - a.m
      BY <1>3, <1>4, <1>7
    <3> QED BY <3>1, <1>1, <1>4, Epoch
  <2>6. d0 = j - m0 /\ j - d0 = m0
    <3>1. m = m0 + 1 /\ m0 \in Int /\ j \in Int
      BY <2>1, <1>4
    <3> HIDE DEF m
    <3> QED BY <3>1
  <2>7. \A c \in FIRST .. free - 1 :
          LET e == Origin(d0, c)
          IN  d.tab[c] = [prefix |-> log[e].code, suffix |-> t[log[e].end + 1]]
    <3>1. \A c \in FIRST .. d.free_ent - 1 :
            LET e == Origin(j - log[j].m, c)
            IN  d.tab[c] = [prefix |-> log[e].code, suffix |-> t[log[e].end + 1]]
      BY <1>5, <1>6, <1>11 DEF Entries
    <3> HIDE DEF d0
    <3> QED BY <3>1, <2>6 DEF m0, free
  <2>8. Tabled(d.tab, t, log, d0, j, free)
    <3>1. d0 \in Nat /\ j \in d0 .. Len(log)
      <4>1. d0 \in 0 .. j
        BY <2>5
      <4> HIDE DEF d0
      <4> QED BY <4>1, <1>1, <1>4
    <3>2. free <= Literals + (j - d0)
      BY <2>3, <2>6
    <3> HIDE DEF d0
    <3> QED BY <3>1, <3>2, <2>3, <2>5, <2>7 DEF Tabled
  <2>9. free = Lower(Literals + (m - 1), M)
    BY <2>2, <2>3
  <2> QED BY <2>1, <2>3, <2>4, <2>8, <2>9, <1>3, <1>4, <1>6, <1>7, <1>8, <1>9, <1>11 DEF M, free, m0
<1> QED BY <1>10, <1>11


LEMMA StringRead ==
  ASSUME block_mode, NEW b, NEW log, NEW j, NEW f, NEW bytes, NEW t, NEW out_,
         Placing(b, dec, log, j, f, bytes, t, out_),
         dec.inbits > dec.posbits, dec.free_ent <= dec.maxcode, dec.oldcode # -1,
         log[j + 1].code # CLEAR
  PROVE  LET r == log[j + 1]
             string == IF r.code = dec.free_ent THEN Append(Expand(dec.oldcode), dec.finchar)
                       ELSE Expand(r.code)
         IN  r.code <= dec.free_ent /\ string = Str(t, Done(log, j), r.end)
<1> DEFINE r == log[j + 1]  s == Done(log, j)  free == dec.free_ent  M == MAXCODE(b)
           code == r.code  m == r.m  d0 == (j + 1) - m  z == r.end
<1>1. /\ Log(b, t, log) /\ j \in 1 .. Len(log) /\ j + 1 \in 1 .. Len(log)
      /\ s \in Nat /\ z \in s + 1 .. Len(t) /\ Len(t) \in Nat /\ t \in Seq(Byte)
      /\ code \in Nat /\ code < M /\ M \in Nat /\ free \in CLEAR .. M
      /\ Denotes(t, log, d0, code, s, z)
      /\ log[j].code = CLEAR => code \in Byte /\ free = CLEAR
      /\ log[j].code # CLEAR =>
           /\ Tabled(dec.tab, t, log, d0, j, free)
           /\ m = log[j].m + 1 /\ log[j].m \in Nat
           /\ free = Lower(Literals + (m - 1), M)
           /\ code \in Byte \/ code \in FIRST .. Literals + (m - 1)
  BY NextRead
<1>2. z \in Nat /\ s + 1 <= z /\ z <= Len(t) /\ s < Len(t) /\ free \in Nat /\ Literals <= free
  BY <1>1, Constants DEF CLEAR
<1>3. Spelling(t, log, d0, code) = Str(t, s, z)
  <2> HIDE DEF r, d0, code, s, z
  <2> QED BY <1>1, <1>2, Spelled DEF code, z
<1> HIDE DEF r, d0, s, M
<1>4. ASSUME code \in Byte
      PROVE  code < free /\ Expand(code) = <<code>>
  <2>1. code < free
    <3> HIDE DEF code, free
    <3> QED BY <1>2, <1>4, Constants DEF Byte
  <2>2. Tabled(dec.tab, t, log, j, j, CLEAR)
    <3>1. j \in Nat /\ Len(log) \in Nat /\ j \in j .. Len(log)
      BY <1>1
    <3>2. j + 1 .. j = {} /\ FIRST .. CLEAR - 1 = {} /\ CLEAR <= Literals + (j - j) /\ CLEAR \in Int
      BY <3>1, Constants DEF FIRST, CLEAR
    <3> QED BY <3>1, <3>2 DEF Tabled
  <2>3. Expand(code) = Spelling(t, log, j, code)
    <3> HIDE DEF code
    <3> QED BY <2>2, <1>1, <1>4, Expanded
  <2> QED BY <2>1, <2>3, <1>4 DEF Spelling
<1>5. CASE code \in Byte
  <2>1. code < free /\ Expand(code) = <<code>>
    BY <1>4, <1>5
  <2>2. code # free /\ code <= free
    <3> HIDE DEF code, free
    <3> QED BY <2>1, <1>1, <1>2
  <2>3. Spelling(t, log, d0, code) = <<code>>
    BY <1>5 DEF Spelling
  <2> QED BY <2>1, <2>2, <2>3, <1>3 DEF r, s
<1>6. CASE code \notin Byte
  <2>1. /\ log[j].code # CLEAR /\ Tabled(dec.tab, t, log, d0, j, free)
        /\ m = log[j].m + 1 /\ log[j].m \in Nat
        /\ free = Lower(Literals + (m - 1), M)
        /\ code \in FIRST .. Literals + (m - 1)
    BY <1>1, <1>6
  <2>2. code <= free /\ (code = free => free = Literals + (m - 1))
    <3> DEFINE x == Literals + (m - 1)
    <3>1. x \in Int /\ code <= x /\ code \in Nat /\ code < M /\ M \in Nat /\ free = Lower(x, M)
      <4>1. m \in Int
        <5> HIDE DEF m
        <5> QED BY <2>1
      <4>2. x \in Int
        <5> HIDE DEF m
        <5> QED BY <4>1, Constants
      <4>3. code <= x
        <5> HIDE DEF x, code
        <5> QED BY <4>2, <2>1, Constants DEF x
      <4> QED BY <4>2, <4>3, <1>1, <2>1
    <3> HIDE DEF x, code, free, M
    <3>2. code <= free /\ (code = free => free = x)
      BY <3>1 DEF Lower
    <3> QED BY <3>2 DEF x
  <2>3. CASE code # free
    <3>1. code \in FIRST .. free - 1
      <4>1. code \in Int /\ FIRST <= code
        <5> HIDE DEF code, m
        <5>1. m \in Int
          BY <2>1
        <5> QED BY <5>1, <2>1, Constants
      <4> HIDE DEF code, free
      <4> QED BY <4>1, <2>2, <2>3, <1>2, Constants
    <3>2. Expand(code) = Spelling(t, log, d0, code)
      <4> HIDE DEF code, free
      <4> QED BY <3>1, <2>1, <1>1, Expanded
    <3> QED BY <3>2, <2>2, <2>3, <1>3 DEF r, s
  <2>4. CASE code = free
    <3> DEFINE m0 == log[j].m  g == Done(log, j - 1)  o == log[j].code
    <3>1. free = Literals + m0 /\ m0 \in Nat /\ m = m0 + 1
      <4> HIDE DEF m, m0
      <4>1. m = m0 + 1 /\ m0 \in Nat
        BY <2>1 DEF m0
      <4>2. Literals + (m - 1) = Literals + m0
        BY <4>1, Constants
      <4> QED BY <4>1, <4>2, <2>2, <2>4
    <3>2. /\ Known(m0, o) /\ Denotes(t, log, j - m0, o, g, log[j].end)
          /\ s = log[j].end /\ g \in Nat /\ g <= s /\ log[j].end \in Nat
      <4>1. Known(m0, o) /\ Denotes(t, log, j - m0, o, g, log[j].end) /\ Done(log, j) = log[j].end
        BY <1>1, <2>1, LogFields
      <4>2. j \in 0 .. Len(log) /\ j - 1 \in 0 .. j /\ j - 1 \in 0 .. Len(log)
        BY <1>1
      <4>3. g \in Nat /\ g <= Done(log, j)
        BY <4>2, <1>1, LogEnds
      <4> QED BY <4>1, <4>3, <1>1 DEF s
    <3>3. /\ dec.oldcode = o /\ dec.finchar = t[g + 1]
      <4>1. Entries(dec, t, log, j) /\ j > 0
        BY <1>1 DEF Placing, Tracks
      <4> QED BY <4>1, <2>1 DEF Entries
    <3>4. d0 = j - m0 /\ Origin(d0, code) = j
      <4>1. j \in Int /\ m0 \in Int /\ m = m0 + 1 /\ code = Literals + m0 /\ Literals \in Int
        BY <1>1, <3>1, <2>4, Constants
      <4>2. d0 = (j + 1) - m
        BY DEF d0
      <4> HIDE DEF m, m0, code
      <4>3. d0 = j - m0
        BY <4>1, <4>2
      <4> QED BY <4>1, <4>3 DEF Origin, FIRST
    <3>5. Expand(o) = Str(t, g, s)
      <4>1. o \in Byte \/ o \in FIRST .. free - 1
        <5>1. o \in Byte \/ o \in FIRST .. FIRST + m0 - 2
          BY <3>2 DEF Known
        <5>2. FIRST + m0 - 2 = free - 1
          <6> HIDE DEF m0, free
          <6> QED BY <3>1, Constants DEF FIRST
        <5> QED BY <5>1, <5>2
      <4> HIDE DEF o, free, m0
      <4>2. Expand(o) = Spelling(t, log, d0, o)
        BY <4>1, <2>1, <1>1, Expanded
      <4>3. Denotes(t, log, d0, o, g, s)
        BY <3>2, <3>4
      <4> HIDE DEF g
      <4>4. Spelling(t, log, d0, o) = Str(t, g, s)
        BY <4>3, <3>2, <1>1, Spelled
      <4> QED BY <4>2, <4>4
    <3>6. z - s = (log[j].end + 1) - g /\ \A k \in 1 .. z - s : t[s + k] = t[g + k]
      <4>1. z - s = (log[j].end + 1) - Done(log, j - 1) /\ Piece(t, s, z, Done(log, j - 1))
        BY <1>1, <1>6, <3>4 DEF Denotes
      <4> QED BY <4>1 DEF Piece
    <3> HIDE DEF z, g, code, o
    <3>7. t[s + 1] = t[g + 1]
      <4>1. 1 \in 1 .. z - s
        BY <1>1, <1>2
      <4> QED BY <4>1, <3>6
    <3>8. Append(Str(t, g, s), t[s + 1]) = Str(t, g, s + 1)
      BY <1>1, <1>2, <3>2, StrNext
    <3>9. Str(t, g, s + 1) = Str(t, s, z)
      <4>1. (s + 1) - g = z - s
        BY <3>2, <3>6
      <4> QED BY <4>1, <3>6 DEF Str
    <3>10. Append(Expand(dec.oldcode), dec.finchar) = Str(t, s, z)
      BY <3>3, <3>5, <3>7, <3>8, <3>9
    <3>11. code <= free
      BY <2>2
    <3> QED BY <3>10, <3>11, <2>4 DEF r, s, z, code
  <2> QED BY <2>3, <2>4
<1> QED BY <1>5, <1>6


LEMMA DecodedMore ==
  ASSUME NEW t \in Seq(Byte), NEW log, NEW j, NEW out_, Decoded(t, log, j, out_),
         NEW i, NEW s \in Nat, s = Done(log, j), NEW z \in s + 1 .. Len(t), z = Done(log, i)
  PROVE  Decoded(t, log, i, out_ \o Str(t, s, z))
<1> DEFINE u == Str(t, s, z)  o == out_ \o u
<1>1. out_ \in Seq(Byte) /\ Len(out_) = s /\ \A k \in 1 .. s : out_[k] = t[k]
  BY DEF Decoded
<1>2. u \in Seq(Byte) /\ Len(u) = z - s /\ \A k \in 1 .. z - s : u[k] = t[s + k]
  <2>1. z \in Nat /\ s <= z /\ z <= Len(t)
    BY Len(t) \in Nat
  <2> HIDE DEF u
  <2>2. t \in Seq(Byte) /\ s \in Nat
    OBVIOUS
  <2>3. /\ Str(t, s, z) \in Seq(Byte) /\ Len(Str(t, s, z)) = z - s
        /\ \A k \in 1 .. z - s : Str(t, s, z)[k] = t[s + k]
    BY <2>1, <2>2 DEF Str
  <2> QED BY <2>3 DEF u
<1> HIDE DEF u
<1>3. /\ o \in Seq(Byte) /\ Len(o) = s + (z - s)
      /\ \A k \in 1 .. s : o[k] = out_[k]
      /\ \A k \in 1 .. z - s : o[s + k] = u[k]
  <2>1. out_ \in Seq(Byte) /\ u \in Seq(Byte)
    BY <1>1, <1>2
  <2> HIDE <1>1, <1>2
  <2>2. /\ o \in Seq(Byte) /\ Len(o) = Len(out_) + Len(u)
        /\ \A k \in 1 .. Len(out_) : o[k] = out_[k]
        /\ \A k \in 1 .. Len(u) : o[Len(out_) + k] = u[k]
    BY <2>1
  <2> HIDE DEF o
  <2> QED BY <2>2, <1>1, <1>2
<1>4. z \in Nat /\ s + (z - s) = z
  BY Len(t) \in Nat
<1> HIDE DEF o
<1>5. ASSUME NEW k \in 1 .. z PROVE o[k] = t[k]
  <2>1. CASE k <= s
    BY <2>1, <1>1, <1>3
  <2>2. CASE ~(k <= s)
    <3> DEFINE l == k - s
    <3>1. l \in 1 .. z - s /\ k = s + l
      BY <2>2, <1>4
    <3> HIDE DEF l
    <3> QED BY <3>1, <1>2, <1>3
  <2> QED BY <2>1, <2>2
<1> QED BY <1>3, <1>4, <1>5 DEF Decoded, o, u

\* A table with one entry more; when it is full it stays as it is.
LEMMA TabledMore ==
  ASSUME NEW tab, NEW t, NEW log, NEW d, NEW J, NEW free, Tabled(tab, t, log, d, J, free),
         FIRST .. free - 1 \subseteq DOMAIN tab, free = Literals + (J - d),
         NEW o, o = log[J].code, NEW x, x = t[log[J].end + 1], NEW tab2,
         tab2 = With(tab, free, [prefix |-> o, suffix |-> x])
  PROVE  /\ FIRST .. (free + 1) - 1 \subseteq DOMAIN tab2
         /\ \A c \in FIRST .. (free + 1) - 1 :
               LET e == Origin(d, c)
               IN  tab2[c] = [prefix |-> log[e].code, suffix |-> t[log[e].end + 1]]
<1>1. /\ d \in Nat /\ J \in Nat /\ free \in Int /\ Literals \in Nat /\ FIRST = Literals + 1
      /\ \A c \in FIRST .. free - 1 :
            LET e == Origin(d, c)
            IN  tab[c] = [prefix |-> log[e].code, suffix |-> t[log[e].end + 1]]
  <2>1. d \in Nat /\ free \in Int /\ J \in d .. Len(log)
    BY DEF Tabled
  <2>2. J \in Nat
    BY <2>1
  <2> QED BY <2>1, <2>2, Constants DEF Tabled, FIRST
<1>2. DOMAIN tab2 = DOMAIN tab \cup {free} /\ tab2[free] = [prefix |-> o, suffix |-> x]
      /\ \A c \in DOMAIN tab : c # free => tab2[c] = tab[c]
  BY DEF With
<1>3. FIRST .. (free + 1) - 1 \subseteq DOMAIN tab2
  <2>1. \A c \in FIRST .. (free + 1) - 1 : c \in FIRST .. free - 1 \/ c = free
    BY <1>1
  <2> QED BY <2>1, <1>2
<1>4. ASSUME NEW c \in FIRST .. (free + 1) - 1
      PROVE  tab2[c] = [prefix |-> log[Origin(d, c)].code, suffix |-> t[log[Origin(d, c)].end + 1]]
  <2>1. CASE c = free
    <3>1. Origin(d, c) = J
      <4>1. \A a, k, y \in Int : a + ((y + (k - a)) - (y + 1)) + 1 = k
        OBVIOUS
      <4>2. d + ((Literals + (J - d)) - (Literals + 1)) + 1 = J
        BY <4>1, <1>1
      <4> QED BY <4>2, <2>1, <1>1 DEF Origin
    <3> QED BY <3>1, <2>1, <1>2
  <2>2. CASE c # free
    <3>1. c \in FIRST .. free - 1
      BY <2>2, <1>1
    <3>2. tab2[c] = tab[c]
      BY <3>1, <2>2, <1>2
    <3>3. tab[c] = [prefix |-> log[Origin(d, c)].code, suffix |-> t[log[Origin(d, c)].end + 1]]
      BY <3>1, <1>1
    <3> QED BY <3>2, <3>3
  <2> QED BY <2>1, <2>2
<1> QED BY <1>3, <1>4

\* The record after a code.
Learnt(d, code, x, full) ==
    LET w == [d EXCEPT !.posbits = @ + d.n_bits, !.finchar = x, !.oldcode = code]
    IN  IF full THEN w
        ELSE [w EXCEPT !.tab = With(@, d.free_ent, [prefix |-> d.oldcode, suffix |-> x]),
                       !.free_ent = @ + 1]

LEMMA LearntFields ==
  ASSUME NEW b, NEW d, DecType(b, d), NEW code \in Nat, NEW x \in Byte, NEW full \in BOOLEAN,
         d.n_bits \in Nat, ~full => d.free_ent + 1 \in CLEAR .. MAXCODE(b)
  PROVE  LET w == Learnt(d, code, x, full)
         IN  /\ DecType(b, w)
             /\ full => Advanced(d, w, d.free_ent)
             /\ ~full => Advanced(d, w, d.free_ent + 1)
             /\ w.oldcode = code /\ w.finchar = x
             /\ full => w.tab = d.tab
             /\ ~full => w.tab = With(d.tab, d.free_ent, [prefix |-> d.oldcode, suffix |-> x])
<1> DEFINE p == d.posbits + d.n_bits
           u == [d EXCEPT !.posbits = p, !.finchar = x, !.oldcode = code]
<1>1. p \in Nat
  BY DecFields
<1> HIDE DEF p
<1>2. /\ DecType(b, u) /\ u.posbits = p /\ u.free_ent = d.free_ent
      /\ u.base = d.base /\ u.insize = d.insize /\ u.rsize = d.rsize /\ u.inbits = d.inbits
      /\ u.n_bits = d.n_bits /\ u.maxcode = d.maxcode
      /\ u.oldcode = code /\ u.finchar = x /\ u.tab = d.tab
  BY <1>1 DEF DecType
<1>3. CASE full
  <2>1. Learnt(d, code, x, full) = u
    BY <1>3 DEF Learnt, p
  <2> HIDE DEF u
  <2> QED BY <2>1, <1>2, <1>3 DEF Advanced, p
<1>4. CASE ~full
  <2> DEFINE g == d.free_ent + 1  tab2 == With(d.tab, d.free_ent, [prefix |-> d.oldcode, suffix |-> x])
             w == [u EXCEPT !.tab = tab2, !.free_ent = g]
  <2>1. Learnt(d, code, x, full) = w
    <3>1. Learnt(d, code, x, full)
            = [u EXCEPT !.tab = With(@, d.free_ent, [prefix |-> d.oldcode, suffix |-> x]),
                        !.free_ent = @ + 1]
      BY <1>4 DEF Learnt, p
    <3> HIDE DEF u
    <3> QED BY <3>1, <1>2
  <2>2. g \in CLEAR .. MAXCODE(b)
    BY <1>4
  <2> HIDE DEF g, tab2, u
  <2>3. /\ DecType(b, w) /\ w.posbits = u.posbits /\ w.free_ent = g
        /\ w.base = u.base /\ w.insize = u.insize /\ w.rsize = u.rsize /\ w.inbits = u.inbits
        /\ w.n_bits = u.n_bits /\ w.maxcode = u.maxcode
        /\ w.oldcode = u.oldcode /\ w.finchar = u.finchar /\ w.tab = tab2
    BY <1>2, <2>2 DEF DecType
  <2> HIDE DEF w
  <2> QED BY <2>1, <2>3, <1>2, <1>4 DEF Advanced, p, g, tab2
<1> QED BY <1>3, <1>4

LEMMA LearntKeeps ==
  ASSUME NEW b, NEW d, NEW log, NEW j, NEW f, NEW bytes, NEW t, NEW out_,
         Placing(b, d, log, j, f, bytes, t, out_),
         d.inbits > d.posbits, d.free_ent <= d.maxcode, d.oldcode # -1,
         log[j + 1].code # CLEAR,
         NEW w, w = Learnt(d, log[j + 1].code, t[Done(log, j) + 1], ~(d.free_ent < MAXCODE(b)))
  PROVE  /\ j + 1 \in 0 .. Len(log)
         /\ Tracks(b, w, t, log, j + 1, out_ \o Str(t, Done(log, j), log[j + 1].end))
         /\ Buffered(w, bytes) /\ InCodes(w) /\ Grouped(w, After(b, log, j + 1))
<1> DEFINE r == log[j + 1]  s == Done(log, j)  free == d.free_ent  M == MAXCODE(b)
           code == r.code  m == r.m  d0 == (j + 1) - m  z == r.end  x == t[s + 1]
           free2 == DecFree(b, log, j + 1)
<1>1. /\ Log(b, t, log) /\ j \in 1 .. Len(log) /\ j + 1 \in 1 .. Len(log)
      /\ s \in Nat /\ z \in s + 1 .. Len(t) /\ Len(t) \in Nat /\ t \in Seq(Byte)
      /\ Done(log, j + 1) = z
      /\ code \in Nat /\ code < M /\ M \in Nat /\ free \in CLEAR .. M
      /\ free < M => free2 = free + 1
      /\ ~(free < M) => free2 = free
      /\ log[j].code = CLEAR => code \in Byte /\ free = CLEAR
      /\ log[j].code # CLEAR =>
           /\ Tabled(d.tab, t, log, d0, j, free)
           /\ m = log[j].m + 1 /\ log[j].m \in Nat
           /\ free = Lower(Literals + (m - 1), M)
  BY NextRead
<1>2. x \in Byte
  <2>1. s + 1 \in 1 .. Len(t)
    BY <1>1
  <2> QED BY <2>1, <1>1
<1>3. /\ Tracks(b, d, t, log, j, out_) /\ DecType(b, d) /\ Entries(d, t, log, j)
      /\ Decoded(t, log, j, out_) /\ d.n_bits \in Nat
  <2>1. d.n_bits \in Nat
    BY PlacingParts
  <2> QED BY <2>1 DEF Placing, Tracks
<1>4. /\ DecType(b, w) /\ Advanced(d, w, free2) /\ w.oldcode = code /\ w.finchar = x
      /\ ~(free < M) => w.tab = d.tab
      /\ free < M => w.tab = With(d.tab, free, [prefix |-> d.oldcode, suffix |-> x])
  <2> DEFINE full == ~(free < M)
  <2>1. full \in BOOLEAN /\ (~full => free + 1 \in CLEAR .. M)
    <3> HIDE DEF free, M
    <3> QED BY <1>1, Constants
  <2>2. (full => free2 = d.free_ent) /\ (~full => free2 = d.free_ent + 1)
    BY <1>1
  <2>3. w = Learnt(d, code, x, full)
    OBVIOUS
  <2>4. DecType(b, d) /\ code \in Nat /\ x \in Byte /\ full \in BOOLEAN /\ d.n_bits \in Nat
    BY <1>1, <1>2, <1>3, <2>1
  <2>5. ~full => d.free_ent + 1 \in CLEAR .. MAXCODE(b)
    BY <2>1
  <2> HIDE DEF full, code, x, free2, free, M
  <2>6. /\ DecType(b, w)
        /\ full => Advanced(d, w, d.free_ent)
        /\ ~full => Advanced(d, w, d.free_ent + 1)
        /\ w.oldcode = code /\ w.finchar = x
        /\ full => w.tab = d.tab
        /\ ~full => w.tab = With(d.tab, d.free_ent, [prefix |-> d.oldcode, suffix |-> x])
    BY <2>3, <2>4, <2>5, LearntFields
  <2> QED BY <2>2, <2>6 DEF full, free
<1>5. /\ InStep(b, w, log, j + 1, After(b, log, j + 1))
      /\ Buffered(w, bytes) /\ InCodes(w) /\ Grouped(w, After(b, log, j + 1))
  BY <1>4, NextStep
<1>6. Decoded(t, log, j + 1, out_ \o Str(t, s, z))
  <2>1. t \in Seq(Byte) /\ s \in Nat /\ z \in s + 1 .. Len(t) /\ z = Done(log, j + 1)
    BY <1>1
  <2> HIDE DEF z
  <2> QED BY <2>1, <1>3, DecodedMore
<1> HIDE DEF free2, M
<1>7. /\ w.oldcode # -1 /\ j + 1 # 0 /\ j + 1 > 0 /\ (j + 1) - 1 = j
  <2>1. code # -1
    BY <1>1
  <2> QED BY <2>1, <1>1, <1>4
<1>8. w.free_ent = free2
  BY <1>4 DEF Advanced
<1>9. /\ FIRST .. free2 - 1 \subseteq DOMAIN w.tab
      /\ \A c \in FIRST .. free2 - 1 :
            LET e == Origin(d0, c)
            IN  w.tab[c] = [prefix |-> log[e].code, suffix |-> t[log[e].end + 1]]
  <2>1. CASE log[j].code = CLEAR
    <3>1. FIRST .. free2 - 1 = {}
      <4>1. free = CLEAR
        BY <1>1, <2>1
      <4>2. free2 = CLEAR \/ free2 = CLEAR + 1
        BY <1>1, <4>1
      <4> QED BY <4>2, Constants DEF FIRST, CLEAR
    <3> QED BY <3>1
  <2>2. CASE log[j].code # CLEAR
    <3>1. /\ Tabled(d.tab, t, log, d0, j, free) /\ m = log[j].m + 1 /\ log[j].m \in Nat
          /\ free = Lower(Literals + (m - 1), M)
      BY <1>1, <2>2
    <3>2. d.oldcode = log[j].code /\ FIRST .. free - 1 \subseteq DOMAIN d.tab
      <4>1. j > 0
        BY <1>1
      <4> QED BY <4>1, <1>3, <2>2 DEF Entries
    <3>3. x = t[log[j].end + 1]
      <4>1. s = log[j].end
        BY <1>1, LogFields
      <4> QED BY <4>1
    <3>4. CASE free < M
      <4>1. free = Literals + (j - d0)
        <5>1. free = Literals + (m - 1)
          <6> DEFINE y == Literals + (m - 1)
          <6>1. free = Lower(y, M)
            BY <3>1
          <6> HIDE DEF y
          <6>2. M \in Nat
            BY <1>1 DEF M
          <6>3. free = y
            BY <6>1, <6>2, <3>4 DEF Lower
          <6> QED BY <6>3 DEF y
        <5>2. m \in Int /\ j \in Int
          <6> HIDE DEF m
          <6> QED BY <3>1, <1>1
        <5> HIDE DEF m
        <5>3. j - d0 = m - 1
          BY <5>2
        <5> QED BY <5>1, <5>3
      <4> HIDE DEF d0, free, x
      <4>2. w.tab = With(d.tab, free, [prefix |-> log[j].code, suffix |-> x])
        BY <1>4, <3>2, <3>4
      <4>3. /\ FIRST .. (free + 1) - 1 \subseteq DOMAIN w.tab
            /\ \A c \in FIRST .. (free + 1) - 1 :
                  LET e == Origin(d0, c)
                  IN  w.tab[c] = [prefix |-> log[e].code, suffix |-> t[log[e].end + 1]]
        BY <3>1, <3>2, <3>3, <4>1, <4>2, TabledMore
      <4> QED BY <4>3, <3>4, <1>1
    <3>5. CASE ~(free < M)
      <4>1. w.tab = d.tab /\ free2 = free
        BY <3>5, <1>1, <1>4
      <4> QED BY <4>1, <3>1, <3>2 DEF Tabled
    <3> QED BY <3>4, <3>5
  <2> QED BY <2>1, <2>2
<1>10. Entries(w, t, log, j + 1)
  <2>1. /\ w.oldcode = log[j + 1].code /\ w.finchar = t[Done(log, (j + 1) - 1) + 1]
        /\ FIRST .. w.free_ent - 1 \subseteq DOMAIN w.tab
        /\ \A c \in FIRST .. w.free_ent - 1 :
              LET e == Origin((j + 1) - log[j + 1].m, c)
              IN  w.tab[c] = [prefix |-> log[e].code, suffix |-> t[log[e].end + 1]]
    BY <1>4, <1>7, <1>8, <1>9
  <2> QED BY <2>1, <1>7 DEF Entries
<1>11. j + 1 \in 0 .. Len(log)
  BY <1>1
<1> QED BY <1>4, <1>5, <1>6, <1>10, <1>11 DEF Tracks


LEMMA NextCodeKeeps ==
  ASSUME Modes, Static, NEW log, Reading(log), Decompressing, NextCode
  PROVE  Decompressing' /\ Reading(log)'
<1>1. PICK j \in 0 .. Len(log) :
         /\ Placing(maxbits, dec, log, j, file, FileBytes, text, out)
         /\ dec.inbits > dec.posbits /\ dec.free_ent <= dec.maxcode
         /\ j # Len(log) /\ Code = log[j + 1].code
  BY CodeRead DEF NextCode
<1> DEFINE s == Done(log, j)  z == log[j + 1].end  code == log[j + 1].code  x == text[s + 1]
           w == Learnt(dec, code, x, ~(dec.free_ent < MAXCODE(maxbits)))
           string == IF code = dec.free_ent THEN Append(Expand(dec.oldcode), dec.finchar)
                     ELSE Expand(code)
<1>2. block_mode /\ code # CLEAR /\ dec.oldcode # -1 /\ pc = "codes"
  <2>1. block_mode
    BY Wider
  <2> QED BY <2>1, <1>1 DEF NextCode, Cleared, Ready, More
<1>3. code <= dec.free_ent /\ string = Str(text, s, z)
  BY <1>1, <1>2, StringRead
<1>4. /\ s \in Nat /\ z \in s + 1 .. Len(text) /\ Len(text) \in Nat /\ text \in Seq(Byte)
      /\ code \in Nat /\ dec.free_ent \in Int
  <2>1. /\ s \in Nat /\ z \in s + 1 .. Len(text) /\ Len(text) \in Nat /\ text \in Seq(Byte)
        /\ code \in Nat /\ dec.free_ent \in CLEAR .. MAXCODE(maxbits)
    BY <1>1, <1>2, NextRead
  <2> QED BY <2>1
<1>5. Head(string) = x
  <2>1. 1 \in 1 .. z - s /\ s \in Nat /\ z \in Nat
    BY <1>4
  <2> HIDE DEF z
  <2>2. Str(text, s, z)[1] = text[s + 1] /\ Head(Str(text, s, z)) = Str(text, s, z)[1]
    BY <2>1 DEF Str
  <2> QED BY <2>2, <1>3
<1>6. /\ out' = out \o string /\ pc' = pc /\ UNCHANGED <<maxbits, block_mode, text, enc, file>>
      /\ LET d == [Taken EXCEPT !.finchar = Head(string), !.oldcode = code]
         IN  dec' = IF dec.free_ent < MAXCODE(maxbits) THEN NewEntry(d, Head(string)) ELSE d
  <2>1. ~(code > dec.free_ent)
    BY <1>3, <1>4
  <2>2. Code = code
    BY <1>1
  <2> HIDE DEF code
  <2> QED BY <2>1, <2>2 DEF NextCode, string
<1> HIDE DEF string, code, s, z
<1>7. dec' = w
  <2> DEFINE d == [dec EXCEPT !.posbits = @ + dec.n_bits, !.finchar = x, !.oldcode = code]
  <2>1. [Taken EXCEPT !.finchar = Head(string), !.oldcode = code] = d
    BY <1>5 DEF Taken
  <2>2. dec' = IF dec.free_ent < MAXCODE(maxbits) THEN NewEntry(d, x) ELSE d
    BY <2>1, <1>5, <1>6
  <2>3. NewEntry(d, x) = [d EXCEPT !.tab = With(@, dec.free_ent, [prefix |-> dec.oldcode, suffix |-> x]),
                                   !.free_ent = @ + 1]
    BY DEF NewEntry
  <2> HIDE DEF x
  <2> QED BY <2>2, <2>3 DEF Learnt
<1>8. /\ j + 1 \in 0 .. Len(log)
      /\ Tracks(maxbits, w, text, log, j + 1, out \o Str(text, s, z))
      /\ Buffered(w, FileBytes) /\ InCodes(w) /\ Grouped(w, After(maxbits, log, j + 1))
  BY <1>1, <1>2, LearntKeeps DEF s, z, code
<1> HIDE DEF w, x
<1>9. /\ Tracks(maxbits, dec, text, log, j + 1, out)' /\ Buffered(dec, FileBytes)'
      /\ InCodes(dec)' /\ Grouped(dec, After(maxbits, log, j + 1))'
  BY <1>3, <1>6, <1>7, <1>8 DEF FileBytes
<1>10. pc' = "codes"
  BY <1>2, <1>6
<1> QED BY <1>6, <1>8, <1>9, <1>10, StillReading

\* The first code is a byte.
LEMMA FirstRead ==
  ASSUME NEW b, NEW d, NEW log, NEW j, NEW f, NEW bytes, NEW t, NEW out_,
         Placing(b, d, log, j, f, bytes, t, out_),
         d.inbits > d.posbits, d.free_ent <= d.maxcode, d.oldcode = -1, j # Len(log)
  PROVE  LET r == log[1]
         IN  /\ j = 0 /\ 1 \in 1 .. Len(log) /\ Len(log) \in Nat
             /\ r.code \in Byte /\ r.code # CLEAR /\ r.m = 1 /\ r.end = 1
             /\ Done(log, 0) = 0 /\ Done(log, 1) = 1
             /\ t \in Seq(Byte) /\ Len(t) \in Nat /\ 1 \in 1 .. Len(t) /\ t[1] = r.code
             /\ d.free_ent = FIRST /\ DecFree(b, log, 1) = FIRST
<1> DEFINE r == log[1]
<1>1. /\ b \in Bits /\ InitBits < b /\ Complete(b, t, log, f, bytes)
      /\ j \in 0 .. Len(log) /\ Tracks(b, d, t, log, j, out_)
  BY DEF Placing
<1>2. j = 0 /\ d.free_ent = DecFree(b, log, 0)
  BY <1>1 DEF Tracks, Entries, InStep
<1>3. Log(b, t, log) /\ t \in Seq(Byte) /\ Len(t) \in Nat /\ Len(log) \in Nat
  BY <1>1 DEF Complete, Log
<1>4. 1 \in 1 .. Len(log)
  BY <1>1, <1>2, <1>3
<1>5. Done(log, 0) = 0 /\ Done(log, 1) = r.end
  BY <1>3, <1>4, LogFields DEF Done
<1>6. r.m = 1
  <2>1. r.m \in 1 .. 1
    BY <1>3, <1>4 DEF Log, Counts
  <2> QED BY <2>1
<1>7. r.code # CLEAR
  <2>1. r.code = CLEAR => 1 > 1
    BY <1>3, <1>4 DEF Log, Told
  <2> QED BY <2>1
<1>8. r.end \in 1 .. Len(t) /\ Known(1, r.code) /\ Denotes(t, log, 0, r.code, 0, r.end)
  <2>1. 1 - 1 = 0 /\ 0 + 1 = 1
    OBVIOUS
  <2>2. /\ r.end \in 0 + 1 .. Len(t) /\ Known(r.m, r.code)
        /\ Denotes(t, log, 1 - r.m, r.code, Done(log, 1 - 1), r.end)
    <3>1. LET s == Done(log, 1 - 1)
          IN  /\ r.end \in s + 1 .. Len(t) /\ Known(r.m, r.code)
              /\ Denotes(t, log, 1 - r.m, r.code, s, r.end)
      BY <1>3, <1>4, <1>7 DEF Log, Told
    <3> QED BY <3>1, <2>1, <1>5
  <2> QED BY <2>1, <2>2, <1>5, <1>6
<1> HIDE DEF r
<1>9. r.code \in Byte
  <2>1. r.code \in Byte \/ r.code \in FIRST .. FIRST + 1 - 2
    BY <1>8 DEF Known
  <2>2. FIRST .. FIRST + 1 - 2 = {}
    BY Constants
  <2> QED BY <2>1, <2>2
<1>10. r.end = 1 /\ t[1] = r.code
  <2>1. r.end - 0 = 1 /\ t[0 + 1] = r.code
    BY <1>8, <1>9 DEF Denotes
  <2> QED BY <2>1, <1>8
<1>11. DecFree(b, log, 0) = FIRST /\ DecFree(b, log, 1) = FIRST
  <2>1. DecFree(b, log, 1) = Lower(Literals + 1, MAXCODE(b))
    BY <1>6, <1>7 DEF DecFree, r
  <2>2. MAXCODE(b) \in Nat /\ FIRST <= MAXCODE(b)
    <3>1. InitBits \in InitBits .. b /\ b \in InitBits .. b /\ InitBits # b
      <4>1. b \in Nat /\ InitBits \in Nat
        BY <1>1, FirstWidth, Constants
      <4> QED BY <4>1, <1>1
    <3>2. MAXCODE(b) \in Nat /\ 2 * Literals <= MAXCODE(b)
      BY <1>1, <3>1, FirstWidth
    <3> QED BY <3>2, Constants DEF FIRST
  <2> QED BY <2>1, <2>2, Constants DEF DecFree, Lower, FIRST
<1> QED BY <1>2, <1>3, <1>4, <1>5, <1>6, <1>7, <1>8, <1>9, <1>10, <1>11 DEF r


LEMMA FirstCodeKeeps ==
  ASSUME Modes, Static, NEW log, Reading(log), Decompressing, FirstCode
  PROVE  Decompressing' /\ Reading(log)'
<1>1. PICK j \in 0 .. Len(log) :
         /\ Placing(maxbits, dec, log, j, file, FileBytes, text, out)
         /\ dec.inbits > dec.posbits /\ dec.free_ent <= dec.maxcode
         /\ j # Len(log) /\ Code = log[j + 1].code
  BY CodeRead DEF FirstCode
<1> DEFINE code == log[1].code
           p == dec.posbits + dec.n_bits
           w == [dec EXCEPT !.posbits = p, !.oldcode = code, !.finchar = code]
<1>2. dec.oldcode = -1 /\ pc = "codes"
  BY DEF FirstCode, Ready, More
<1>3. /\ j = 0 /\ 1 \in 1 .. Len(log) /\ Len(log) \in Nat
      /\ code \in Byte /\ code # CLEAR /\ log[1].m = 1 /\ log[1].end = 1
      /\ Done(log, 0) = 0 /\ Done(log, 1) = 1
      /\ text \in Seq(Byte) /\ Len(text) \in Nat /\ 1 \in 1 .. Len(text) /\ text[1] = code
      /\ dec.free_ent = FIRST /\ DecFree(maxbits, log, 1) = FIRST
  BY <1>1, <1>2, FirstRead
<1>4. Code = code /\ 0 + 1 = 1 /\ 1 - 1 = 0
  BY <1>1, <1>3
<1>5. DecType(maxbits, dec) /\ p \in Nat
  <2>1. DecType(maxbits, dec)
    BY <1>1 DEF Placing, Tracks
  <2>2. dec.posbits \in Nat /\ dec.n_bits \in Nat
    BY <1>1, PlacingParts
  <2> QED BY <2>1, <2>2
<1>6. out' = <<code % Literals>> /\ dec' = w /\ pc' = "codes"
      /\ UNCHANGED <<maxbits, block_mode, text, enc, file>>
  <2> HIDE DEF code
  <2> QED BY <1>2, <1>4 DEF FirstCode, Taken
<1> HIDE DEF code, p
<1>7. code \in Nat /\ code % Literals = code
  <2>1. Literals \in Nat \ {0} /\ code \in 0 .. Literals - 1
    BY <1>3, Constants DEF Byte
  <2> HIDE <1>3
  <2>2. (Literals * 0 + code) % Literals = code /\ Literals * 0 + code = code
    BY <2>1, Quotient
  <2> QED BY <2>1, <2>2
<1>8. /\ DecType(maxbits, w) /\ w.posbits = p /\ w.free_ent = dec.free_ent
      /\ w.base = dec.base /\ w.insize = dec.insize /\ w.rsize = dec.rsize /\ w.inbits = dec.inbits
      /\ w.n_bits = dec.n_bits /\ w.maxcode = dec.maxcode
      /\ w.oldcode = code /\ w.finchar = code
  BY <1>3, <1>5, <1>7 DEF DecType
<1> HIDE DEF w
<1>9. Advanced(dec, w, FIRST)
  BY <1>3, <1>8 DEF Advanced, p
<1>10. /\ InStep(maxbits, w, log, 1, After(maxbits, log, 1))
       /\ Buffered(w, FileBytes) /\ InCodes(w) /\ Grouped(w, After(maxbits, log, 1))
  <2>1. /\ Placing(maxbits, dec, log, 0, file, FileBytes, text, out)
        /\ Advanced(dec, w, DecFree(maxbits, log, 0 + 1)) /\ log[0 + 1].code # CLEAR
    BY <1>1, <1>3, <1>4, <1>9 DEF code
  <2>2. /\ InStep(maxbits, w, log, 0 + 1, After(maxbits, log, 0 + 1))
        /\ Buffered(w, FileBytes) /\ InCodes(w) /\ Grouped(w, After(maxbits, log, 0 + 1))
    BY <1>1, <2>1, NextStep
  <2> QED BY <2>2, <1>4
<1>11. Entries(w, text, log, 1)
  <2>1. FIRST .. w.free_ent - 1 = {}
    BY <1>3, <1>8, Constants DEF FIRST
  <2>2. w.oldcode # -1 /\ w.oldcode = log[1].code
        /\ w.finchar = text[Done(log, 1 - 1) + 1]
    BY <1>3, <1>4, <1>7, <1>8 DEF code
  <2> QED BY <2>1, <2>2 DEF Entries
<1>12. Decoded(text, log, 1, <<code>>)
  BY <1>3 DEF Decoded
<1>13. Tracks(maxbits, w, text, log, 1, out')
  BY <1>6, <1>7, <1>8, <1>10, <1>11, <1>12 DEF Tracks
<1>14. 1 \in 0 .. Len(log)
  BY <1>3
<1>15. /\ Tracks(maxbits, dec, text, log, 1, out)' /\ Buffered(dec, FileBytes)'
       /\ InCodes(dec)' /\ Grouped(dec, After(maxbits, log, 1))'
  BY <1>6, <1>10, <1>13 DEF FileBytes
<1> QED BY <1>6, <1>14, <1>15, StillReading


(***************************************************************************)
(* The invariant.                                                          *)
(***************************************************************************)
LEMMA EmptyLog ==
  ASSUME NEW b \in Bits, InitBits < b
  PROVE  /\ Log(b, <<>>, <<>>) /\ Placed({}, <<>>, HeaderBits)
         /\ After(b, <<>>, 0) = [m |-> 1, n |-> InitBits, from |-> HeaderBits, q |-> 0]
<1>1. After(b, <<>>, 0) = [m |-> 1, n |-> InitBits, from |-> HeaderBits, q |-> 0]
  BY DEF After
<1>2. WidthOf(b, After(b, <<>>, 0))
  <2>1. 0 \in Nat
    OBVIOUS
  <2> QED BY <2>1, AfterWidth
<1>3. Len(<<>>) = 0 /\ 1 .. 0 = {} /\ 0 .. 0 = {0}
  OBVIOUS
<1>4. Ordered(<<>>)
  BY <1>3 DEF Ordered, Done
<1>5. Shaped(b, <<>>) /\ Sized(b, <<>>) /\ Counts(<<>>) /\ Told(<<>>, <<>>)
  BY <1>3 DEF Shaped, Sized, Counts, Told
<1>6. Placed({}, <<>>, HeaderBits)
  BY <1>3 DEF Placed
<1>7. <<>> \in Seq(Entry) /\ <<>> \in Seq(Byte)
  OBVIOUS
<1> QED BY <1>1, <1>2, <1>3, <1>4, <1>5, <1>6, <1>7 DEF Log

LEMMA InitType ==
  ASSUME NEW b \in Bits, InitBits < b
  PROVE  EncType(b, EncInit)
<1>1. /\ b \in InitBits .. Literals /\ MAXCODE(InitBits) \in Nat /\ InitBits \in InitBits .. b
      /\ FIRST \in FIRST .. MAXCODE(b)
  <2>1. b \in InitBits .. Literals /\ b \in Nat
    BY FirstWidth
  <2>2. InitBits \in InitBits .. b /\ b \in InitBits .. b /\ Literals # 1
    BY <2>1, Constants
  <2>3. MAXCODE(InitBits) \in Nat /\ MAXCODE(b) \in Nat /\ FIRST < MAXCODE(b)
    BY <2>2, FirstWidth
  <2> QED BY <2>1, <2>2, <2>3, Constants
<1> DEFINE mx == MAXCODE(InitBits)
<1>2. mx + 1 \in Int /\ 0 \in Nat /\ HeaderBits \in Nat /\ HeaderBits \in Int /\ CheckGap \in Int
  BY <1>1, Constants
<1>3. EncInit = [ent |-> 0, rlop |-> 0, rsize |-> 0, checkpoint |-> CheckGap,
                 outbits |-> HeaderBits, boff |-> HeaderBits, bytes_out |-> 0,
                 n_bits |-> InitBits, extcode |-> mx + 1,
                 free_ent |-> FIRST, stcode |-> TRUE, htab |-> <<>>]
  BY DEF EncInit
<1> HIDE DEF mx
<1>4. EncInit \in EncRecord(b, EncInit.htab)
  BY <1>1, <1>2, <1>3 DEF EncRecord
<1>5. EncInit.htab = <<>> /\ DOMAIN EncInit.htab = {}
  BY <1>3
<1>6. EncInit.htab \in [DOMAIN EncInit.htab -> FIRST .. EncInit.free_ent - 1]
  BY <1>5
<1> QED BY <1>4, <1>5, <1>6 DEF EncType

LEMMA Initially ==
  ASSUME Modes, Init
  PROVE  IInv
<1> DEFINE b == maxbits  a == After(b, <<>>, 0)  e == EncInit
<1>1. /\ maxbits \in Bits /\ block_mode \in BlockModes /\ opening \in Openings
      /\ pc = "read" /\ text = <<>> /\ enc = EncInit /\ file = {} /\ dec = DecInit /\ out = <<>>
  BY DEF Init
<1>2. Static /\ b \in Bits /\ InitBits < b /\ Literals >= 2
  BY <1>1, Wider DEF Static
<1>3. /\ Log(b, <<>>, <<>>) /\ Placed({}, <<>>, HeaderBits) /\ EncType(b, e)
      /\ a = [m |-> 1, n |-> InitBits, from |-> HeaderBits, q |-> 0]
  BY <1>2, EmptyLog, InitType
<1>4. /\ e.ent = 0 /\ e.rlop = 0 /\ e.rsize = 0 /\ e.outbits = HeaderBits /\ e.boff = HeaderBits
      /\ e.bytes_out = 0 /\ e.n_bits = InitBits /\ e.extcode = MAXCODE(InitBits) + 1
      /\ e.free_ent = FIRST /\ e.stcode /\ DOMAIN e.htab = {}
  BY DEF EncInit
<1>5. a.m = 1 /\ a.n = InitBits /\ a.q = 0 /\ At(a) = HeaderBits
  <2>1. HeaderBits + InitBits * 0 = HeaderBits
    BY Constants
  <2> QED BY <2>1, <1>3 DEF At
<1> HIDE DEF a, e
<1>6. Counting(b, e, a)
  <2>1. MAXCODE(InitBits) = 2 * Literals
    BY <1>2, FirstWidth
  <2>2. e.extcode = Extcode(b, e.n_bits)
    BY <1>2, <1>4 DEF Extcode
  <2>3. e.free_ent = Literals + 1 /\ e.free_ent <= e.extcode /\ ~(e.ent >= FIRST)
    BY <2>1, <1>4, Constants DEF FIRST
  <2> QED BY <2>2, <2>3, <1>4, <1>5 DEF Counting
<1>7. Aligned(e, a)
  <2>1. e.bytes_out * ByteBits + e.outbits = HeaderBits
    BY <1>4, Constants
  <2>2. \E g \in Int : e.outbits - e.boff = a.n * a.q + (a.n * ByteBits) * g
    <3>1. HeaderBits - HeaderBits = InitBits * 0 + (InitBits * ByteBits) * 0
      BY Constants
    <3> QED BY <3>1, <1>4, <1>5
  <2> QED BY <2>1, <2>2, <1>4, <1>5 DEF Aligned
<1>8. Table(e, <<>>, <<>>, a) /\ Pending(e, <<>>, <<>>, a)
  BY <1>4 DEF Table, Pending
<1>9. Between(e, <<>>) /\ Len(<<>>) = e.rsize
  <2> DEFINE n == InitBits  z == n * ByteBits
  <2>1. InitBits \in InitBits .. b
    BY <1>2, FirstWidth, Constants
  <2>2. /\ ChunkLimit \in Nat /\ OBufSiz * ByteBits \in Nat
        /\ n + n + z <= OBufSiz * ByteBits
        /\ OBufSiz * ByteBits <= ChunkLimit
    BY <1>2, <2>1, Space
  <2>3. ByteBits <= z /\ z \in Nat
    BY Constants
  <2>4. HeaderBits <= ChunkLimit + InitBits
    <3> HIDE DEF z
    <3>1. /\ ByteBits \in Nat /\ InitBits \in Nat /\ ByteBits <= InitBits /\ HeaderBits = 3 * ByteBits
          /\ n = InitBits
      BY Constants DEF HeaderBits
    <3> QED BY <2>2, <2>3, <3>1
  <2> QED BY <2>4, <1>4 DEF Between
<1>10. Synced(b, e, <<>>, <<>>)
  <2>1. Len(<<>>) = 0
    OBVIOUS
  <2> QED BY <2>1, <1>3, <1>6, <1>7, <1>8 DEF Synced, a
<1>11. Placed({}, <<>>, At(After(b, <<>>, Len(<<>>))))
  <2>1. Len(<<>>) = 0
    OBVIOUS
  <2> QED BY <2>1, <1>3, <1>5 DEF a
<1>12. Writing(<<>>)
  BY <1>1, <1>9, <1>10, <1>11 DEF Writing, e
<1>13. Compressing
  BY <1>1 DEF Compressing
<1> QED BY <1>2, <1>12, <1>13 DEF IInv

LEMMA Inductive ==
  ASSUME Modes
  PROVE  IInv /\ [Next]_vars => IInv'
<1> SUFFICES ASSUME IInv, [Next]_vars PROVE IInv'
  OBVIOUS
<1>1. PICK log : (Compressing /\ Writing(log)) \/ (Decompressing /\ Reading(log))
  BY DEF IInv
<1>2. Static
  BY DEF IInv
<1>4. Static'
  <2>1. UNCHANGED <<maxbits, block_mode, opening>>
    BY DEF Next, Compress, Decompress, Fill, StartChunk, NextByte, EndChunk, EndOfInput,
           ReadHeader, ResetBuf, EndOfCodes, WidenCodes, FirstCode, ClearTable, NextCode, vars
  <2> QED BY <2>1, <1>2 DEF Static
<1>5. ASSUME Compress
      PROVE  \E log2 : (Compressing /\ Writing(log2))' \/ (Decompressing /\ Reading(log2))'
  <2>1. Writing(log)
    <3>1. pc \in {"read", "top", "chars"}
      BY <1>5 DEF Compress, Fill, StartChunk, NextByte, EndChunk, EndOfInput
    <3> QED BY <3>1, <1>1 DEF Decompressing
  <2>2. CASE Fill
    BY <2>1, <2>2, <1>2, FillKeeps
  <2>3. CASE StartChunk
    BY <2>1, <2>3, <1>2, StartChunkKeeps
  <2>4. CASE NextByte
    BY <2>1, <2>4, <1>2, NextByteKeeps
  <2>5. CASE EndChunk
    BY <2>1, <2>5, <1>2, EndChunkKeeps
  <2>6. CASE EndOfInput
    BY <2>1, <2>6, <1>2, EndOfInputKeeps
  <2> QED BY <1>5, <2>2, <2>3, <2>4, <2>5, <2>6 DEF Compress
<1>6. ASSUME Decompress
      PROVE  \E log2 : (Compressing /\ Writing(log2))' \/ (Decompressing /\ Reading(log2))'
  <2>1. Decompressing /\ Reading(log)
    <3>1. pc \in {"header", "reset", "codes"}
      BY <1>6 DEF Decompress, ReadHeader, ResetBuf, EndOfCodes, WidenCodes, FirstCode,
                  ClearTable, NextCode, Ready, More
    <3> QED BY <3>1, <1>1 DEF Compressing
  <2>2. CASE ReadHeader
    BY <2>1, <2>2, <1>2, ReadHeaderKeeps
  <2>3. CASE ResetBuf
    BY <2>1, <2>3, <1>2, ResetBufKeeps
  <2>4. CASE EndOfCodes
    BY <2>1, <2>4, <1>2, EndOfCodesKeeps
  <2>5. CASE WidenCodes
    BY <2>1, <2>5, <1>2, WidenCodesKeeps
  <2>6. CASE FirstCode
    BY <2>1, <2>6, <1>2, FirstCodeKeeps
  <2>7. CASE ClearTable
    BY <2>1, <2>7, <1>2, ClearTableKeeps
  <2>8. CASE NextCode
    BY <2>1, <2>8, <1>2, NextCodeKeeps
  <2> QED BY <1>6, <2>2, <2>3, <2>4, <2>5, <2>6, <2>7, <2>8 DEF Decompress
<1>7. ASSUME UNCHANGED vars
      PROVE  \E log2 : (Compressing /\ Writing(log2))' \/ (Decompressing /\ Reading(log2))'
  <2>1. UNCHANGED <<maxbits, block_mode, opening, pc, text, enc, file, dec, out>>
        /\ FileBytes' = FileBytes
    BY <1>7 DEF vars, FileBytes
  <2>2. CASE Compressing /\ Writing(log)
    <3>1. (Compressing /\ Writing(log))'
      BY <2>1, <2>2 DEF Compressing, Writing, DecInit
    <3> QED BY <3>1
  <2>3. CASE Decompressing /\ Reading(log)
    <3>1. (Decompressing /\ Reading(log))'
      BY <2>1, <2>3 DEF Decompressing, Reading
    <3> QED BY <3>1
  <2> QED BY <1>1, <2>2, <2>3
<1>8. Compress \/ Decompress \/ UNCHANGED vars
  BY DEF Next
<1>9. \E log2 : (Compressing /\ Writing(log2))' \/ (Decompressing /\ Reading(log2))'
  BY <1>5, <1>6, <1>7, <1>8
<1> QED BY <1>4, <1>9 DEF IInv


\* What each program has counted and written is what the log says; no
\* condition of decompress on its input fails.
THEOREM Invariance == ASSUME Modes PROVE Spec => []IInv
<1>1. Init => IInv
  BY Initially
<1>2. IInv /\ [Next]_vars => IInv'
  BY Inductive
<1> QED BY <1>1, <1>2, PTL DEF Spec

LEMMA WritingTyped ==
  ASSUME Modes, Static, NEW log, Compressing, Writing(log)
  PROVE  TypeOK
<1> DEFINE b == maxbits
<1>1. b \in Bits /\ InitBits < b
  BY Wider
<1>2. /\ Synced(b, enc, text, log) /\ dec = DecInit /\ out = <<>>
  BY DEF Writing
<1>3. EncType(b, enc) /\ text \in Seq(Byte)
  BY <1>1, <1>2, SyncedParts
<1>4. /\ enc.n_bits \in InitBits .. b /\ enc.free_ent \in FIRST .. MAXCODE(b)
      /\ enc.htab \in [DOMAIN enc.htab -> FIRST .. enc.free_ent - 1]
      /\ DOMAIN enc.htab \subseteq (0 .. enc.free_ent - 1) \X Byte
      /\ enc.outbits \in Nat /\ enc.n_bits \in Nat
  <2>1. enc.n_bits \in Nat
    BY <1>1, <1>3, EncFields, FirstWidth, Constants
  <2> QED BY <2>1, <1>3, EncFields DEF EncType
<1>5. Len(text) <= enc.rsize /\ enc.outbits <= ChunkLimit + enc.n_bits
  <2>1. CASE pc = "chars"
    <3>1. /\ Len(text) <= enc.rsize
          /\ enc.outbits <= ChunkLimit + (IF enc.ent < FIRST THEN enc.n_bits ELSE 0)
      BY <2>1 DEF Writing, InChunkBounds
    <3>2. ChunkLimit \in Nat
      BY <1>1, <1>4, Space
    <3> QED BY <3>1, <3>2, <1>4
  <2>2. CASE pc \in {"read", "top"}
    BY <2>2 DEF Writing, Between
  <2> QED BY <2>1, <2>2 DEF Compressing
<1>6. enc.outbits \in 0 .. (OBufSiz + OutSpare) * ByteBits
  <2> DEFINE n == enc.n_bits  z == n * ByteBits  full == (OBufSiz + OutSpare) * ByteBits  o == enc.outbits
  <2>1. ChunkLimit \in Nat /\ z \in Nat /\ ChunkLimit + (n + n + z) <= full
    BY <1>1, <1>4, Space
  <2>2. full \in Int
    BY Constants
  <2>3. o \in Nat /\ n \in Nat /\ o <= ChunkLimit + n
    BY <1>4, <1>5
  <2> HIDE DEF n, z, full, o
  <2>4. o \in 0 .. full
    BY <2>1, <2>2, <2>3
  <2> QED BY <2>4 DEF o, full
<1>7. /\ dec.n_bits \in InitBits .. b /\ dec.free_ent \in CLEAR .. MAXCODE(b)
      /\ dec.insize \in 0 .. IBufSiz + InSpare
  <2>1. DecType(b, DecInit)
    <3>1. Tracks(b, DecInit, <<>>, <<>>, 0, <<>>)
      BY DecStart
    <3> QED BY <3>1 DEF Tracks
  <2>2. dec.insize = 0 /\ 0 \in 0 .. IBufSiz + InSpare
    BY <1>2, Constants DEF DecInit
  <2> QED BY <2>1, <2>2, <1>2, DecFields
<1>8. out \in Seq(Byte) /\ pc \in {"read", "top", "chars"}
  BY <1>2 DEF Compressing
<1> QED BY <1>3, <1>4, <1>5, <1>6, <1>7, <1>8 DEF TypeOK

LEMMA ReadingTyped ==
  ASSUME Modes, Static, NEW log, Decompressing, Reading(log)
  PROVE  TypeOK
<1> DEFINE b == maxbits  bytes == FileBytes
<1>1. b \in Bits /\ InitBits < b
  BY Wider
<1>2. PICK j \in 0 .. Len(log) :
         /\ Tracks(b, dec, text, log, j, out)
         /\ pc = "header" => InHeader(dec, bytes)
         /\ pc # "header" => Buffered(dec, bytes)
  BY DEF Reading
<1>3. /\ Complete(b, text, log, file, bytes) /\ EncType(b, enc) /\ Len(text) <= enc.rsize
      /\ enc.outbits <= (OBufSiz + OutSpare) * ByteBits
  BY DEF Reading
<1>4. text \in Seq(Byte) /\ out \in Seq(Byte)
  BY <1>2, <1>3 DEF Complete, Log, Tracks, Decoded
<1>5. /\ enc.n_bits \in InitBits .. b /\ enc.free_ent \in FIRST .. MAXCODE(b)
      /\ enc.htab \in [DOMAIN enc.htab -> FIRST .. enc.free_ent - 1]
      /\ DOMAIN enc.htab \subseteq (0 .. enc.free_ent - 1) \X Byte
      /\ enc.outbits \in Nat
  BY <1>3, EncFields DEF EncType
<1>6. enc.outbits \in 0 .. (OBufSiz + OutSpare) * ByteBits
  <2> DEFINE full == (OBufSiz + OutSpare) * ByteBits
  <2>1. full \in Int
    BY Constants
  <2>2. enc.outbits \in Nat /\ enc.outbits <= full
    BY <1>3, <1>5
  <2> HIDE DEF full
  <2>3. enc.outbits \in 0 .. full
    BY <2>1, <2>2
  <2> QED BY <2>3 DEF full
<1>7. dec.n_bits \in InitBits .. b /\ dec.free_ent \in CLEAR .. MAXCODE(b) /\ dec.insize \in Nat
  BY <1>2, DecFields DEF Tracks
<1>8. dec.insize <= IBufSiz + InSpare
  <2>1. CASE pc = "header"
    <3>1. dec.insize < 3 + IBufSiz
      BY <2>1, <1>2 DEF InHeader
    <3>2. InSpare >= b /\ b >= 2 /\ b \in Nat
      BY <1>1, FirstWidth, Constants, BufferAssumption
    <3> QED BY <3>1, <3>2, <1>7, Constants
  <2>2. CASE pc # "header"
    BY <2>2, <1>2 DEF Buffered
  <2> QED BY <2>1, <2>2
<1>9. dec.insize \in 0 .. IBufSiz + InSpare
  BY <1>7, <1>8, Constants
<1>10. pc \in {"header", "reset", "codes", "done"}
  BY DEF Decompressing
<1> QED BY <1>3, <1>4, <1>5, <1>6, <1>7, <1>9, <1>10 DEF TypeOK

\* outbuf and inbuf are long enough for what is put in them, and no entry gets
\* a code of more than maxbits bits.
THEOREM TypeCorrect == ASSUME Modes PROVE Spec => []TypeOK
<1>1. ASSUME IInv PROVE TypeOK
  <2>1. Static
    BY <1>1 DEF IInv
  <2>2. PICK log : (Compressing /\ Writing(log)) \/ (Decompressing /\ Reading(log))
    BY <1>1 DEF IInv
  <2> QED BY <2>1, <2>2, WritingTyped, ReadingTyped
<1> QED BY <1>1, Invariance, PTL

\* For any text, any sizes of the buffers and any widths: decompress takes no
\* file of compress for corrupt, and when it is done it has put out the text.
THEOREM TextRestored == ASSUME Modes PROVE Spec => []Restored
<1>1. ASSUME IInv PROVE Restored
  <2>1. PICK log : (Compressing /\ Writing(log)) \/ (Decompressing /\ Reading(log))
    BY <1>1 DEF IInv
  <2>2. pc # "corrupt"
    BY <2>1 DEF Compressing, Decompressing
  <2>3. ASSUME pc = "done" PROVE out = text
    <3>1. Reading(log)
      BY <2>1, <2>3 DEF Compressing
    <3>2. /\ Complete(maxbits, text, log, file, FileBytes)
          /\ Tracks(maxbits, dec, text, log, Len(log), out)
      BY <3>1, <2>3 DEF Reading
    <3>3. /\ text \in Seq(Byte) /\ Done(log, Len(log)) = Len(text)
          /\ out \in Seq(Byte) /\ Len(out) = Done(log, Len(log))
          /\ \A k \in 1 .. Len(out) : out[k] = text[k]
      BY <3>2 DEF Complete, Log, Tracks, Decoded
    <3> QED BY <3>3
  <2> QED BY <2>2, <2>3 DEF Restored
<1> QED BY <1>1, Invariance, PTL
=============================================================================
