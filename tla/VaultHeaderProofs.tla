------------------------- MODULE VaultHeaderProofs --------------------------
(***************************************************************************)
(* Proofs about VaultHeader, for every file whatever its length.           *)
(***************************************************************************)
EXTENDS VaultHeader, SequenceTheorems, TLAPS

(* Where the cursor is says which version the file has, and in v2 the cell *)
(* with the length of the salt is known to be there.                       *)
PieceOfVersion ==
  /\ at \in Piece \ {"magic"} => hdr.version \in Version
  /\ at = "magic" => off = 0
  /\ at = "fixed" => off = 2
  /\ at = "params" => hdr.version \in {2, 3} /\ hdr.kdf \in {Pbkdf2, Argon2id}
  /\ at = "saltLength" =>
       \/ hdr.version = 2 /\ off < Len(raw)
       \/ hdr.version = 3
  /\ at \in {"keyLength", "key", "flag", "saltRecLength", "saltRec",
             "keyRecLength", "keyRec"} => hdr.version = 3

IInv == TypeOK /\ PieceOfVersion /\ OnlyFormatErrors

(* A slice of a file is a string of bytes.                                 *)
LEMMA SliceOfBytes ==
  ASSUME NEW s \in Bytes, NEW m \in Nat \ {0}, NEW n \in Nat, n <= Len(s)
  PROVE  SubSeq(s, m, n) \in Bytes
<1>1. \A i \in m .. n : s[i] \in Nat
  BY DEF Bytes
<1> QED BY <1>1, SubSeqProperties DEF Bytes

LEMMA InitInv == Init => IInv
BY FileAssumption
   DEF Init, IInv, TypeOK, PieceOfVersion, OnlyFormatErrors, Piece, Outcome, Version,
       NoHeader, Bytes

(* A step that rejects the file keeps the invariant.                       *)
LEMMA RejectInv == IInv /\ Reject /\ raw' = raw => IInv'
BY DEF IInv, Reject, TypeOK, PieceOfVersion, OnlyFormatErrors, Piece, Outcome

(* The cursor stays within the file.                                       *)
LEMMA CursorInFile ==
  ASSUME TypeOK, NEW k \in Nat, NEW j \in 0 .. k, ~Short(k)
  PROVE  /\ off + j \in 0 .. Len(raw)
         /\ Slice(j) \in Bytes
<1>1. Len(raw) \in Nat /\ off \in 0 .. Len(raw) /\ raw \in Bytes
  BY DEF TypeOK, Bytes
<1>2. off + k <= Len(raw)
  BY <1>1 DEF Short
<1>3. off + 1 \in Nat \ {0} /\ off + j \in Nat /\ off + j <= Len(raw)
  BY <1>1, <1>2
<1> QED BY <1>1, <1>3, SliceOfBytes DEF Slice

LEMMA MagicInv == IInv /\ ReadMagic => IInv'
<1> SUFFICES ASSUME IInv, ReadMagic PROVE IInv'
  OBVIOUS
<1>1. CASE Reject
  BY <1>1, RejectInv DEF ReadMagic
<1>2. CASE ~Short(2) /\ raw[2] \in Version /\ Advance(2, "fixed")
           /\ hdr' = [hdr EXCEPT !.version = raw[2]] /\ UNCHANGED <<raw, need, blob>>
  <2>1. off + 2 \in 0 .. Len(raw)
    BY <1>2, CursorInFile DEF IInv
  <2> QED
    BY <1>2, <2>1 DEF IInv, TypeOK, PieceOfVersion, OnlyFormatErrors, Advance,
                      ReadMagic, Piece, Outcome, Version
<1> QED BY <1>1, <1>2 DEF ReadMagic

LEMMA FixedV1Inv == IInv /\ FixedV1 => IInv'
<1> SUFFICES ASSUME IInv, FixedV1 PROVE IInv'
  OBVIOUS
<1>1. CASE Reject
  BY <1>1, RejectInv DEF FixedV1
<1>2. CASE /\ ~Short(4) /\ raw[3] \in {Pbkdf2, Argon2id} /\ raw[4] \in Iterations
           /\ raw[5] \in SaltLength /\ need' = raw[5] /\ Advance(3, "salt")
           /\ hdr' = [hdr EXCEPT !.kdf = raw[3], !.params = <<raw[4]>>]
           /\ UNCHANGED <<raw, blob>>
  <2>1. off + 3 \in 0 .. Len(raw)
    BY <1>2, CursorInFile DEF IInv
  <2>2. raw[5] \in Nat /\ <<raw[4]>> \in Bytes
    BY <1>2, LengthAssumption, KdfAssumption DEF Bytes
  <2>3. hdr.version = 1
    BY DEF FixedV1
  <2> QED
    BY <1>2, <2>1, <2>2, <2>3 DEF IInv, TypeOK, PieceOfVersion, OnlyFormatErrors, Advance,
                      Piece, Outcome, Version
<1> QED BY <1>1, <1>2 DEF FixedV1

LEMMA FixedV2Inv == IInv /\ FixedV2 => IInv'
<1> SUFFICES ASSUME IInv, FixedV2 PROVE IInv'
  OBVIOUS
<1>1. CASE Reject
  BY <1>1, RejectInv DEF FixedV2
<1>2. CASE /\ ~Short(3) /\ raw[3] \in {Pbkdf2, Argon2id} /\ need' = raw[4]
           /\ hdr' = [hdr EXCEPT !.kdf = raw[3]] /\ Advance(2, "params")
           /\ UNCHANGED <<raw, blob>>
  <2>1. off + 2 \in 0 .. Len(raw)
    BY <1>2, CursorInFile DEF IInv
  <2>2. raw[4] \in Nat
    BY <1>2 DEF FixedV2, IInv, TypeOK, PieceOfVersion, Short, Bytes
  <2> QED
    BY <1>2, <2>1, <2>2 DEF IInv, TypeOK, PieceOfVersion, OnlyFormatErrors, Advance,
                      FixedV2, Piece, Outcome, Version
<1> QED BY <1>1, <1>2 DEF FixedV2

LEMMA ParamsInv == IInv /\ ReadParams => IInv'
<1> SUFFICES ASSUME IInv, ReadParams PROVE IInv'
  OBVIOUS
<1> DEFINE n == ParamsLength(hdr.kdf)
           rest == IF hdr.version = 2 THEN 1 ELSE 0
<1>1. CASE Reject
  BY <1>1, RejectInv DEF ReadParams
<1>2. CASE /\ ~Short(need + rest) /\ need >= n
           /\ hdr' = [hdr EXCEPT !.params = Slice(n)]
           /\ Advance(need, "saltLength")
           /\ UNCHANGED <<raw, need, blob>>
  <2>1. need \in Nat /\ need + rest \in Nat /\ n \in Nat /\ n <= need
    BY <1>2 DEF IInv, TypeOK, ParamsLength
  <2>2. /\ off + (need + rest) \in 0 .. Len(raw)
        /\ off + need \in 0 .. Len(raw)
        /\ Slice(n) \in Bytes
    <3>1. n \in 0 .. need + rest /\ need \in 0 .. need + rest /\ need + rest \in 0 .. need + rest
      BY <2>1
    <3> QED BY <1>2, <2>1, <3>1, CursorInFile DEF IInv
  <2>3. hdr.version \in {2, 3} /\ at = "params"
    BY DEF ReadParams, IInv, PieceOfVersion
  <2>4. hdr'.version = hdr.version /\ off' = off + need /\ at' = "saltLength"
    BY <1>2 DEF IInv, TypeOK, Advance
  <2>5. TypeOK'
    BY <1>2, <2>1, <2>2, <2>4 DEF IInv, TypeOK, Piece
  <2>6. hdr.version = 2 => off' < Len(raw')
    BY <1>2, <2>1, <2>2, <2>4 DEF IInv, TypeOK, Bytes
  <2>7. PieceOfVersion' /\ OnlyFormatErrors'
    BY <2>3, <2>4, <2>6 DEF PieceOfVersion, OnlyFormatErrors, Piece, Version
  <2> QED BY <2>5, <2>7 DEF IInv
<1> QED BY <1>1, <1>2 DEF ReadParams

(* A length is read where a length is due.                                 *)
LEMMA LengthInv ==
  ASSUME NEW here, NEW lengths \in SUBSET Nat, NEW to,
         <<here, to>> \in {<<"saltLength", "salt">>, <<"keyLength", "key">>,
                           <<"saltRecLength", "saltRec">>, <<"keyRecLength", "keyRec">>},
         IInv, ReadLength(here, lengths, to)
  PROVE  IInv'
<1>1. CASE Reject
  BY <1>1, RejectInv DEF ReadLength
<1>2. CASE /\ ~Short(1) /\ need' = Cell /\ Cell \in lengths /\ Advance(1, to)
           /\ UNCHANGED <<raw, hdr, blob>>
  <2>1. off + 1 \in 0 .. Len(raw) /\ need' \in Nat
    BY <1>2, CursorInFile DEF IInv
  <2>2. /\ at = here
        /\ here \in {"saltLength", "keyLength", "saltRecLength", "keyRecLength"}
        /\ to \in {"salt", "key", "saltRec", "keyRec"}
        /\ here = "saltLength" \/ to \in {"key", "saltRec", "keyRec"}
        /\ here = "saltLength" => to = "salt"
    BY DEF ReadLength
  <2> QED
    BY <1>2, <2>1, <2>2 DEF IInv, TypeOK, PieceOfVersion, OnlyFormatErrors, Advance,
                            Piece, Version
<1>3. ~ (Short(1) /\ hdr.version = 2)
  <2>1. at = here /\ here \in {"saltLength", "keyLength", "saltRecLength", "keyRecLength"}
    BY DEF ReadLength
  <2> QED BY <2>1 DEF IInv, PieceOfVersion, TypeOK, Short, Bytes
<1> QED BY <1>1, <1>2, <1>3 DEF ReadLength

(* A string is read where a string is due.                                 *)
LEMMA BytesInv ==
  ASSUME NEW here, NEW to, IInv, ReadBytes(here, here, to),
         \/ here = "salt" /\ to = IF hdr.version = 3 THEN "keyLength" ELSE "blob"
         \/ <<here, to>> \in {<<"key", "flag">>, <<"saltRec", "keyRecLength">>,
                              <<"keyRec", "blob">>}
  PROVE  IInv'
<1>1. CASE Reject
  BY <1>1, RejectInv DEF ReadBytes
<1>2. CASE /\ ~Short(need) /\ hdr' = [hdr EXCEPT ![here] = Slice(need)]
           /\ Advance(need, to) /\ UNCHANGED <<raw, need, blob>>
  <2>1. off + need \in 0 .. Len(raw) /\ Slice(need) \in Bytes
    <3>1. need \in Nat /\ need \in 0 .. need
      BY DEF IInv, TypeOK
    <3> QED BY <1>2, <3>1, CursorInFile DEF IInv
  <2>2. at = here /\ here \in {"salt", "key", "saltRec", "keyRec"}
    BY DEF ReadBytes
  <2>3. to \in {"keyLength", "blob", "flag", "keyRecLength"}
    OBVIOUS
  <2>4. to \in {"keyLength", "flag", "keyRecLength"} => hdr.version = 3
    BY <2>2 DEF IInv, PieceOfVersion
  <2>5. hdr'.version = hdr.version /\ hdr'.kdf = hdr.kdf
    BY <1>2, <2>2 DEF IInv, TypeOK
  <2>6. TypeOK'
    BY <1>2, <2>1, <2>2, <2>3 DEF IInv, TypeOK, Advance, Piece
  <2>7. hdr.version \in Version
    BY <2>2 DEF IInv, PieceOfVersion, Piece
  <2>8. PieceOfVersion' /\ OnlyFormatErrors'
    BY <1>2, <2>3, <2>4, <2>5, <2>7 DEF PieceOfVersion, OnlyFormatErrors, Advance
  <2> QED BY <2>6, <2>8 DEF IInv
<1> QED BY <1>1, <1>2 DEF ReadBytes

LEMMA FlagInv == IInv /\ ReadFlag => IInv'
<1> SUFFICES ASSUME IInv, ReadFlag PROVE IInv'
  OBVIOUS
<1>1. CASE Reject
  BY <1>1, RejectInv DEF ReadFlag
<1>2. CASE /\ ~Short(1) /\ hdr' = [hdr EXCEPT !.recovery = (Cell = 1)]
           /\ Advance(1, IF Cell = 1 THEN "saltRecLength" ELSE "blob")
           /\ UNCHANGED <<raw, need, blob>>
  <2>1. off + 1 \in 0 .. Len(raw)
    BY <1>2, CursorInFile DEF IInv
  <2>2. hdr.version = 3
    BY DEF ReadFlag, IInv, PieceOfVersion
  <2>3. at' \in {"saltRecLength", "blob"} /\ off' = off + 1
    BY <1>2 DEF Advance
  <2>4. hdr'.version = 3
    BY <1>2, <2>2 DEF IInv, TypeOK
  <2>5. TypeOK'
    BY <1>2, <2>1, <2>3 DEF IInv, TypeOK, Piece
  <2> QED
    BY <2>3, <2>4, <2>5 DEF IInv, PieceOfVersion, OnlyFormatErrors, Version
<1> QED BY <1>1, <1>2 DEF ReadFlag

LEMMA BlobInv == IInv /\ ReadBlob => IInv'
<1> SUFFICES ASSUME IInv, ReadBlob PROVE IInv'
  OBVIOUS
<1>1. CASE Reject
  BY <1>1, RejectInv DEF ReadBlob
<1>2. CASE /\ ~Short(1) /\ blob' = SubSeq(raw, off + 1, Len(raw))
           /\ at' = "parsed" /\ UNCHANGED <<raw, off, need, hdr>>
  <2>1. SubSeq(raw, off + 1, Len(raw)) \in Bytes
    <3>1. off + 1 \in Nat \ {0} /\ Len(raw) \in Nat /\ raw \in Bytes
      BY DEF IInv, TypeOK, Bytes
    <3> QED BY <3>1, SliceOfBytes
  <2> QED
    BY <1>2, <2>1 DEF IInv, TypeOK, PieceOfVersion, OnlyFormatErrors, Piece, Outcome
<1> QED BY <1>1, <1>2 DEF ReadBlob

(* Every step of the parser keeps the invariant.                           *)
LEMMA StepInv == IInv /\ [Next]_vars => IInv'
<1> SUFFICES ASSUME IInv, [Next]_vars PROVE IInv'
  OBVIOUS
<1>1. CASE ReadMagic
  BY <1>1, MagicInv
<1>2. CASE FixedV1
  BY <1>2, FixedV1Inv
<1>3. CASE FixedV2
  BY <1>3, FixedV2Inv
<1>4. CASE ReadParams
  BY <1>4, ParamsInv
<1>5. CASE ReadLength("saltLength", SaltLength, "salt")
  BY <1>5, LengthInv, LengthAssumption
<1>6. CASE ReadBytes("salt", "salt", IF hdr.version = 3 THEN "keyLength" ELSE "blob")
  BY <1>6, BytesInv
<1>7. CASE ReadLength("keyLength", KeyLength, "key")
  BY <1>7, LengthInv, LengthAssumption
<1>8. CASE ReadBytes("key", "key", "flag")
  BY <1>8, BytesInv
<1>9. CASE ReadFlag
  BY <1>9, FlagInv
<1>10. CASE ReadLength("saltRecLength", SaltLength, "saltRec")
  BY <1>10, LengthInv, LengthAssumption
<1>11. CASE ReadBytes("saltRec", "saltRec", "keyRecLength")
  BY <1>11, BytesInv
<1>12. CASE ReadLength("keyRecLength", KeyLength, "keyRec")
  BY <1>12, LengthInv, LengthAssumption
<1>13. CASE ReadBytes("keyRec", "keyRec", "blob")
  BY <1>13, BytesInv
<1>14. CASE ReadBlob
  BY <1>14, BlobInv
<1>15. CASE UNCHANGED vars
  BY <1>15 DEF vars, IInv, TypeOK, PieceOfVersion, OnlyFormatErrors
<1> QED
  BY <1>1, <1>2, <1>3, <1>4, <1>5, <1>6, <1>7, <1>8, <1>9, <1>10, <1>11, <1>12, <1>13,
     <1>14, <1>15 DEF Next

(* The strengthened invariant, for every file.                             *)
LEMMA HeaderInvariance == Spec => []IInv
<1>1. Init => IInv
  BY InitInv
<1>2. IInv /\ [Next]_vars => IInv'
  BY StepInv
<1> QED BY <1>1, <1>2, PTL DEF Spec

(* The cursor never leaves the file and what has been read of the header   *)
(* keeps its type, whatever the file holds (parse_header, header.py).      *)
THEOREM HeaderTypeCorrect == Spec => []TypeOK
<1>1. IInv => TypeOK
  BY DEF IInv
<1> QED BY <1>1, HeaderInvariance, PTL

(* parse_header reads no number beyond the end of any file, so that it     *)
(* returns or raises VaultFormatError: no struct.error ever escapes.       *)
THEOREM NoNumberBeyondTheEnd == Spec => []OnlyFormatErrors
<1>1. IInv => OnlyFormatErrors
  BY DEF IInv
<1> QED BY <1>1, HeaderInvariance, PTL

-----------------------------------------------------------------------------
(***************************************************************************)
(* What has been read is what Serialise writes of it.  Taken is the part   *)
(* of the file from the length of the salt to the cursor; the parameters   *)
(* before it may have surplus cells.                                       *)
(***************************************************************************)

PastParams == {"saltLength", "salt", "keyLength", "key", "flag", "saltRecLength",
               "saltRec", "keyRecLength", "keyRec", "blob", "parsed"}

From == IF hdr.version = 1 THEN 5 ELSE 5 + raw[4]
Taken == SubSeq(raw, From, off)

UpToKey(h) == Sized(h.salt) \o Sized(h.key)
UpToFlag(h) == UpToKey(h) \o <<1>>
UpToSaltRec(h) == UpToFlag(h) \o Sized(h.saltRec)

(* From the length of the salt to the end of the header.                   *)
Rest(h) ==
  IF h.version < 3 THEN Sized(h.salt)
  ELSE IF h.recovery THEN UpToSaltRec(h) \o Sized(h.keyRec)
  ELSE UpToKey(h) \o <<0>>

HeadInv ==
  /\ at \in {"fixed", "params"} \union PastParams =>
       Len(raw) >= 2 /\ raw[1] = Magic /\ raw[2] = hdr.version
  /\ at \in {"params"} \union PastParams => Len(raw) >= 4 /\ raw[3] = hdr.kdf
  /\ at = "params" => off = 4 /\ need = raw[4]
  /\ at \in PastParams =>
       /\ hdr.version \in Version /\ From \in 1 .. off + 1
       /\ hdr.version = 1 => hdr.params = <<raw[4]>>
       /\ hdr.version # 1 =>
            /\ Len(hdr.params) <= raw[4]
            /\ hdr.params = SubSeq(raw, 5, 4 + Len(hdr.params))

TailInv ==
  /\ at = "saltLength" => off = From - 1
  /\ at = "salt" => <<need>> = Taken
  /\ at = "keyLength" => Sized(hdr.salt) = Taken
  /\ at = "key" => Sized(hdr.salt) \o <<need>> = Taken
  /\ at = "flag" => UpToKey(hdr) = Taken
  /\ at = "saltRecLength" => UpToFlag(hdr) = Taken
  /\ at = "saltRec" => UpToFlag(hdr) \o <<need>> = Taken
  /\ at = "keyRecLength" => UpToSaltRec(hdr) = Taken
  /\ at = "keyRec" => UpToSaltRec(hdr) \o <<need>> = Taken
  /\ at \in {"saltRecLength", "saltRec", "keyRecLength", "keyRec"} => hdr.recovery
  /\ at \in {"blob", "parsed"} => Rest(hdr) = Taken
  /\ at = "parsed" => blob = SubSeq(raw, off + 1, Len(raw))

TakenInv == HeadInv /\ TailInv

LEMMA Closed == \A a, b \in Bytes : a \o b \in Bytes
BY ConcatProperties DEF Bytes

LEMMA Assoc == \A a, b, c \in Bytes : (a \o b) \o c = a \o (b \o c)
BY ConcatAssociative DEF Bytes

(* The next cell, or a string of the length that has been read, is added.  *)
LEMMA CellExtends ==
  ASSUME NEW s \in Bytes, NEW m \in 1 .. Len(s) + 1, NEW n \in m - 1 .. Len(s) - 1
  PROVE  SubSeq(s, m, n) \o <<s[n + 1]>> = SubSeq(s, m, n + 1)
<1>1. s \in Seq(Nat) /\ Len(s) \in Nat
  BY LenProperties DEF Bytes
<1>2. m \in 1 .. Len(s) /\ n + 1 \in m .. Len(s) /\ n + 1 - 1 = n
  BY <1>1
<1> QED
  BY <1>1, <1>2, SubSeqRecursiveSecond

LEMMA SizedExtends ==
  ASSUME NEW s \in Bytes, NEW m \in 1 .. Len(s) + 1, NEW n \in m - 1 .. Len(s),
         NEW k \in Nat, n + k <= Len(s),
         NEW x \in Bytes, x \o <<k>> = SubSeq(s, m, n)
  PROVE  x \o Sized(SubSeq(s, n + 1, n + k)) = SubSeq(s, m, n + k)
<1> DEFINE y == SubSeq(s, n + 1, n + k)
<1>1. s \in Seq(Nat) /\ Len(s) \in Nat /\ n \in Nat /\ n + k \in n .. Len(s)
  BY LenProperties DEF Bytes
<1>2. y \in Seq(Nat) /\ Len(y) = k
  <2>1. \A i \in n + 1 .. n + k : s[i] \in Nat
    BY <1>1
  <2>2. Len(y) = IF n + 1 <= n + k THEN n + k - (n + 1) + 1 ELSE 0
    BY <1>1, <2>1, SubSeqProperties
  <2> QED
    BY <1>1, <2>1, <2>2, SubSeqProperties
<1>3. SubSeq(s, m, n) \o y = SubSeq(s, m, n + k)
  BY <1>1, ConcatAdjacentSubSeq
<1> HIDE DEF y
<1>4. x \in Seq(Nat) /\ <<k>> \in Seq(Nat)
  BY DEF Bytes
<1>5. (x \o <<k>>) \o y = x \o (<<k>> \o y)
  <2>1. x \in Bytes /\ <<k>> \in Bytes /\ y \in Bytes
    BY <1>2, <1>4 DEF Bytes
  <2> QED
    BY <2>1, Assoc, Zenon
<1>6. Sized(y) = <<k>> \o y
  BY <1>2 DEF Sized
<1>7. x \o Sized(y) = SubSeq(s, m, n + k)
  BY <1>3, <1>5, <1>6
<1> QED
  BY <1>7 DEF y

LEMMA SizedBytes == \A bytes \in Bytes : Sized(bytes) \in Bytes
<1> SUFFICES ASSUME NEW bytes \in Seq(Nat) PROVE <<Len(bytes)>> \o bytes \in Seq(Nat)
  BY DEF Sized, Bytes
<1>1. <<Len(bytes)>> \in Seq(Nat)
  BY LenProperties
<1> QED
  BY <1>1, ConcatProperties

(* The strings that the fields make up.                                    *)
LEMMA FieldsBytes ==
  ASSUME TypeOK
  PROVE  /\ {Sized(hdr.salt), Sized(hdr.key), Sized(hdr.saltRec), Sized(hdr.keyRec)}
              \subseteq Bytes
         /\ {UpToKey(hdr), UpToFlag(hdr), UpToSaltRec(hdr), Rest(hdr)} \subseteq Bytes
<1>1. /\ Sized(hdr.salt) \in Bytes /\ Sized(hdr.key) \in Bytes
      /\ Sized(hdr.saltRec) \in Bytes /\ Sized(hdr.keyRec) \in Bytes
  BY SizedBytes DEF TypeOK
<1>2. <<0>> \in Bytes /\ <<1>> \in Bytes
  BY DEF Bytes
<1>3. \A x, y \in Bytes : x \o y \in Bytes
  BY ConcatProperties DEF Bytes
<1>4. UpToKey(hdr) \in Bytes
  BY <1>1, <1>3 DEF UpToKey
<1>5. UpToFlag(hdr) \in Bytes
  BY <1>2, <1>3, <1>4 DEF UpToFlag
<1>6. UpToSaltRec(hdr) \in Bytes
  BY <1>1, <1>3, <1>5 DEF UpToSaltRec
<1>7. Rest(hdr) \in Bytes
  BY <1>1, <1>2, <1>3, <1>4, <1>6 DEF Rest
<1> QED
  BY <1>1, <1>4, <1>5, <1>6, <1>7

(* The cursor moves on in the rest of the header.                          *)
LEMMA HeadStays ==
  ASSUME IInv, HeadInv, at \in PastParams, at' \in PastParams, raw' = raw,
         hdr'.version = hdr.version, hdr'.kdf = hdr.kdf, hdr'.params = hdr.params,
         NEW k \in Nat, off' = off + k
  PROVE  HeadInv' /\ From' = From
<1>1. From' = From /\ off \in Nat /\ From \in 1 .. off + 1
  BY DEF From, HeadInv, IInv, TypeOK
<1>2. From' \in 1 .. off' + 1
  BY <1>1
<1>3. at' \notin {"fixed", "params"} /\ at \notin {"fixed", "params"}
  BY DEF PastParams
<1> QED
  BY <1>1, <1>2, <1>3 DEF HeadInv

LEMMA RejectTaken == Reject \/ Crash => TakenInv'
  BY DEF Reject, Crash, TakenInv, HeadInv, TailInv, PastParams

LEMMA MagicTaken == ASSUME IInv, ReadMagic PROVE TakenInv'
<1>1. CASE Reject
  BY <1>1, RejectTaken
<1>2. CASE /\ ~Short(2) /\ raw[1] = Magic /\ raw[2] \in Version
           /\ hdr' = [hdr EXCEPT !.version = raw[2]] /\ Advance(2, "fixed")
  <2>1. Len(raw) >= 2 /\ raw' = raw /\ hdr'.version = raw[2] /\ at' = "fixed"
    BY <1>2 DEF IInv, TypeOK, PieceOfVersion, ReadMagic, Short, Advance, Bytes
  <2> QED
    BY <1>2, <2>1 DEF TakenInv, HeadInv, TailInv, PastParams
<1> QED
  BY <1>1, <1>2 DEF ReadMagic

LEMMA FixedV1Taken == ASSUME IInv, TakenInv, FixedV1 PROVE TakenInv'
<1>1. CASE Reject
  BY <1>1, RejectTaken
<1>2. CASE /\ ~Short(4) /\ Advance(3, "salt") /\ need' = raw[5]
           /\ hdr' = [hdr EXCEPT !.kdf = raw[3], !.params = <<raw[4]>>]
  <2>1. /\ at = "fixed" /\ at' = "salt" /\ off = 2 /\ off' = 5 /\ raw' = raw
        /\ Len(raw) \in Nat /\ Len(raw) >= 6 /\ raw \in Seq(Nat)
    BY <1>2, LenProperties
    DEF IInv, TypeOK, PieceOfVersion, FixedV1, Short, Advance, Bytes
  <2>2. hdr'.version = 1 /\ hdr'.kdf = raw[3] /\ hdr'.params = <<raw[4]>>
    BY <1>2 DEF IInv, TypeOK, FixedV1
  <2>3. From' = 5 /\ raw[1] = Magic /\ raw[2] = 1
    BY <2>1, <2>2 DEF From, FixedV1, TakenInv, HeadInv
  <2>4. HeadInv'
    BY <2>1, <2>2, <2>3 DEF HeadInv, PastParams, Version
  <2>5. SubSeq(raw, 5, 5) = <<raw[5]>>
    <3>1. SubSeq(raw, 5, 4) \o <<raw[4 + 1]>> = SubSeq(raw, 5, 4 + 1)
      BY <2>1, CellExtends DEF Bytes
    <3>2. SubSeq(raw, 5, 4) = <<>> /\ <<raw[5]>> \in Seq(Nat)
      BY <2>1, SubSeqEmpty
    <3>3. <<>> \o <<raw[5]>> = <<raw[5]>>
      BY <3>2, ConcatEmptySeq
    <3>4. SubSeq(raw, 5, 4 + 1) = SubSeq(raw, 5, 5)
      OBVIOUS
    <3>5. raw[4 + 1] = raw[5]
      OBVIOUS
    <3> QED
      BY <3>1, <3>2, <3>3, <3>4, <3>5, Zenon
  <2>6. Taken' = <<need'>>
    <3>1. Taken' = SubSeq(raw', From', off')
      BY DEF Taken
    <3>2. Taken' = SubSeq(raw, 5, 5)
      BY <2>1, <2>3, <3>1, Zenon
    <3> QED
      BY <1>2, <2>5, <3>2, Zenon
  <2>7. TailInv'
    BY <2>1, <2>6 DEF TailInv
  <2> QED
    BY <2>4, <2>7 DEF TakenInv
<1> QED
  BY <1>1, <1>2 DEF FixedV1

LEMMA FixedV2Taken == ASSUME IInv, TakenInv, FixedV2 PROVE TakenInv'
<1>1. CASE Reject
  BY <1>1, RejectTaken
<1>2. CASE /\ ~Short(3) /\ Advance(2, "params") /\ need' = raw[4]
           /\ hdr' = [hdr EXCEPT !.kdf = raw[3]]
  <2>1. /\ at = "fixed" /\ at' = "params" /\ off = 2 /\ off' = 4 /\ raw' = raw
        /\ Len(raw) >= 4
    BY <1>2 DEF IInv, TypeOK, PieceOfVersion, FixedV2, Short, Advance, Bytes
  <2>2. hdr'.version = hdr.version /\ hdr'.kdf = raw[3]
    BY <1>2 DEF IInv, TypeOK
  <2> QED
    BY <1>2, <2>1, <2>2 DEF TakenInv, HeadInv, TailInv, PastParams
<1> QED
  BY <1>1, <1>2 DEF FixedV2

LEMMA ParamsTaken == ASSUME IInv, TakenInv, ReadParams PROVE TakenInv'
<1> DEFINE n == ParamsLength(hdr.kdf)
           rest == IF hdr.version = 2 THEN 1 ELSE 0
<1>1. CASE Reject
  BY <1>1, RejectTaken
<1>2. CASE /\ ~Short(need + rest) /\ need >= n
           /\ hdr' = [hdr EXCEPT !.params = Slice(n)] /\ Advance(need, "saltLength")
  <2>1. /\ at = "params" /\ at' = "saltLength" /\ raw' = raw /\ n \in Nat
        /\ off = 4 /\ need = raw[4] /\ need \in Nat /\ off' = 4 + raw[4]
        /\ hdr.version \in {2, 3} /\ raw \in Seq(Nat) /\ Len(raw) \in Nat
    BY <1>2, LenProperties
    DEF ReadParams, Advance, IInv, TypeOK, PieceOfVersion, TakenInv, HeadInv, ParamsLength,
        Bytes
  <2>2. hdr'.version = hdr.version /\ hdr'.kdf = hdr.kdf /\ hdr'.params = SubSeq(raw, 5, 4 + n)
    BY <1>2, <2>1 DEF IInv, TypeOK, Slice
  <2>3. Len(SubSeq(raw, 5, 4 + n)) = n
    <3>1. 4 + n <= Len(raw)
      BY <1>2, <2>1 DEF Short
    <3>2. \A i \in 5 .. 4 + n : raw[i] \in Nat
      BY <2>1, <3>1
    <3> HIDE DEF n
    <3>3. Len(SubSeq(raw, 5, 4 + n)) = IF 5 <= 4 + n THEN 4 + n - 5 + 1 ELSE 0
      BY <2>1, <3>2, SubSeqProperties
    <3> QED
      BY <2>1, <3>3
  <2>4. raw[1] = Magic /\ raw[2] = hdr.version /\ raw[3] = hdr.kdf /\ Len(raw) >= 4
    BY <2>1 DEF TakenInv, HeadInv
  <2>5. off' = From' - 1 /\ From' \in 1 .. off' + 1
    <3>1. From' = 5 + raw[4]
      BY <2>1, <2>2 DEF From
    <3> QED
      BY <2>1, <3>1
  <2>6. HeadInv'
    <3>1. n <= raw[4]
      BY <1>2, <2>1
    <3> HIDE DEF n
    <3>2. Len(hdr'.params) <= raw[4] /\ hdr'.params = SubSeq(raw, 5, 4 + Len(hdr'.params))
      BY <2>2, <2>3, <3>1
    <3>3. /\ at' = "saltLength" /\ raw' = raw /\ hdr'.version \in {2, 3}
          /\ hdr'.version = hdr.version /\ hdr'.kdf = hdr.kdf
      BY <2>1, <2>2
    <3> HIDE <2>2
    <3>4. hdr'.version # 1 /\ hdr'.version \in Version
      BY <3>3 DEF Version
    <3>5. at' # "params"
      BY <3>3
    <3>6. /\ Len(raw') >= 4 /\ Len(raw') >= 2 /\ raw'[1] = Magic
          /\ raw'[2] = hdr'.version /\ raw'[3] = hdr'.kdf
      <4>1. Len(raw) >= 2
        BY <2>1, <2>4
      <4> QED
        BY <2>4, <3>3, <4>1, Zenon
    <3>7. Len(hdr'.params) <= raw'[4] /\ hdr'.params = SubSeq(raw', 5, 4 + Len(hdr'.params))
      BY <3>2, <3>3, Zenon
    <3> QED
      BY <2>5, <3>4, <3>5, <3>6, <3>7, Zenon DEF HeadInv
  <2>7. TailInv'
    BY <2>1, <2>5 DEF TailInv
  <2> QED
    BY <2>6, <2>7 DEF TakenInv
<1> QED
  BY <1>1, <1>2 DEF ReadParams

(* Where the cursor is in the rest of the header.                          *)
LEMMA CursorPast ==
  ASSUME IInv, HeadInv, at \in PastParams
  PROVE  /\ raw \in Seq(Nat) /\ Len(raw) \in Nat /\ off \in Nat /\ off <= Len(raw)
         /\ From \in 1 .. Len(raw) + 1 /\ off \in From - 1 .. Len(raw)
<1>1. raw \in Seq(Nat) /\ Len(raw) \in Nat /\ off \in 0 .. Len(raw)
  BY LenProperties DEF IInv, TypeOK, Bytes
<1>2. From \in 1 .. off + 1
  BY DEF HeadInv
<1> QED
  BY <1>1, <1>2

LEMMA LengthTaken ==
  ASSUME NEW here, NEW lengths \in SUBSET Nat, NEW to,
         <<here, to>> \in {<<"saltLength", "salt">>, <<"keyLength", "key">>,
                           <<"saltRecLength", "saltRec">>, <<"keyRecLength", "keyRec">>},
         IInv, TakenInv, ReadLength(here, lengths, to)
  PROVE  TakenInv'
<1>1. CASE Reject \/ Crash
  BY <1>1, RejectTaken
<1>2. CASE ~Short(1) /\ need' = Cell /\ Advance(1, to) /\ UNCHANGED <<hdr, blob>>
  <2>1. /\ at = here /\ at' = to /\ raw' = raw /\ hdr' = hdr /\ off' = off + 1
        /\ need' = raw[off + 1]
    BY <1>2 DEF ReadLength, Advance, Cell
  <2>2. at \in PastParams /\ at' \in PastParams
    BY <2>1 DEF PastParams
  <2>3. HeadInv' /\ From' = From
    BY <2>1, <2>2, HeadStays DEF TakenInv
  <2>4. /\ raw \in Seq(Nat) /\ Len(raw) \in Nat /\ off \in Nat /\ From \in 1 .. Len(raw) + 1
        /\ off \in From - 1 .. Len(raw) - 1
    <3>1. off + 1 <= Len(raw)
      BY <1>2, <2>2, CursorPast DEF Short, TakenInv
    <3> QED
      BY <2>2, <3>1, CursorPast DEF TakenInv
  <2>5. Taken \o <<need'>> = Taken'
    BY <2>1, <2>3, <2>4, CellExtends DEF Taken, Bytes
  <2>6. here = "saltLength" => <<need'>> = Taken'
    <3> SUFFICES ASSUME here = "saltLength" PROVE <<need'>> = Taken'
      OBVIOUS
    <3>1. off = From - 1
      BY <2>1 DEF TakenInv, TailInv
    <3>2. Taken = <<>>
      BY <2>4, <3>1, SubSeqEmpty DEF Taken
    <3>3. <<need'>> \in Seq(Nat)
      BY <2>1, <2>4
    <3> QED
      BY <2>5, <3>2, <3>3, ConcatEmptySeq
  <2>7. TailInv'
    BY <2>1, <2>5, <2>6 DEF TakenInv, TailInv
  <2> QED
    BY <2>3, <2>7 DEF TakenInv
<1> QED
  BY <1>1, <1>2 DEF ReadLength

LEMMA BytesTaken ==
  ASSUME NEW here, NEW to, IInv, TakenInv, ReadBytes(here, here, to),
         \/ here = "salt" /\ to = IF hdr.version = 3 THEN "keyLength" ELSE "blob"
         \/ <<here, to>> \in {<<"key", "flag">>, <<"saltRec", "keyRecLength">>,
                              <<"keyRec", "blob">>}
  PROVE  TakenInv'
<1>1. CASE Reject
  BY <1>1, RejectTaken
<1>2. CASE /\ ~Short(need) /\ hdr' = [hdr EXCEPT ![here] = Slice(need)]
           /\ Advance(need, to)
  <2>1. /\ at = here /\ at' = to /\ raw' = raw /\ off' = off + need /\ need \in Nat
        /\ here \in {"salt", "key", "saltRec", "keyRec"}
        /\ to \in {"keyLength", "blob", "flag", "keyRecLength"}
    BY <1>2 DEF ReadBytes, Advance, IInv, TypeOK
  <2>2. at \in PastParams /\ at' \in PastParams
    BY <2>1 DEF PastParams
  <2>3. /\ hdr'.version = hdr.version /\ hdr'.kdf = hdr.kdf /\ hdr'.params = hdr.params
        /\ hdr'.recovery = hdr.recovery /\ hdr'[here] = Slice(need)
        /\ here # "salt" => hdr'.salt = hdr.salt
        /\ here # "key" => hdr'.key = hdr.key
        /\ here # "saltRec" => hdr'.saltRec = hdr.saltRec
    BY <1>2, <2>1 DEF IInv, TypeOK
  <2>4. HeadInv' /\ From' = From
    BY <2>1, <2>2, <2>3, HeadStays DEF TakenInv
  <2>5. /\ raw \in Bytes /\ From \in 1 .. Len(raw) + 1 /\ off \in From - 1 .. Len(raw)
        /\ off + need <= Len(raw)
    <3>1. off + need <= Len(raw)
      BY <1>2, <2>1, <2>2, CursorPast DEF Short, TakenInv
    <3> QED
      BY <2>2, <3>1, CursorPast DEF TakenInv, Bytes
  <2>6. ASSUME NEW x \in Bytes, x \o <<need>> = Taken
        PROVE  x \o Sized(Slice(need)) = Taken'
    BY <2>1, <2>4, <2>5, <2>6, SizedExtends DEF Taken, Slice
  <2>7. TailInv'
    <3>1. CASE here = "salt"
      <4>1. <<>> \in Bytes /\ <<need>> \in Bytes
        BY <2>1 DEF Bytes
      <4>2. <<>> \o <<need>> = Taken
        BY <2>1, <3>1, <4>1, ConcatEmptySeq DEF TakenInv, TailInv, Bytes
      <4>3. Slice(need) \in Bytes
        BY <2>3, <3>1, BytesInv DEF IInv, TypeOK
      <4>4. Sized(hdr'.salt) = Taken'
        BY <2>3, <2>6, <3>1, <4>1, <4>2, <4>3, SizedBytes, ConcatEmptySeq DEF Bytes
      <4> QED
        BY <2>1, <2>3, <3>1, <4>4 DEF TailInv, Rest, IInv, PieceOfVersion, Piece, Version
    <3>2. CASE here = "key"
      <4>1. Sized(hdr.salt) \in Bytes /\ Sized(hdr.salt) \o <<need>> = Taken
        BY <2>1, <3>2, FieldsBytes DEF TakenInv, TailInv, IInv
      <4>2. UpToKey(hdr') = Taken'
        BY <2>3, <2>6, <3>2, <4>1 DEF UpToKey
      <4> QED
        BY <2>1, <3>2, <4>2 DEF TailInv
    <3>3. CASE here = "saltRec"
      <4>1. UpToFlag(hdr) \in Bytes /\ UpToFlag(hdr) \o <<need>> = Taken /\ hdr.recovery
        BY <2>1, <3>3, FieldsBytes DEF TakenInv, TailInv, IInv
      <4>2. UpToFlag(hdr') = UpToFlag(hdr) /\ hdr'.saltRec = Slice(need)
        BY <2>3, <3>3 DEF UpToFlag, UpToKey
      <4>3. UpToFlag(hdr) \o Sized(Slice(need)) = Taken'
        BY <2>6, <4>1
      <4>4. UpToSaltRec(hdr') = Taken'
        BY <4>2, <4>3 DEF UpToSaltRec
      <4> QED
        BY <2>1, <2>3, <3>3, <4>1, <4>4 DEF TailInv
    <3>4. CASE here = "keyRec"
      <4>1. /\ UpToSaltRec(hdr) \in Bytes /\ UpToSaltRec(hdr) \o <<need>> = Taken
            /\ hdr.recovery /\ hdr.version = 3
        BY <2>1, <3>4, FieldsBytes DEF TakenInv, TailInv, IInv, PieceOfVersion
      <4>2. UpToSaltRec(hdr') = UpToSaltRec(hdr) /\ hdr'.keyRec = Slice(need)
        BY <2>3, <3>4 DEF UpToSaltRec, UpToFlag, UpToKey
      <4>3. UpToSaltRec(hdr) \o Sized(Slice(need)) = Taken'
        BY <2>6, <4>1
      <4>4. UpToSaltRec(hdr') \o Sized(hdr'.keyRec) = Taken'
        BY <4>2, <4>3
      <4> QED
        BY <2>1, <2>3, <3>4, <4>1, <4>4 DEF TailInv, Rest
    <3> QED
      BY <2>1, <3>1, <3>2, <3>3, <3>4
  <2> QED
    BY <2>4, <2>7 DEF TakenInv
<1> QED
  BY <1>1, <1>2 DEF ReadBytes

(* The flag is a cell like any other, and decides what comes after it.     *)
LEMMA FlagTaken == ASSUME IInv, TakenInv, ReadFlag PROVE TakenInv'
<1>1. CASE Reject
  BY <1>1, RejectTaken
<1>2. CASE /\ ~Short(1) /\ Cell \in {0, 1}
           /\ hdr' = [hdr EXCEPT !.recovery = (Cell = 1)]
           /\ Advance(1, IF Cell = 1 THEN "saltRecLength" ELSE "blob")
  <2>1. /\ at = "flag" /\ at' = (IF Cell = 1 THEN "saltRecLength" ELSE "blob")
        /\ raw' = raw /\ off' = off + 1 /\ hdr.version = 3
    BY <1>2 DEF ReadFlag, Advance, IInv, PieceOfVersion
  <2>2. at \in PastParams /\ at' \in PastParams
    BY <2>1 DEF PastParams
  <2>3. /\ hdr'.version = 3 /\ hdr'.kdf = hdr.kdf /\ hdr'.params = hdr.params
        /\ hdr'.salt = hdr.salt /\ hdr'.key = hdr.key
        /\ hdr'.recovery = (Cell = 1)
    BY <1>2, <2>1 DEF IInv, TypeOK
  <2>4. HeadInv' /\ From' = From
    BY <2>1, <2>2, <2>3, HeadStays DEF TakenInv
  <2>5. UpToKey(hdr) \o <<Cell>> = Taken'
    <3>1. off + 1 <= Len(raw)
      BY <1>2, <2>2, CursorPast DEF Short, TakenInv
    <3>2. /\ raw \in Bytes /\ From \in 1 .. Len(raw) + 1
          /\ off \in From - 1 .. Len(raw) - 1
      BY <2>2, <3>1, CursorPast DEF TakenInv, Bytes
    <3>3. Taken \o <<Cell>> = Taken'
      BY <2>1, <2>4, <3>2, CellExtends DEF Taken, Cell
    <3> QED
      BY <2>1, <3>3 DEF TakenInv, TailInv
  <2>6. UpToKey(hdr') = UpToKey(hdr)
    BY <2>3 DEF UpToKey
  <2>7. TailInv'
    <3>1. CASE Cell = 1
      <4>1. UpToFlag(hdr') = Taken' /\ hdr'.recovery /\ at' = "saltRecLength"
        BY <2>1, <2>3, <2>5, <2>6, <3>1 DEF UpToFlag
      <4> QED
        BY <4>1 DEF TailInv
    <3>2. CASE Cell = 0
      <4>0. Cell # 1
        BY <3>2
      <4>1. ~hdr'.recovery /\ at' = "blob"
        <5>1. at' = "blob"
          BY <2>1, <4>0, Zenon
        <5>2. ~hdr'.recovery
          BY <2>3, <4>0, Zenon
        <5> QED
          BY <5>1, <5>2
      <4>2. Rest(hdr') = Taken'
        BY <2>3, <2>5, <2>6, <3>2, <4>1 DEF Rest
      <4> QED
        BY <4>1, <4>2 DEF TailInv
    <3> QED
      BY <1>2, <3>1, <3>2
  <2> QED
    BY <2>4, <2>7 DEF TakenInv
<1> QED
  BY <1>1, <1>2 DEF ReadFlag

LEMMA BlobTaken == ASSUME IInv, TakenInv, ReadBlob PROVE TakenInv'
<1>1. CASE Reject
  BY <1>1, RejectTaken
<1>2. CASE /\ blob' = SubSeq(raw, off + 1, Len(raw))
           /\ at' = "parsed" /\ UNCHANGED <<off, need, hdr>>
  BY <1>2 DEF ReadBlob, TakenInv, HeadInv, TailInv, Taken, From, PastParams
<1> QED
  BY <1>1, <1>2 DEF ReadBlob

LEMMA StepTaken == IInv /\ TakenInv /\ [Next]_vars => TakenInv'
<1> SUFFICES ASSUME IInv, TakenInv, [Next]_vars PROVE TakenInv'
  OBVIOUS
<1>1. CASE ReadMagic
  BY <1>1, MagicTaken
<1>2. CASE FixedV1
  BY <1>2, FixedV1Taken
<1>3. CASE FixedV2
  BY <1>3, FixedV2Taken
<1>4. CASE ReadParams
  BY <1>4, ParamsTaken
<1>5. CASE ReadLength("saltLength", SaltLength, "salt")
  BY <1>5, LengthTaken, LengthAssumption
<1>6. CASE ReadBytes("salt", "salt", IF hdr.version = 3 THEN "keyLength" ELSE "blob")
  BY <1>6, BytesTaken
<1>7. CASE ReadLength("keyLength", KeyLength, "key")
  BY <1>7, LengthTaken, LengthAssumption
<1>8. CASE ReadBytes("key", "key", "flag")
  BY <1>8, BytesTaken
<1>9. CASE ReadFlag
  BY <1>9, FlagTaken
<1>10. CASE ReadLength("saltRecLength", SaltLength, "saltRec")
  BY <1>10, LengthTaken, LengthAssumption
<1>11. CASE ReadBytes("saltRec", "saltRec", "keyRecLength")
  BY <1>11, BytesTaken
<1>12. CASE ReadLength("keyRecLength", KeyLength, "keyRec")
  BY <1>12, LengthTaken, LengthAssumption
<1>13. CASE ReadBytes("keyRec", "keyRec", "blob")
  BY <1>13, BytesTaken
<1>14. CASE ReadBlob
  BY <1>14, BlobTaken
<1>15. CASE UNCHANGED vars
  <2>1. /\ raw' = raw /\ off' = off /\ at' = at /\ need' = need /\ hdr' = hdr
        /\ blob' = blob
    BY <1>15 DEF vars
  <2>2. From' = From /\ Taken' = Taken
    BY <2>1 DEF From, Taken
  <2>3. HeadInv'
    BY <2>1, <2>2, Zenon DEF TakenInv, HeadInv
  <2>4. TailInv'
    BY <2>1, <2>2, Zenon DEF TakenInv, TailInv
  <2> QED
    BY <2>3, <2>4 DEF TakenInv
<1> QED
  BY <1>1, <1>2, <1>3, <1>4, <1>5, <1>6, <1>7, <1>8, <1>9, <1>10, <1>11, <1>12, <1>13,
     <1>14, <1>15 DEF Next

(* Serialise groups the same strings in another way.                       *)
LEMMA SerialiseIsRest ==
  ASSUME IInv, hdr.version \in Version, Magic \in Nat
  PROVE  Serialise(hdr) =
           (<<Magic, hdr.version, hdr.kdf>>
              \o (IF hdr.version = 1 THEN hdr.params ELSE Sized(hdr.params)))
           \o Rest(hdr)
<1> DEFINE head == <<Magic, hdr.version, hdr.kdf>>
                     \o (IF hdr.version = 1 THEN hdr.params ELSE Sized(hdr.params))
           salt == Sized(hdr.salt)
           key == Sized(hdr.key)
           saltRec == Sized(hdr.saltRec)
           keyRec == Sized(hdr.keyRec)
           recovery == IF hdr.recovery THEN <<1>> \o saltRec \o keyRec ELSE <<0>>
<1>1. \A a \in Bytes : a \o <<>> = a
  BY ConcatEmptySeq DEF Bytes
<1>3. /\ salt \in Bytes /\ key \in Bytes /\ saltRec \in Bytes /\ keyRec \in Bytes
      /\ <<0>> \in Bytes /\ <<1>> \in Bytes
  BY FieldsBytes DEF IInv, Bytes
<1>4. head \in Bytes
  <2>1. hdr.version \in Nat /\ hdr.kdf \in Nat /\ hdr.params \in Bytes
    BY DEF IInv, TypeOK, Version, Pbkdf2, Argon2id
  <2>2. <<Magic, hdr.version, hdr.kdf>> \in Bytes
    BY <2>1 DEF Bytes
  <2>3. (IF hdr.version = 1 THEN hdr.params ELSE Sized(hdr.params)) \in Bytes
    BY <2>1, SizedBytes
  <2> QED
    BY <2>2, <2>3, Closed, Zenon
<1>5. Serialise(hdr) = (head \o salt) \o (IF hdr.version < 3 THEN <<>> ELSE key \o recovery)
  BY DEF Serialise
<1>6. Rest(hdr) = IF hdr.version < 3 THEN salt
                  ELSE IF hdr.recovery THEN (((salt \o key) \o <<1>>) \o saltRec) \o keyRec
                  ELSE (salt \o key) \o <<0>>
  BY DEF Rest, UpToSaltRec, UpToFlag, UpToKey
<1> HIDE DEF head, salt, key, saltRec, keyRec, recovery
<1>7. CASE hdr.version < 3
  <2>1. Serialise(hdr) = (head \o salt) \o <<>> /\ Rest(hdr) = salt
    BY <1>5, <1>6, <1>7, Zenon
  <2>2. Serialise(hdr) = head \o Rest(hdr)
    BY <1>1, <1>3, <1>4, <2>1, Closed, Zenon
  <2> QED
    BY <2>2, Zenon DEF head
<1>8. CASE ~(hdr.version < 3) /\ ~hdr.recovery
  <2>1. Serialise(hdr) = (head \o salt) \o (key \o <<0>>)
    BY <1>5, <1>8, Zenon DEF recovery
  <2>2. Rest(hdr) = (salt \o key) \o <<0>>
    BY <1>6, <1>8, Zenon
  <2>3. (salt \o key) \o <<0>> = salt \o (key \o <<0>>)
    BY <1>3, Assoc, Zenon
  <2>4. key \o <<0>> \in Bytes
    BY <1>3, Closed, Zenon
  <2>5. (head \o salt) \o (key \o <<0>>) = head \o (salt \o (key \o <<0>>))
    BY <1>3, <1>4, <2>4, Assoc, Zenon
  <2>6. Serialise(hdr) = head \o Rest(hdr)
    BY <2>1, <2>2, <2>3, <2>5, Zenon
  <2> QED
    BY <2>6, Zenon DEF head
<1>9. CASE ~(hdr.version < 3) /\ hdr.recovery
  <2> DEFINE last == (<<1>> \o saltRec) \o keyRec
  <2>1. Serialise(hdr) = (head \o salt) \o (key \o last)
    BY <1>5, <1>9, Zenon DEF recovery
  <2>2. Rest(hdr) = (((salt \o key) \o <<1>>) \o saltRec) \o keyRec
    BY <1>6, <1>9, Zenon
  <2>3. /\ salt \o key \in Bytes /\ <<1>> \o saltRec \in Bytes /\ last \in Bytes
        /\ key \o last \in Bytes
    BY <1>3, Closed, Zenon
  <2> DEFINE front == salt \o key
             flagged == <<1>> \o saltRec
  <2>4. (front \o <<1>>) \o saltRec = front \o flagged
    <3>1. front \in Bytes /\ <<1>> \in Bytes /\ saltRec \in Bytes
      BY <1>3, <2>3
    <3> HIDE DEF front
    <3> QED
      BY <3>1, Assoc
  <2>5. (front \o flagged) \o keyRec = front \o last
    <3>1. front \in Bytes /\ flagged \in Bytes /\ keyRec \in Bytes
      BY <1>3, <2>3
    <3> HIDE DEF front, flagged
    <3>2. (front \o flagged) \o keyRec = front \o (flagged \o keyRec)
      BY <3>1, Assoc
    <3> QED
      BY <3>2 DEF flagged
  <2> HIDE DEF last
  <2>6. front \o last = salt \o (key \o last)
    <3>1. salt \in Bytes /\ key \in Bytes /\ last \in Bytes
      BY <1>3, <2>3
    <3> QED
      BY <3>1, Assoc
  <2>7. (head \o salt) \o (key \o last) = head \o (salt \o (key \o last))
    BY <1>3, <1>4, <2>3, Assoc, Zenon
  <2>8. Serialise(hdr) = head \o Rest(hdr)
    BY <2>1, <2>2, <2>4, <2>5, <2>6, <2>7, Zenon
  <2> QED
    BY <2>8, Zenon DEF head
<1> QED
  BY <1>7, <1>8, <1>9

(* What parse_header accepts, serialise writes back to the bytes that were *)
(* read, surplus parameters excepted: the AAD of decrypt_with_password is  *)
(* the header that is in the file, whatever the file is.                   *)
THEOREM AadIsTheHeader == Spec => []SerialisesAsRead
<1>1. Init => TakenInv
  BY DEF Init, TakenInv, HeadInv, TailInv, PastParams
<1>2. IInv /\ TakenInv => SerialisesAsRead
  <2> SUFFICES ASSUME IInv, TakenInv, at = "parsed"
               PROVE  Serialise(hdr) \o blob = WithoutSurplus
    BY DEF SerialisesAsRead
  <2> DEFINE head == <<Magic, hdr.version, hdr.kdf>>
                       \o (IF hdr.version = 1 THEN hdr.params ELSE Sized(hdr.params))
             rest == SubSeq(raw, From, Len(raw))
  <2>1. /\ raw[1] = Magic /\ raw[2] = hdr.version /\ raw[3] = hdr.kdf /\ Len(raw) >= 4
        /\ hdr.version \in Version
        /\ hdr.version = 1 => hdr.params = <<raw[4]>>
        /\ hdr.version # 1 => /\ Len(hdr.params) <= raw[4]
                              /\ hdr.params = SubSeq(raw, 5, 4 + Len(hdr.params))
        /\ Rest(hdr) = Taken /\ blob = SubSeq(raw, off + 1, Len(raw))
    BY DEF TakenInv, HeadInv, TailInv, PastParams
  <2>2. /\ raw \in Seq(Nat) /\ Len(raw) \in Nat /\ off \in Nat
        /\ From \in 1 .. Len(raw) + 1 /\ off \in From - 1 .. Len(raw)
    BY CursorPast DEF TakenInv, PastParams
  <2>3. Taken \o blob = rest
    <3>1. Len(raw) \in off .. Len(raw)
      BY <2>2
    <3>2. SubSeq(raw, From, off) \o SubSeq(raw, off + 1, Len(raw)) = rest
      BY <2>2, <3>1, ConcatAdjacentSubSeq
    <3> QED
      BY <2>1, <3>2, Zenon DEF Taken
  <2>4. raw[1] \in Nat /\ raw[2] \in Nat /\ raw[3] \in Nat /\ raw[4] \in Nat
    <3>1. 1 \in 1 .. Len(raw) /\ 2 \in 1 .. Len(raw) /\ 3 \in 1 .. Len(raw)
          /\ 4 \in 1 .. Len(raw)
      BY <2>1, <2>2
    <3> QED
      BY <2>2, <3>1, ElementOfSeq, Zenon
  <2>5. /\ head \in Seq(Nat) /\ Taken \in Seq(Nat) /\ blob \in Seq(Nat)
        /\ hdr.params \in Seq(Nat)
    <3>1. hdr.params \in Bytes /\ blob \in Bytes /\ Rest(hdr) \in Bytes
      BY FieldsBytes DEF IInv, TypeOK
    <3>2. <<Magic, hdr.version, hdr.kdf>> \in Seq(Nat)
      BY <2>1, <2>4
    <3>3. (IF hdr.version = 1 THEN hdr.params ELSE Sized(hdr.params)) \in Seq(Nat)
      BY <3>1, SizedBytes DEF Bytes
    <3>4. head \in Seq(Nat)
      BY <3>2, <3>3, ConcatProperties
    <3> QED
      BY <2>1, <3>1, <3>4 DEF Bytes
  <2>6. Serialise(hdr) = head \o Taken
    BY <2>1, <2>4, SerialiseIsRest
  <2> HIDE DEF head, rest
  <2>7. Serialise(hdr) \o blob = head \o rest
    <3>1. head \in Bytes /\ Taken \in Bytes /\ blob \in Bytes
      BY <2>5 DEF Bytes
    <3>2. (head \o Taken) \o blob = head \o (Taken \o blob)
      BY <3>1, Assoc, Zenon
    <3> QED
      BY <2>3, <2>6, <3>2, Zenon
  <2>8. SubSeq(raw, 1, 3) = <<raw[1], raw[2], raw[3]>>
    <3>1. \A i \in 1 .. 3 : raw[i] \in Nat
      BY <2>4
    <3>2. /\ SubSeq(raw, 1, 3) \in Seq(Nat) /\ Len(SubSeq(raw, 1, 3)) = 3
          /\ \A i \in 1 .. 3 : SubSeq(raw, 1, 3)[i] = raw[i]
      <4>1. /\ SubSeq(raw, 1, 3) \in Seq(Nat)
            /\ Len(SubSeq(raw, 1, 3)) = IF 1 <= 3 THEN 3 - 1 + 1 ELSE 0
            /\ \A i \in 1 .. 3 - 1 + 1 : SubSeq(raw, 1, 3)[i] = raw[1 + i - 1]
        BY <3>1, SubSeqProperties
      <4> QED
        BY <4>1
    <3> DEFINE first == SubSeq(raw, 1, 3)
               t == <<raw[1], raw[2], raw[3]>>
    <3>3. t \in Seq(Nat) /\ Len(t) = 3 /\ t[1] = raw[1] /\ t[2] = raw[2] /\ t[3] = raw[3]
      BY <2>4
    <3>4. first \in Seq(Nat) /\ Len(first) = 3 /\ \A i \in 1 .. 3 : first[i] = raw[i]
      BY <3>2
    <3> HIDE DEF first, t
    <3>5. \A i \in 1 .. 3 : t[i] = raw[i]
      BY <3>3
    <3>6. first = t
      BY <3>3, <3>4, <3>5, SeqEqual
    <3> QED
      BY <3>6 DEF first, t
  <2>9. SubSeq(raw, 1, 3) = <<Magic, hdr.version, hdr.kdf>>
    BY <2>1, <2>8
  <2>10. head \o rest = WithoutSurplus
    <3>1. CASE hdr.version = 1
      <4>1. From = 5
        BY <3>1 DEF From
      <4>2. head = <<Magic, hdr.version, hdr.kdf>> \o <<raw[4]>>
        BY <2>1, <3>1 DEF head
      <4>3. <<Magic, hdr.version, hdr.kdf>> \o <<raw[4]>> = SubSeq(raw, 1, 4)
        <5>1. SubSeq(raw, 1, 4) = SubSeq(raw, 1, 4 - 1) \o <<raw[4]>>
          BY <2>1, <2>2, SubSeqRecursiveSecond
        <5>2. 4 - 1 = 3
          OBVIOUS
        <5> QED
          BY <2>9, <5>1, <5>2, Zenon
      <4>4. SubSeq(raw, 1, 4) \o SubSeq(raw, 4 + 1, Len(raw)) = SubSeq(raw, 1, Len(raw))
        <5>1. 1 \in 1 .. Len(raw) + 1 /\ 4 \in 1 - 1 .. Len(raw) /\ Len(raw) \in 4 .. Len(raw)
          BY <2>1, <2>2
        <5> QED
          BY <2>2, <5>1, ConcatAdjacentSubSeq
      <4>5. SubSeq(raw, 1, Len(raw)) = raw
        BY <2>2, SubSeqFull
      <4> QED
        BY <3>1, <4>1, <4>2, <4>3, <4>4, <4>5 DEF rest, WithoutSurplus
    <3>2. CASE hdr.version # 1
      <4> DEFINE n == Len(hdr.params)
      <4>1. From = 5 + raw[4]
        BY <3>2 DEF From
      <4>2. head = <<Magic, hdr.version, hdr.kdf>> \o (<<n>> \o hdr.params)
        BY <3>2 DEF head, Sized
      <4>3. SubSeq(raw, 1, 3) = <<Magic, hdr.version, hdr.kdf>>
        BY <2>9
      <4>4. hdr.params = SubSeq(raw, 5, 4 + n)
        BY <2>1, <3>2
      <4>5. n \in Nat /\ <<n>> \in Seq(Nat) /\ <<Magic, hdr.version, hdr.kdf>> \in Seq(Nat)
        BY <2>1, <2>4, <2>5, LenProperties
      <4> HIDE DEF n
      <4>6. <<Magic, hdr.version, hdr.kdf>> \o (<<n>> \o hdr.params)
              = (<<Magic, hdr.version, hdr.kdf>> \o <<n>>) \o hdr.params
        <5>1. hdr.params \in Bytes /\ <<n>> \in Bytes /\ <<Magic, hdr.version, hdr.kdf>> \in Bytes
          BY <2>5, <4>5 DEF Bytes
        <5> QED
          BY <5>1, Assoc, Zenon
      <4>7. WithoutSurplus = ((SubSeq(raw, 1, 3) \o <<n>>) \o SubSeq(raw, 5, 4 + n)) \o rest
        BY <3>2, <4>1 DEF WithoutSurplus, rest, n
      <4> QED
        BY <4>2, <4>3, <4>4, <4>6, <4>7
    <3> QED
      BY <3>1, <3>2
  <2> QED
    BY <2>7, <2>10
<1> QED
  BY <1>1, <1>2, StepTaken, HeaderInvariance, PTL DEF Spec
-----------------------------------------------------------------------------
(***************************************************************************)
(* A file that starts like a header the program has written, whole or cut  *)
(* off.  What the cursor has not come to of the header is From...(h), what *)
(* has been read of it With...(h).                                         *)
(***************************************************************************)

FromRec(h) == IF h.recovery THEN Sized(h.saltRec) \o Sized(h.keyRec) ELSE <<>>
FromFlag(h) == <<IF h.recovery THEN 1 ELSE 0>> \o FromRec(h)
FromKey(h) == IF h.version = 3 THEN Sized(h.key) \o FromFlag(h) ELSE <<>>
FromSalt(h) == Sized(h.salt) \o FromKey(h)
FromParams(h) == h.params \o FromSalt(h)
FromKdf(h) ==
  <<h.kdf>> \o (IF h.version = 1 THEN FromParams(h)
                ELSE <<Len(h.params)>> \o FromParams(h))
FromVersion(h) == <<h.version>> \o FromKdf(h)
FromMagic(h) == <<Magic>> \o FromVersion(h)

WithVersion(h) == [NoHeader EXCEPT !.version = h.version]
WithKdf(h) == [WithVersion(h) EXCEPT !.kdf = h.kdf]
WithParams(h) == [WithKdf(h) EXCEPT !.params = h.params]
WithSalt(h) == [WithParams(h) EXCEPT !.salt = h.salt]
WithKey(h) == [WithSalt(h) EXCEPT !.key = h.key]
WithFlag(h) == [WithKey(h) EXCEPT !.recovery = h.recovery]
WithSaltRec(h) == [WithFlag(h) EXCEPT !.saltRec = h.saltRec]

(* As far as the file r goes, w is what is in it after the cell o.         *)
Continues(r, o, w) == \A i \in 1 .. Len(w) : o + i <= Len(r) => r[o + i] = w[i]

Size(h) == Len(FromMagic(h))
Ahead(h, w) == Continues(raw, off, w) /\ off + Len(w) = Size(h)

(* The cursor goes through the file as the builder has gone through h.     *)
Follows(h) ==
  /\ at = "magic" => hdr = NoHeader /\ Ahead(h, FromMagic(h))
  /\ at = "fixed" => hdr = WithVersion(h) /\ Ahead(h, FromKdf(h))
  /\ at = "params" => /\ h.version # 1 /\ need = Len(h.params)
                      /\ hdr = WithKdf(h) /\ Ahead(h, FromParams(h))
  /\ at = "saltLength" => hdr = WithParams(h) /\ Ahead(h, FromSalt(h))
  /\ at = "salt" => /\ need = Len(h.salt)
                    /\ hdr = WithParams(h) /\ Ahead(h, h.salt \o FromKey(h))
  /\ at \in {"keyLength", "key", "flag"} => h.version = 3
  /\ at = "keyLength" => hdr = WithSalt(h) /\ Ahead(h, FromKey(h))
  /\ at = "key" => /\ need = Len(h.key)
                   /\ hdr = WithSalt(h) /\ Ahead(h, h.key \o FromFlag(h))
  /\ at = "flag" => hdr = WithKey(h) /\ Ahead(h, FromFlag(h))
  /\ at \in {"saltRecLength", "saltRec", "keyRecLength", "keyRec"} => h.recovery
  /\ at = "saltRecLength" => hdr = WithFlag(h) /\ Ahead(h, FromRec(h))
  /\ at = "saltRec" => /\ need = Len(h.saltRec)
                       /\ hdr = WithFlag(h) /\ Ahead(h, h.saltRec \o Sized(h.keyRec))
  /\ at = "keyRecLength" => hdr = WithSaltRec(h) /\ Ahead(h, Sized(h.keyRec) \o <<>>)
  /\ at = "keyRec" => /\ need = Len(h.keyRec)
                      /\ hdr = WithSaltRec(h) /\ Ahead(h, h.keyRec \o <<>>)
  /\ at = "blob" => hdr = h /\ Ahead(h, <<>>)
  /\ at = "parsed" => /\ hdr = h /\ off = Size(h) /\ off < Len(raw)
                      /\ blob = SubSeq(raw, off + 1, Len(raw))
  /\ at = "rejected" => Len(raw) <= Size(h)

(* The first part of what is ahead is in the file, if it is not cut off.   *)
LEMMA PartAhead ==
  ASSUME NEW r \in Bytes, NEW o \in Nat, NEW a \in Bytes, NEW b \in Bytes,
         Continues(r, o, a \o b)
  PROVE  /\ Len(a \o b) = Len(a) + Len(b) /\ Len(a) \in Nat /\ Len(b) \in Nat
         /\ o + Len(a) <= Len(r) => SubSeq(r, o + 1, o + Len(a)) = a
         /\ Continues(r, o + Len(a), b)
<1>1. /\ a \in Seq(Nat) /\ b \in Seq(Nat) /\ r \in Seq(Nat)
      /\ Len(a) \in Nat /\ Len(b) \in Nat /\ Len(r) \in Nat
  BY LenProperties DEF Bytes
<1>2. /\ Len(a \o b) = Len(a) + Len(b)
      /\ \A i \in 1 .. Len(a) + Len(b) :
           (a \o b)[i] = IF i <= Len(a) THEN a[i] ELSE b[i - Len(a)]
  BY <1>1, ConcatProperties
<1>3. \A i \in 1 .. Len(a) + Len(b) : o + i <= Len(r) => r[o + i] = (a \o b)[i]
  BY <1>2 DEF Continues
<1>4. ASSUME o + Len(a) <= Len(r) PROVE SubSeq(r, o + 1, o + Len(a)) = a
  <2> DEFINE s == SubSeq(r, o + 1, o + Len(a))
  <2>1. \A i \in o + 1 .. o + Len(a) : r[i] \in Nat
    BY <1>1, <1>4, LenProperties
  <2>2. /\ s \in Seq(Nat)
        /\ Len(s) = IF o + 1 <= o + Len(a) THEN o + Len(a) - (o + 1) + 1 ELSE 0
        /\ \A i \in 1 .. o + Len(a) - (o + 1) + 1 : s[i] = r[o + 1 + i - 1]
    <3>1. o + 1 \in Int /\ o + Len(a) \in Int
      BY <1>1
    <3> QED
      BY <2>1, <3>1, SubSeqProperties
  <2>3. Len(s) = Len(a) /\ \A i \in 1 .. Len(s) : s[i] = r[o + i]
    <3> HIDE DEF s
    <3> QED
      BY <1>1, <2>2
  <2>4. \A i \in 1 .. Len(s) : s[i] = a[i]
    <3> HIDE DEF s
    <3> SUFFICES ASSUME NEW i \in 1 .. Len(a) PROVE s[i] = a[i]
      BY <2>3
    <3>1. i \in 1 .. Len(a) + Len(b) /\ o + i <= Len(r) /\ i <= Len(a)
      BY <1>1, <1>4
    <3>2. s[i] = r[o + i] /\ r[o + i] = (a \o b)[i] /\ (a \o b)[i] = a[i]
      BY <1>2, <1>3, <2>3, <3>1
    <3> QED
      BY <3>2
  <2> QED
    <3> HIDE DEF s
    <3>1. s = a
      BY <1>1, <2>2, <2>3, <2>4, SeqEqual
    <3> QED
      BY <3>1 DEF s
<1>5. Continues(r, o + Len(a), b)
  <2> SUFFICES ASSUME NEW i \in 1 .. Len(b), o + Len(a) + i <= Len(r)
               PROVE  r[o + Len(a) + i] = b[i]
    BY DEF Continues
  <2>1. Len(a) + i \in 1 .. Len(a) + Len(b) /\ o + (Len(a) + i) <= Len(r)
        /\ ~(Len(a) + i <= Len(a)) /\ Len(a) + i - Len(a) = i
        /\ o + (Len(a) + i) = o + Len(a) + i
    BY <1>1
  <2>2. r[o + (Len(a) + i)] = (a \o b)[Len(a) + i]
    BY <1>3, <2>1
  <2>3. (a \o b)[Len(a) + i] = b[i]
    BY <1>2, <2>1
  <2> QED
    BY <2>1, <2>2, <2>3
<1> QED
  BY <1>1, <1>2, <1>4, <1>5

(* ... and so is the next cell.                                            *)
LEMMA CellAhead ==
  ASSUME NEW s \in Bytes, NEW p \in Nat, NEW c \in Nat, NEW rest \in Bytes,
         Continues(s, p, <<c>> \o rest)
  PROVE  /\ Len(<<c>> \o rest) = 1 + Len(rest) /\ Len(rest) \in Nat
         /\ p + 1 <= Len(s) => s[p + 1] = c
         /\ Continues(s, p + 1, rest)
<1>1. <<c>> \in Bytes /\ Len(<<c>>) = 1
  BY DEF Bytes
<1>2. /\ Len(<<c>> \o rest) = Len(<<c>>) + Len(rest) /\ Len(rest) \in Nat
      /\ Continues(s, p + Len(<<c>>), rest)
  <2>1. ASSUME NEW a \in Bytes, Continues(s, p, a \o rest)
        PROVE  /\ Len(a \o rest) = Len(a) + Len(rest) /\ Len(rest) \in Nat
               /\ Continues(s, p + Len(a), rest)
    BY <2>1, PartAhead
  <2> QED
    BY <1>1, <2>1, Zenon
<1>3. /\ Len(<<c>> \o rest) = 1 + Len(rest)
      /\ Continues(s, p + 1, rest)
  BY <1>1, <1>2
<1>4. (<<c>> \o rest)[1] = c
  BY <1>1, ConcatProperties DEF Bytes
<1> QED
  BY <1>2, <1>3, <1>4 DEF Continues

(* The pieces of a header are strings of numbers.                          *)
LEMMA PartsBytes ==
  ASSUME NEW h, WellFormed(h), Magic \in Nat
  PROVE  /\ {h.params, h.salt, h.key, h.saltRec, h.keyRec} \subseteq Bytes
         /\ {Sized(h.params), Sized(h.salt), Sized(h.key), Sized(h.saltRec), Sized(h.keyRec)}
              \subseteq Bytes
         /\ {FromRec(h), FromFlag(h), FromKey(h), FromSalt(h), FromParams(h), FromKdf(h),
             FromVersion(h), FromMagic(h)} \subseteq Bytes
         /\ <<>> \in Bytes
<1>0. /\ h.params \in Bytes /\ h.salt \in Bytes /\ h.key \in Bytes
      /\ h.saltRec \in Bytes /\ h.keyRec \in Bytes
      /\ h.version \in Nat /\ h.kdf \in Nat
  BY DEF WellFormed, Version, Pbkdf2, Argon2id
<1>1. /\ Sized(h.params) \in Bytes /\ Sized(h.salt) \in Bytes /\ Sized(h.key) \in Bytes
      /\ Sized(h.saltRec) \in Bytes /\ Sized(h.keyRec) \in Bytes
  BY <1>0, SizedBytes
<1>2. /\ <<>> \in Bytes /\ <<Magic>> \in Bytes /\ <<h.version>> \in Bytes /\ <<h.kdf>> \in Bytes
      /\ <<Len(h.params)>> \in Bytes /\ <<IF h.recovery THEN 1 ELSE 0>> \in Bytes
  BY <1>0, LenProperties DEF Bytes
<1>3. FromRec(h) \in Bytes
  BY <1>1, <1>2, Closed DEF FromRec
<1>4. FromFlag(h) \in Bytes
  BY <1>2, <1>3, Closed DEF FromFlag
<1>5. FromKey(h) \in Bytes
  BY <1>1, <1>2, <1>4, Closed DEF FromKey
<1>6. FromSalt(h) \in Bytes
  BY <1>1, <1>5, Closed DEF FromSalt
<1>7. FromParams(h) \in Bytes
  BY <1>0, <1>6, Closed DEF FromParams
<1>8. FromKdf(h) \in Bytes
  BY <1>2, <1>7, Closed DEF FromKdf
<1>9. FromVersion(h) \in Bytes
  BY <1>2, <1>8, Closed DEF FromVersion
<1>10. FromMagic(h) \in Bytes
  BY <1>2, <1>9, Closed DEF FromMagic
<1> QED
  BY <1>0, <1>1, <1>2, <1>3, <1>4, <1>5, <1>6, <1>7, <1>8, <1>9, <1>10

LEMMA InFile ==
  ASSUME TypeOK
  PROVE  raw \in Bytes /\ Len(raw) \in Nat /\ off \in Nat /\ need \in Nat
BY LenProperties DEF TypeOK, Bytes

(* A length is read that the builder wrote before x.                       *)
LEMMA LengthAhead ==
  ASSUME NEW h, NEW here, NEW lengths \in SUBSET Nat, NEW to,
         NEW x \in Bytes, NEW after \in Bytes, IInv, IInv',
         ReadLength(here, lengths, to), Len(x) \in lengths,
         Ahead(h, Sized(x) \o after)
  PROVE  /\ raw' = raw
         /\ \/ at' = "rejected" /\ Len(raw) <= Size(h)
            \/ at' = to /\ need' = Len(x) /\ hdr' = hdr /\ Ahead(h, x \o after)'
<1>1. raw \in Bytes /\ Len(raw) \in Nat /\ off \in Nat
  BY InFile DEF IInv
<1>2. Len(x) \in Nat /\ <<Len(x)>> \in Bytes /\ x \o after \in Bytes
  BY Closed DEF Bytes
<1>3. Sized(x) \o after = <<Len(x)>> \o (x \o after)
  BY <1>2, Assoc DEF Sized
<1> DEFINE rest == x \o after
           w == <<Len(x)>> \o rest
<1>4. Continues(raw, off, w) /\ off + Len(w) = Size(h)
  BY <1>3 DEF Ahead
<1>5. rest \in Bytes
  BY <1>2
<1> HIDE DEF rest
<1>6. /\ Len(w) = 1 + Len(rest) /\ Len(rest) \in Nat
      /\ off + 1 <= Len(raw) => raw[off + 1] = Len(x)
      /\ Continues(raw, off + 1, rest)
  BY <1>1, <1>2, <1>4, <1>5, CellAhead
<1> HIDE DEF w
<1>7. raw' = raw
  BY DEF ReadLength
<1>8. CASE Short(1) /\ Reject
  BY <1>1, <1>4, <1>6, <1>7, <1>8 DEF Short, Reject
<1>9. CASE Crash
  BY <1>9 DEF Crash, IInv, OnlyFormatErrors
<1>10. CASE ~Short(1) /\ Cell \notin lengths
  BY <1>1, <1>6, <1>10 DEF Short, Cell
<1>11. CASE /\ ~Short(1) /\ need' = Cell /\ Advance(1, to) /\ UNCHANGED <<hdr, blob>>
  <2>1. need' = Len(x) /\ off' = off + 1 /\ at' = to /\ hdr' = hdr
    BY <1>1, <1>6, <1>11 DEF Short, Cell, Advance
  <2>2. Continues(raw', off', rest) /\ off' + Len(rest) = Size(h)
    BY <1>1, <1>4, <1>6, <1>7, <2>1
  <2> QED
    BY <1>7, <2>1, <2>2 DEF Ahead, rest
<1> QED
  BY <1>8, <1>9, <1>10, <1>11 DEF ReadLength

(* ... and then x itself.                                                  *)
LEMMA StringAhead ==
  ASSUME NEW h, NEW here, NEW to, NEW x \in Bytes, NEW after \in Bytes, IInv,
         ReadBytes(here, here, to), need = Len(x), Ahead(h, x \o after)
  PROVE  /\ raw' = raw
         /\ \/ at' = "rejected" /\ Len(raw) <= Size(h)
            \/ at' = to /\ hdr' = [hdr EXCEPT ![here] = x] /\ Ahead(h, after)'
<1>1. raw \in Bytes /\ Len(raw) \in Nat /\ off \in Nat
  BY InFile DEF IInv
<1> DEFINE w == x \o after
<1>2. Continues(raw, off, w) /\ off + Len(w) = Size(h)
  BY DEF Ahead
<1>3. /\ Len(w) = Len(x) + Len(after) /\ Len(x) \in Nat /\ Len(after) \in Nat
      /\ off + Len(x) <= Len(raw) => SubSeq(raw, off + 1, off + Len(x)) = x
      /\ Continues(raw, off + Len(x), after)
  BY <1>1, <1>2, PartAhead
<1> HIDE DEF w
<1>4. raw' = raw
  BY DEF ReadBytes
<1>5. CASE Short(need) /\ Reject
  BY <1>1, <1>2, <1>3, <1>4, <1>5 DEF Short, Reject
<1>6. CASE ~Short(need) /\ hdr' = [hdr EXCEPT ![here] = Slice(need)] /\ Advance(need, to)
  <2>1. Slice(need) = x /\ off' = off + Len(x) /\ at' = to
    BY <1>1, <1>3, <1>6 DEF Short, Slice, Advance
  <2>2. Continues(raw', off', after) /\ off' + Len(after) = Size(h)
    BY <1>1, <1>2, <1>3, <1>4, <2>1
  <2> QED
    BY <1>4, <1>6, <2>1, <2>2 DEF Ahead
<1> QED
  BY <1>5, <1>6 DEF ReadBytes

LEMMA RejectFollows ==
  ASSUME NEW h, at' = "rejected", raw' = raw, Len(raw) <= Size(h)
  PROVE  Follows(h)'
BY DEF Follows

(* What a version or a header without recovery does not have is empty.     *)
LEMMA WholeHeader ==
  ASSUME NEW h, WellFormed(h)
  PROVE  /\ h.version # 3 => WithSalt(h) = h
         /\ ~h.recovery => WithFlag(h) = h
         /\ [WithSaltRec(h) EXCEPT !.keyRec = h.keyRec] = h
<1> DEFINE Headers == [version : Version \union {0}, kdf : {0, Pbkdf2, Argon2id},
                   params : Bytes, salt : Bytes, key : Bytes, recovery : BOOLEAN,
                   saltRec : Bytes, keyRec : Bytes]
           last == [WithSaltRec(h) EXCEPT !.keyRec = h.keyRec]
<1>1. /\ h \in Headers /\ h.version \in Version /\ h.kdf \in {0, Pbkdf2, Argon2id}
      /\ h.params \in Bytes /\ h.salt \in Bytes /\ h.key \in Bytes
      /\ h.recovery \in BOOLEAN /\ h.saltRec \in Bytes /\ h.keyRec \in Bytes
  BY DEF WellFormed
<1>2. ASSUME NEW r \in Headers, r.version = h.version, r.kdf = h.kdf, r.params = h.params,
             r.salt = h.salt, r.key = h.key, r.recovery = h.recovery,
             r.saltRec = h.saltRec, r.keyRec = h.keyRec
      PROVE  r = h
  BY <1>1, <1>2
<1>3. NoHeader \in Headers
  BY DEF NoHeader, Bytes
<1>4. WithVersion(h) \in Headers /\ WithKdf(h) \in Headers /\ WithParams(h) \in Headers
  BY <1>1, <1>3 DEF WithVersion, WithKdf, WithParams
<1>5. /\ WithSalt(h) \in Headers /\ WithKey(h) \in Headers /\ WithFlag(h) \in Headers
      /\ WithSaltRec(h) \in Headers /\ last \in Headers
  BY <1>1, <1>4 DEF WithSalt, WithKey, WithFlag, WithSaltRec
<1>6. /\ NoHeader.key = <<>> /\ NoHeader.recovery = FALSE
      /\ NoHeader.saltRec = <<>> /\ NoHeader.keyRec = <<>>
  BY DEF NoHeader
<1>7. /\ WithParams(h).version = h.version /\ WithParams(h).kdf = h.kdf
      /\ WithParams(h).params = h.params /\ WithParams(h).key = <<>>
      /\ WithParams(h).recovery = FALSE
      /\ WithParams(h).saltRec = <<>> /\ WithParams(h).keyRec = <<>>
  BY <1>3, <1>4, <1>6 DEF WithVersion, WithKdf, WithParams
<1>8. ASSUME h.version # 3 PROVE WithSalt(h) = h
  <2>1. h.key = <<>> /\ h.recovery = FALSE /\ h.saltRec = <<>> /\ h.keyRec = <<>>
    BY <1>1, <1>8 DEF WellFormed
  <2> QED
    BY <1>2, <1>4, <1>5, <1>7, <2>1 DEF WithSalt
<1>9. /\ WithFlag(h).version = h.version /\ WithFlag(h).kdf = h.kdf
      /\ WithFlag(h).params = h.params /\ WithFlag(h).salt = h.salt
      /\ WithFlag(h).key = h.key /\ WithFlag(h).recovery = h.recovery
      /\ WithFlag(h).saltRec = <<>> /\ WithFlag(h).keyRec = <<>>
  BY <1>4, <1>5, <1>7 DEF WithSalt, WithKey, WithFlag
<1>10. ASSUME ~h.recovery PROVE WithFlag(h) = h
  <2>1. h.saltRec = <<>> /\ h.keyRec = <<>>
    BY <1>10 DEF WellFormed
  <2> QED
    BY <1>2, <1>5, <1>9, <2>1
<1>11. last = h
  BY <1>2, <1>5, <1>9 DEF WithSaltRec
<1> QED
  BY <1>8, <1>10, <1>11

LEMMA SaltLengthFollows ==
  ASSUME NEW h \in Header, IInv, IInv', Follows(h),
         ReadLength("saltLength", SaltLength, "salt")
  PROVE  Follows(h)'
<1>1. /\ WellFormed(h) /\ h.salt \in Bytes /\ FromKey(h) \in Bytes
      /\ Len(h.salt) \in SaltLength /\ SaltLength \subseteq Nat
  BY PartsBytes, HeaderAssumption, LengthAssumption DEF WellFormed
<1>2. hdr = WithParams(h) /\ Ahead(h, Sized(h.salt) \o FromKey(h))
  BY DEF Follows, ReadLength, FromSalt
<1>3. /\ raw' = raw
      /\ \/ at' = "rejected" /\ Len(raw) <= Size(h)
         \/ at' = "salt" /\ need' = Len(h.salt) /\ hdr' = hdr /\ Ahead(h, h.salt \o FromKey(h))'
  BY <1>1, <1>2, LengthAhead
<1> QED
  BY <1>2, <1>3, RejectFollows DEF Follows

LEMMA SaltFollows ==
  ASSUME NEW h \in Header, IInv, Follows(h),
         ReadBytes("salt", "salt", IF hdr.version = 3 THEN "keyLength" ELSE "blob")
  PROVE  Follows(h)'
<1> DEFINE to == IF hdr.version = 3 THEN "keyLength" ELSE "blob"
<1>1. /\ WellFormed(h) /\ h.salt \in Bytes /\ FromKey(h) \in Bytes
  BY PartsBytes, HeaderAssumption
<1>2. hdr = WithParams(h) /\ need = Len(h.salt) /\ Ahead(h, h.salt \o FromKey(h))
  BY DEF Follows, ReadBytes
<1>3. /\ raw' = raw
      /\ \/ at' = "rejected" /\ Len(raw) <= Size(h)
         \/ at' = to /\ hdr' = [hdr EXCEPT !["salt"] = h.salt] /\ Ahead(h, FromKey(h))'
  <2>1. ReadBytes("salt", "salt", to)
    OBVIOUS
  <2> HIDE DEF to
  <2> QED
    BY <1>1, <1>2, <2>1, StringAhead
<1>4. hdr.version = h.version
  BY <1>2 DEF WithParams, WithKdf, WithVersion, NoHeader
<1>5. CASE at' = "keyLength" /\ h.version = 3 /\ hdr' = WithSalt(h) /\ Ahead(h, FromKey(h))'
  BY <1>5 DEF Follows
<1>6. CASE at' = "blob" /\ h.version # 3 /\ hdr' = WithSalt(h) /\ Ahead(h, FromKey(h))'
  <2>1. WithSalt(h) = h
    BY <1>1, <1>6, WholeHeader
  <2> QED
    BY <1>6, <2>1 DEF Follows, FromKey
<1> QED
  BY <1>2, <1>3, <1>4, <1>5, <1>6, RejectFollows DEF WithSalt

LEMMA KeyLengthFollows ==
  ASSUME NEW h \in Header, IInv, IInv', Follows(h),
         ReadLength("keyLength", KeyLength, "key")
  PROVE  Follows(h)'
<1>1. /\ WellFormed(h) /\ h.key \in Bytes /\ FromFlag(h) \in Bytes /\ KeyLength \subseteq Nat
  BY PartsBytes, HeaderAssumption, LengthAssumption
<1>2. hdr = WithSalt(h) /\ h.version = 3 /\ Ahead(h, Sized(h.key) \o FromFlag(h))
  BY DEF Follows, ReadLength, FromKey
<1>3. Len(h.key) \in KeyLength
  BY <1>1, <1>2 DEF WellFormed
<1>4. /\ raw' = raw
      /\ \/ at' = "rejected" /\ Len(raw) <= Size(h)
         \/ at' = "key" /\ need' = Len(h.key) /\ hdr' = hdr /\ Ahead(h, h.key \o FromFlag(h))'
  BY <1>1, <1>2, <1>3, LengthAhead
<1> QED
  BY <1>2, <1>4, RejectFollows DEF Follows

LEMMA KeyFollows ==
  ASSUME NEW h \in Header, IInv, Follows(h), ReadBytes("key", "key", "flag")
  PROVE  Follows(h)'
<1>1. h.key \in Bytes /\ FromFlag(h) \in Bytes
  BY PartsBytes, HeaderAssumption
<1>2. /\ hdr = WithSalt(h) /\ h.version = 3 /\ need = Len(h.key)
      /\ Ahead(h, h.key \o FromFlag(h))
  BY DEF Follows, ReadBytes
<1>3. /\ raw' = raw
      /\ \/ at' = "rejected" /\ Len(raw) <= Size(h)
         \/ at' = "flag" /\ hdr' = [hdr EXCEPT !["key"] = h.key] /\ Ahead(h, FromFlag(h))'
  BY <1>1, <1>2, StringAhead
<1> QED
  BY <1>2, <1>3, RejectFollows DEF Follows, WithKey

LEMMA FlagFollows ==
  ASSUME NEW h \in Header, IInv, Follows(h), ReadFlag
  PROVE  Follows(h)'
<1> DEFINE c == IF h.recovery THEN 1 ELSE 0
           w == <<c>> \o FromRec(h)
<1>1. WellFormed(h) /\ c \in Nat /\ FromRec(h) \in Bytes
  BY PartsBytes, HeaderAssumption
<1>2. hdr = WithKey(h) /\ h.version = 3 /\ Continues(raw, off, w) /\ off + Len(w) = Size(h)
  BY DEF Follows, ReadFlag, FromFlag, Ahead
<1>3. raw \in Bytes /\ Len(raw) \in Nat /\ off \in Nat /\ raw' = raw
  BY InFile DEF IInv, ReadFlag
<1>4. /\ Len(w) = 1 + Len(FromRec(h)) /\ Len(FromRec(h)) \in Nat
      /\ off + 1 <= Len(raw) => raw[off + 1] = c
      /\ Continues(raw, off + 1, FromRec(h))
  <2> HIDE DEF c
  <2> QED
    BY <1>1, <1>2, <1>3, CellAhead
<1> HIDE DEF w
<1>5. CASE Short(1) /\ Reject
  BY <1>2, <1>3, <1>4, <1>5, RejectFollows DEF Short, Reject
<1>6. CASE ~Short(1) /\ Cell \notin {0, 1}
  BY <1>3, <1>4, <1>6 DEF Short, Cell
<1>7. CASE /\ ~Short(1) /\ hdr' = [hdr EXCEPT !.recovery = (Cell = 1)]
           /\ Advance(1, IF Cell = 1 THEN "saltRecLength" ELSE "blob")
  <2>1. Cell = c /\ off' = off + 1 /\ (Cell = 1 <=> h.recovery)
    BY <1>3, <1>4, <1>7 DEF Short, Cell, Advance
  <2>2. Ahead(h, FromRec(h))'
    <3>1. Continues(raw', off', FromRec(h)) /\ off' + Len(FromRec(h)) = Size(h)
      BY <1>2, <1>3, <1>4, <2>1
    <3> QED
      BY <3>1 DEF Ahead
  <2>3. hdr' = WithFlag(h)
    <3>1. (Cell = 1) = h.recovery
      BY <1>1, <2>1, Zenon DEF WellFormed
    <3> QED
      BY <1>2, <1>7, <3>1 DEF WithFlag
  <2>4. CASE h.recovery
    BY <1>7, <2>1, <2>2, <2>3, <2>4 DEF Follows, Advance
  <2>5. CASE ~h.recovery
    <3>1. WithFlag(h) = h
      BY <1>1, <2>5, WholeHeader
    <3>2. FromRec(h) = <<>> /\ at' = "blob"
      BY <1>7, <2>1, <2>5 DEF FromRec, Advance
    <3> QED
      BY <2>2, <2>3, <3>1, <3>2 DEF Follows
  <2> QED
    BY <2>4, <2>5
<1> QED
  BY <1>5, <1>6, <1>7 DEF ReadFlag

LEMMA SaltRecLengthFollows ==
  ASSUME NEW h \in Header, IInv, IInv', Follows(h),
         ReadLength("saltRecLength", SaltLength, "saltRec")
  PROVE  Follows(h)'
<1>1. /\ WellFormed(h) /\ h.saltRec \in Bytes /\ Sized(h.keyRec) \in Bytes
      /\ SaltLength \subseteq Nat
  BY PartsBytes, HeaderAssumption, LengthAssumption
<1>2. hdr = WithFlag(h) /\ h.recovery /\ Ahead(h, Sized(h.saltRec) \o Sized(h.keyRec))
  BY DEF Follows, ReadLength, FromRec
<1>3. Len(h.saltRec) \in SaltLength
  BY <1>1, <1>2 DEF WellFormed
<1>4. /\ raw' = raw
      /\ \/ at' = "rejected" /\ Len(raw) <= Size(h)
         \/ /\ at' = "saltRec" /\ need' = Len(h.saltRec) /\ hdr' = hdr
            /\ Ahead(h, h.saltRec \o Sized(h.keyRec))'
  BY <1>1, <1>2, <1>3, LengthAhead
<1> QED
  BY <1>2, <1>4, RejectFollows DEF Follows

LEMMA SaltRecFollows ==
  ASSUME NEW h \in Header, IInv, Follows(h), ReadBytes("saltRec", "saltRec", "keyRecLength")
  PROVE  Follows(h)'
<1>1. h.saltRec \in Bytes /\ Sized(h.keyRec) \in Bytes
  BY PartsBytes, HeaderAssumption
<1>2. /\ hdr = WithFlag(h) /\ h.recovery /\ need = Len(h.saltRec)
      /\ Ahead(h, h.saltRec \o Sized(h.keyRec))
  BY DEF Follows, ReadBytes
<1>3. /\ raw' = raw
      /\ \/ at' = "rejected" /\ Len(raw) <= Size(h)
         \/ /\ at' = "keyRecLength" /\ hdr' = [hdr EXCEPT !["saltRec"] = h.saltRec]
            /\ Ahead(h, Sized(h.keyRec))'
  BY <1>1, <1>2, StringAhead
<1>4. Sized(h.keyRec) \o <<>> = Sized(h.keyRec)
  BY <1>1, ConcatEmptySeq DEF Bytes
<1> QED
  BY <1>2, <1>3, <1>4, RejectFollows DEF Follows, WithSaltRec

LEMMA KeyRecLengthFollows ==
  ASSUME NEW h \in Header, IInv, IInv', Follows(h),
         ReadLength("keyRecLength", KeyLength, "keyRec")
  PROVE  Follows(h)'
<1>1. /\ WellFormed(h) /\ h.keyRec \in Bytes /\ <<>> \in Bytes /\ KeyLength \subseteq Nat
  BY PartsBytes, HeaderAssumption, LengthAssumption
<1>2. hdr = WithSaltRec(h) /\ h.recovery /\ Ahead(h, Sized(h.keyRec) \o <<>>)
  BY DEF Follows, ReadLength
<1>3. Len(h.keyRec) \in KeyLength
  BY <1>1, <1>2 DEF WellFormed
<1>4. /\ raw' = raw
      /\ \/ at' = "rejected" /\ Len(raw) <= Size(h)
         \/ /\ at' = "keyRec" /\ need' = Len(h.keyRec) /\ hdr' = hdr
            /\ Ahead(h, h.keyRec \o <<>>)'
  BY <1>1, <1>2, <1>3, LengthAhead
<1> QED
  BY <1>2, <1>4, RejectFollows DEF Follows

LEMMA KeyRecFollows ==
  ASSUME NEW h \in Header, IInv, Follows(h), ReadBytes("keyRec", "keyRec", "blob")
  PROVE  Follows(h)'
<1>1. WellFormed(h) /\ h.keyRec \in Bytes /\ <<>> \in Bytes
  BY PartsBytes, HeaderAssumption
<1>2. /\ hdr = WithSaltRec(h) /\ need = Len(h.keyRec)
      /\ Ahead(h, h.keyRec \o <<>>)
  BY DEF Follows, ReadBytes
<1>3. /\ raw' = raw
      /\ \/ at' = "rejected" /\ Len(raw) <= Size(h)
         \/ /\ at' = "blob" /\ hdr' = [hdr EXCEPT !["keyRec"] = h.keyRec]
            /\ Ahead(h, <<>>)'
  BY <1>1, <1>2, StringAhead
<1>4. [WithSaltRec(h) EXCEPT !["keyRec"] = h.keyRec] = h
  BY <1>1, WholeHeader
<1> QED
  BY <1>2, <1>3, <1>4, RejectFollows DEF Follows

LEMMA BlobFollows ==
  ASSUME NEW h \in Header, IInv, Follows(h), ReadBlob
  PROVE  Follows(h)'
<1>1. hdr = h /\ Ahead(h, <<>>) /\ raw' = raw
  BY DEF Follows, ReadBlob
<1>2. Len(raw) \in Nat /\ off \in Nat /\ off = Size(h)
  BY <1>1, InFile DEF IInv, Ahead
<1>3. CASE Short(1) /\ Reject
  BY <1>1, <1>2, <1>3, RejectFollows DEF Short, Reject
<1>4. CASE /\ ~Short(1) /\ blob' = SubSeq(raw, off + 1, Len(raw)) /\ at' = "parsed"
           /\ UNCHANGED <<off, need, hdr>>
  BY <1>1, <1>2, <1>4 DEF Short, Follows
<1> QED
  BY <1>3, <1>4 DEF ReadBlob

LEMMA MagicFollows ==
  ASSUME NEW h \in Header, IInv, Follows(h), ReadMagic
  PROVE  Follows(h)'
<1>1. /\ WellFormed(h) /\ FromKdf(h) \in Bytes /\ FromVersion(h) \in Bytes
      /\ Magic \in Nat /\ h.version \in Nat /\ h.version \in Version
  BY PartsBytes, HeaderAssumption DEF WellFormed, Version
<1>2. hdr = NoHeader /\ Ahead(h, FromMagic(h)) /\ off = 0 /\ raw' = raw
  BY DEF Follows, ReadMagic, IInv, PieceOfVersion
<1>3. raw \in Bytes /\ Len(raw) \in Nat
  BY InFile DEF IInv
<1>4. /\ Size(h) = 1 + Len(FromVersion(h)) /\ Len(FromVersion(h)) \in Nat
      /\ 1 <= Len(raw) => raw[1] = Magic
      /\ Continues(raw, 1, FromVersion(h))
  <2>1. Continues(raw, 0, <<Magic>> \o FromVersion(h))
    BY <1>2 DEF Ahead, FromMagic
  <2>2. /\ Len(<<Magic>> \o FromVersion(h)) = 1 + Len(FromVersion(h))
        /\ Len(FromVersion(h)) \in Nat
        /\ 0 + 1 <= Len(raw) => raw[0 + 1] = Magic
        /\ Continues(raw, 0 + 1, FromVersion(h))
    BY <1>1, <1>3, <2>1, CellAhead
  <2> QED
    BY <2>2 DEF Size, FromMagic
<1>5. /\ Len(FromVersion(h)) = 1 + Len(FromKdf(h)) /\ Len(FromKdf(h)) \in Nat
      /\ 2 <= Len(raw) => raw[2] = h.version
      /\ Continues(raw, 2, FromKdf(h))
  <2>1. Continues(raw, 1, <<h.version>> \o FromKdf(h))
    BY <1>4 DEF FromVersion
  <2>2. /\ Len(<<h.version>> \o FromKdf(h)) = 1 + Len(FromKdf(h))
        /\ Len(FromKdf(h)) \in Nat
        /\ 1 + 1 <= Len(raw) => raw[1 + 1] = h.version
        /\ Continues(raw, 1 + 1, FromKdf(h))
    BY <1>1, <1>3, <2>1, CellAhead
  <2> QED
    BY <2>2 DEF FromVersion
<1>6. Short(2) <=> Len(raw) < 2
  BY <1>2, <1>3 DEF Short
<1>7. CASE Reject
  <2>1. Len(raw) < 2
    BY <1>1, <1>4, <1>5, <1>6, <1>7, <1>3 DEF ReadMagic, Reject, Advance
  <2> QED
    BY <1>2, <1>3, <1>4, <1>5, <1>7, <2>1, RejectFollows DEF Reject
<1>8. CASE ~Short(2) /\ hdr' = [hdr EXCEPT !.version = raw[2]] /\ Advance(2, "fixed")
  <2>1. raw[2] = h.version /\ off' = 2 /\ at' = "fixed" /\ hdr' = WithVersion(h)
    BY <1>2, <1>3, <1>5, <1>6, <1>8 DEF Advance, WithVersion
  <2>2. Continues(raw', off', FromKdf(h)) /\ off' + Len(FromKdf(h)) = Size(h)
    BY <1>2, <1>4, <1>5, <2>1
  <2> QED
    BY <2>1, <2>2 DEF Follows, Ahead
<1> QED
  BY <1>7, <1>8 DEF ReadMagic

LEMMA OneCell == ASSUME NEW s \in Bytes, Len(s) = 1 PROVE s[1] \in Nat /\ s = <<s[1]>>
<1>1. s \in Seq(Nat) /\ 1 \in 1 .. Len(s)
  BY DEF Bytes
<1>0. s[1] \in Nat
  BY <1>1, ElementOfSeq
<1> DEFINE t == <<s[1]>>
<1>2. t \in Seq(Nat) /\ Len(t) = 1 /\ t[1] = s[1]
  BY <1>0
<1> HIDE DEF t
<1>3. \A i \in 1 .. Len(s) : s[i] = t[i]
  BY <1>2
<1>4. s = t
  BY <1>1, <1>2, <1>3, SeqEqual
<1> QED
  BY <1>0, <1>4 DEF t

(* What is ahead before the first string: the salt, and its length.        *)
LEMMA SaltAhead ==
  ASSUME NEW h \in Header, NEW r \in Bytes, NEW o \in Nat, Continues(r, o, FromSalt(h))
  PROVE  /\ Len(FromSalt(h)) = 1 + Len(h.salt \o FromKey(h))
         /\ Len(h.salt \o FromKey(h)) \in Nat
         /\ o + 1 <= Len(r) => r[o + 1] = Len(h.salt)
         /\ Continues(r, o + 1, h.salt \o FromKey(h))
<1>1. h.salt \in Bytes /\ FromKey(h) \in Bytes
  BY PartsBytes, HeaderAssumption
<1>2. Len(h.salt) \in Nat /\ <<Len(h.salt)>> \in Bytes /\ h.salt \o FromKey(h) \in Bytes
  BY <1>1, Closed DEF Bytes
<1>3. FromSalt(h) = <<Len(h.salt)>> \o (h.salt \o FromKey(h))
  BY <1>1, <1>2, Assoc DEF FromSalt, Sized
<1> DEFINE rest == h.salt \o FromKey(h)
<1>4. rest \in Bytes /\ Continues(r, o, <<Len(h.salt)>> \o rest)
  BY <1>2, <1>3
<1> HIDE DEF rest
<1>5. /\ Len(<<Len(h.salt)>> \o rest) = 1 + Len(rest) /\ Len(rest) \in Nat
      /\ o + 1 <= Len(r) => r[o + 1] = Len(h.salt)
      /\ Continues(r, o + 1, rest)
  BY <1>2, <1>4, CellAhead
<1> QED
  BY <1>3, <1>5 DEF rest

LEMMA FixedV1Follows ==
  ASSUME NEW h \in Header, IInv, Follows(h), FixedV1
  PROVE  Follows(h)'
<1> DEFINE it == h.params[1]
           rest == h.salt \o FromKey(h)
<1>1. hdr = WithVersion(h) /\ Ahead(h, FromKdf(h)) /\ off = 2 /\ raw' = raw
  BY DEF Follows, FixedV1, IInv, PieceOfVersion
<1>2. raw \in Bytes /\ Len(raw) \in Nat
  BY InFile DEF IInv
<1>3. h.version = 1
  BY <1>1 DEF FixedV1, WithVersion, NoHeader
<1>4. /\ h.kdf \in {Pbkdf2, Argon2id} /\ h.kdf \in Nat /\ Len(h.params) = 1
      /\ it \in Iterations /\ it \in Nat /\ h.params = <<it>> /\ Len(h.salt) \in SaltLength
      /\ FromSalt(h) \in Bytes /\ FromParams(h) \in Bytes
  BY <1>3, OneCell, PartsBytes, HeaderAssumption DEF WellFormed, Pbkdf2, Argon2id
<1> HIDE DEF it
<1>5. /\ Size(h) = 2 + (1 + Len(FromParams(h))) /\ Len(FromParams(h)) \in Nat
      /\ 3 <= Len(raw) => raw[3] = h.kdf
      /\ Continues(raw, 3, FromParams(h))
  <2>1. FromKdf(h) = <<h.kdf>> \o FromParams(h)
    BY <1>3 DEF FromKdf
  <2>2. Continues(raw, 2, <<h.kdf>> \o FromParams(h))
        /\ Size(h) = 2 + Len(<<h.kdf>> \o FromParams(h))
    BY <1>1, <2>1 DEF Ahead
  <2>3. /\ Len(<<h.kdf>> \o FromParams(h)) = 1 + Len(FromParams(h))
        /\ Len(FromParams(h)) \in Nat
        /\ 2 + 1 <= Len(raw) => raw[2 + 1] = h.kdf
        /\ Continues(raw, 2 + 1, FromParams(h))
    BY <1>2, <1>4, <2>2, CellAhead
  <2> QED
    BY <2>2, <2>3
<1>6. /\ Len(FromParams(h)) = 1 + Len(FromSalt(h)) /\ Len(FromSalt(h)) \in Nat
      /\ 4 <= Len(raw) => raw[4] = it
      /\ Continues(raw, 4, FromSalt(h))
  <2>1. FromParams(h) = <<it>> \o FromSalt(h)
    BY <1>4 DEF FromParams
  <2>2. Continues(raw, 3, <<it>> \o FromSalt(h))
    BY <1>5, <2>1
  <2>3. /\ Len(<<it>> \o FromSalt(h)) = 1 + Len(FromSalt(h)) /\ Len(FromSalt(h)) \in Nat
        /\ 3 + 1 <= Len(raw) => raw[3 + 1] = it
        /\ Continues(raw, 3 + 1, FromSalt(h))
    BY <1>2, <1>4, <2>2, CellAhead
  <2> QED
    BY <2>1, <2>3
<1>7. /\ Len(FromSalt(h)) = 1 + Len(rest) /\ Len(rest) \in Nat
      /\ 5 <= Len(raw) => raw[5] = Len(h.salt)
      /\ Continues(raw, 5, rest)
  <2>1. /\ Len(FromSalt(h)) = 1 + Len(rest) /\ Len(rest) \in Nat
        /\ 4 + 1 <= Len(raw) => raw[4 + 1] = Len(h.salt)
        /\ Continues(raw, 4 + 1, rest)
    BY <1>2, <1>6, SaltAhead
  <2> QED
    BY <2>1
<1> HIDE DEF rest
<1>8. Short(4) <=> Len(raw) < 6
  BY <1>1, <1>2 DEF Short
<1>9. CASE Reject
  <2>1. Short(4)
    <3> SUFFICES ASSUME ~Short(4) PROVE FALSE
      OBVIOUS
    <3>1. raw[3] = h.kdf /\ raw[4] = it /\ raw[5] = Len(h.salt)
      BY <1>2, <1>5, <1>6, <1>7, <1>8
    <3> QED
      BY <1>4, <1>9, <3>1 DEF FixedV1, Reject, Advance
  <2> QED
    BY <1>1, <1>2, <1>5, <1>6, <1>7, <1>8, <1>9, <2>1, RejectFollows DEF Reject
<1>10. CASE /\ ~Short(4) /\ hdr' = [hdr EXCEPT !.kdf = raw[3], !.params = <<raw[4]>>]
            /\ need' = raw[5] /\ Advance(3, "salt")
  <2>1. raw[3] = h.kdf /\ raw[4] = it /\ raw[5] = Len(h.salt)
    BY <1>2, <1>5, <1>6, <1>7, <1>8, <1>10
  <2>2. off' = 5 /\ at' = "salt" /\ need' = Len(h.salt)
    BY <1>1, <1>10, <2>1 DEF Advance
  <2>3. hdr' = WithParams(h)
    BY <1>1, <1>4, <1>10, <2>1 DEF WithParams, WithKdf
  <2>4. Continues(raw', off', rest) /\ off' + Len(rest) = Size(h)
    BY <1>1, <1>5, <1>6, <1>7, <2>2
  <2> QED
    BY <2>2, <2>3, <2>4 DEF Follows, Ahead, rest
<1> QED
  BY <1>9, <1>10 DEF FixedV1

LEMMA FixedV2Follows ==
  ASSUME NEW h \in Header, IInv, Follows(h), FixedV2
  PROVE  Follows(h)'
<1> DEFINE n == Len(h.params)
           rest == <<n>> \o FromParams(h)
<1>1. hdr = WithVersion(h) /\ Ahead(h, FromKdf(h)) /\ off = 2 /\ raw' = raw
  BY DEF Follows, FixedV2, IInv, PieceOfVersion
<1>2. raw \in Bytes /\ Len(raw) \in Nat
  BY InFile DEF IInv
<1>3. h.version # 1
  BY <1>1 DEF FixedV2, WithVersion, NoHeader
<1>4. /\ h.kdf \in {Pbkdf2, Argon2id} /\ h.kdf \in Nat
      /\ n \in Nat /\ <<n>> \in Bytes /\ FromParams(h) \in Bytes
  BY PartsBytes, HeaderAssumption DEF WellFormed, Pbkdf2, Argon2id, Bytes
<1>5. rest \in Bytes
  BY <1>4, Closed
<1> HIDE DEF n
<1>6. /\ Size(h) = 2 + (1 + Len(rest)) /\ Len(rest) \in Nat
      /\ 3 <= Len(raw) => raw[3] = h.kdf
      /\ Continues(raw, 3, rest)
  <2>1. FromKdf(h) = <<h.kdf>> \o rest
    BY <1>3 DEF FromKdf, n
  <2> HIDE DEF rest
  <2>2. Continues(raw, 2, <<h.kdf>> \o rest) /\ Size(h) = 2 + Len(<<h.kdf>> \o rest)
    BY <1>1, <2>1 DEF Ahead
  <2>3. /\ Len(<<h.kdf>> \o rest) = 1 + Len(rest) /\ Len(rest) \in Nat
        /\ 2 + 1 <= Len(raw) => raw[2 + 1] = h.kdf
        /\ Continues(raw, 2 + 1, rest)
    BY <1>2, <1>4, <1>5, <2>2, CellAhead
  <2> QED
    BY <2>2, <2>3
<1>7. /\ Len(rest) = 1 + Len(FromParams(h)) /\ Len(FromParams(h)) \in Nat
      /\ 4 <= Len(raw) => raw[4] = n
      /\ Continues(raw, 4, FromParams(h))
  <2>1. /\ Len(rest) = 1 + Len(FromParams(h)) /\ Len(FromParams(h)) \in Nat
        /\ 3 + 1 <= Len(raw) => raw[3 + 1] = n
        /\ Continues(raw, 3 + 1, FromParams(h))
    BY <1>2, <1>4, <1>6, CellAhead
  <2> QED
    BY <2>1
<1> HIDE DEF rest
<1>8. Short(3) <=> Len(raw) < 5
  BY <1>1, <1>2 DEF Short
<1>9. CASE Reject
  <2>1. Short(3)
    BY <1>2, <1>4, <1>6, <1>8, <1>9 DEF FixedV2, Reject, Advance
  <2> QED
    BY <1>1, <1>2, <1>6, <1>7, <1>8, <1>9, <2>1, RejectFollows DEF Reject
<1>10. CASE /\ ~Short(3) /\ hdr' = [hdr EXCEPT !.kdf = raw[3]]
            /\ need' = raw[4] /\ Advance(2, "params")
  <2>1. raw[3] = h.kdf /\ raw[4] = n
    BY <1>2, <1>6, <1>7, <1>8, <1>10
  <2>2. off' = 4 /\ at' = "params" /\ need' = n /\ hdr' = WithKdf(h)
    BY <1>1, <1>10, <2>1 DEF Advance, WithKdf
  <2>3. Continues(raw', off', FromParams(h)) /\ off' + Len(FromParams(h)) = Size(h)
    BY <1>1, <1>6, <1>7, <2>2
  <2> QED
    BY <1>3, <2>2, <2>3 DEF Follows, Ahead, n
<1> QED
  BY <1>9, <1>10 DEF FixedV2

LEMMA ParamsFollows ==
  ASSUME NEW h \in Header, IInv, Follows(h), ReadParams
  PROVE  Follows(h)'
<1> DEFINE n == ParamsLength(hdr.kdf)
           rest == IF hdr.version = 2 THEN 1 ELSE 0
           w == h.params \o FromSalt(h)
<1>1. /\ hdr = WithKdf(h) /\ h.version # 1 /\ need = Len(h.params) /\ raw' = raw
      /\ Continues(raw, off, w) /\ off + Len(w) = Size(h)
  BY DEF Follows, ReadParams, Ahead, FromParams
<1>2. raw \in Bytes /\ Len(raw) \in Nat /\ off \in Nat
  BY InFile DEF IInv
<1>3. hdr.kdf = h.kdf
  BY <1>1 DEF WithKdf, WithVersion, NoHeader
<1>4. /\ need = n /\ n \in Nat /\ ValidParams(hdr.kdf, h.params)
      /\ h.params \in Bytes /\ FromSalt(h) \in Bytes
  BY <1>1, <1>3, PartsBytes, HeaderAssumption DEF WellFormed, ParamsLength
<1> HIDE DEF w, n
<1>5. /\ Len(w) = n + Len(FromSalt(h)) /\ Len(FromSalt(h)) \in Nat
      /\ off + n <= Len(raw) => SubSeq(raw, off + 1, off + n) = h.params
      /\ Continues(raw, off + n, FromSalt(h))
  <2>1. ASSUME NEW a \in Bytes, NEW b \in Bytes, Continues(raw, off, a \o b)
        PROVE  /\ Len(a \o b) = Len(a) + Len(b) /\ Len(b) \in Nat
               /\ off + Len(a) <= Len(raw) => SubSeq(raw, off + 1, off + Len(a)) = a
               /\ Continues(raw, off + Len(a), b)
    BY <1>2, <2>1, PartAhead
  <2>2. Continues(raw, off, h.params \o FromSalt(h))
    BY <1>1 DEF w
  <2>3. /\ Len(w) = Len(h.params) + Len(FromSalt(h)) /\ Len(FromSalt(h)) \in Nat
        /\ off + Len(h.params) <= Len(raw) =>
             SubSeq(raw, off + 1, off + Len(h.params)) = h.params
        /\ Continues(raw, off + Len(h.params), FromSalt(h))
    BY <1>4, <2>1, <2>2, Zenon DEF w
  <2> QED
    BY <1>1, <1>4, <2>3
<1>6. Len(FromSalt(h)) >= 1
  <2>1. off + n \in Nat
    BY <1>2, <1>4
  <2>2. /\ Len(FromSalt(h)) = 1 + Len(h.salt \o FromKey(h))
        /\ Len(h.salt \o FromKey(h)) \in Nat
    BY <1>2, <1>5, <2>1, SaltAhead
  <2> QED
    BY <2>2
<1>7. rest \in 0 .. 1
  OBVIOUS
<1> HIDE DEF rest
<1>8. Short(need + rest) <=> Len(raw) < off + (n + rest)
  BY <1>4 DEF Short
<1>9. CASE Reject
  <2>1. Short(need + rest)
    <3> SUFFICES ASSUME ~Short(need + rest) PROVE FALSE
      OBVIOUS
    <3>1. Slice(n) = h.params
      BY <1>2, <1>4, <1>5, <1>7, <1>8 DEF Slice
    <3> QED
      BY <1>4, <1>9, <3>1 DEF ReadParams, Reject, Advance, n, rest
  <2> QED
    BY <1>1, <1>2, <1>4, <1>5, <1>6, <1>7, <1>8, <1>9, <2>1, RejectFollows DEF Reject
<1>10. CASE /\ ~Short(need + rest) /\ hdr' = [hdr EXCEPT !.params = Slice(n)]
            /\ Advance(need, "saltLength")
  <2>1. Slice(n) = h.params
    BY <1>2, <1>4, <1>5, <1>7, <1>8, <1>10 DEF Slice
  <2>2. off' = off + n /\ at' = "saltLength" /\ hdr' = WithParams(h)
    BY <1>1, <1>4, <1>10, <2>1 DEF Advance, WithParams
  <2>3. Continues(raw', off', FromSalt(h)) /\ off' + Len(FromSalt(h)) = Size(h)
    BY <1>1, <1>2, <1>4, <1>5, <2>2
  <2> QED
    BY <2>2, <2>3 DEF Follows, Ahead
<1> QED
  BY <1>9, <1>10 DEF ReadParams, n, rest

LEMMA StepFollows ==
  ASSUME NEW h \in Header
  PROVE  IInv /\ Follows(h) /\ [Next]_vars => Follows(h)'
<1> SUFFICES ASSUME IInv, Follows(h), [Next]_vars PROVE Follows(h)'
  OBVIOUS
<1>0. IInv'
  BY StepInv
<1>1. CASE ReadMagic \/ FixedV1 \/ FixedV2 \/ ReadParams \/ ReadFlag \/ ReadBlob
  BY <1>1, MagicFollows, FixedV1Follows, FixedV2Follows, ParamsFollows, FlagFollows,
     BlobFollows
<1>2. CASE \/ ReadLength("saltLength", SaltLength, "salt")
           \/ ReadLength("keyLength", KeyLength, "key")
           \/ ReadLength("saltRecLength", SaltLength, "saltRec")
           \/ ReadLength("keyRecLength", KeyLength, "keyRec")
  BY <1>0, <1>2, SaltLengthFollows, KeyLengthFollows, SaltRecLengthFollows,
     KeyRecLengthFollows
<1>3. CASE \/ ReadBytes("salt", "salt", IF hdr.version = 3 THEN "keyLength" ELSE "blob")
           \/ ReadBytes("key", "key", "flag")
           \/ ReadBytes("saltRec", "saltRec", "keyRecLength")
           \/ ReadBytes("keyRec", "keyRec", "blob")
  BY <1>3, SaltFollows, KeyFollows, SaltRecFollows, KeyRecFollows
<1>4. CASE UNCHANGED vars
  <2>1. /\ raw' = raw /\ off' = off /\ at' = at /\ need' = need /\ hdr' = hdr
        /\ blob' = blob
    BY <1>4 DEF vars
  <2> HIDE <1>4
  <2>2. Follows(h)' = Follows(h)
    BY ONLY <2>1 DEF Follows, Ahead
  <2> QED
    BY <2>2, Zenon
<1> QED
  BY <1>1, <1>2, <1>3, <1>4 DEF Next

(* Cell by cell and string by string is how the builder puts it together.  *)
LEMMA SerialisedIsAhead == \A h \in Header : Serialise(h) = FromMagic(h)
<1> SUFFICES ASSUME NEW h \in Header PROVE Serialise(h) = FromMagic(h)
  OBVIOUS
<1> DEFINE pre == <<Magic, h.version, h.kdf>>
           params == IF h.version = 1 THEN h.params ELSE Sized(h.params)
           tail == IF h.version < 3 THEN <<>>
                   ELSE Sized(h.key)
                        \o (IF h.recovery THEN <<1>> \o Sized(h.saltRec) \o Sized(h.keyRec)
                            ELSE <<0>>)
<1>1. /\ WellFormed(h) /\ h.version \in Version /\ h.version \in Nat /\ h.kdf \in Nat
      /\ Magic \in Nat /\ h.recovery \in BOOLEAN
  BY HeaderAssumption DEF WellFormed, Version, Pbkdf2, Argon2id
<1>2. /\ h.params \in Bytes /\ Sized(h.params) \in Bytes /\ Sized(h.salt) \in Bytes
      /\ Sized(h.key) \in Bytes /\ Sized(h.saltRec) \in Bytes /\ Sized(h.keyRec) \in Bytes
      /\ FromKey(h) \in Bytes /\ FromFlag(h) \in Bytes /\ FromSalt(h) \in Bytes
      /\ FromParams(h) \in Bytes /\ FromKdf(h) \in Bytes /\ FromVersion(h) \in Bytes
  BY <1>1, PartsBytes
<1>3. /\ <<0>> \in Bytes /\ <<1>> \in Bytes /\ <<Magic>> \in Bytes
      /\ <<h.version>> \in Bytes /\ <<h.kdf>> \in Bytes /\ <<Len(h.params)>> \in Bytes
  BY <1>1, <1>2 DEF Bytes
<1>4. FromFlag(h) = IF h.recovery THEN <<1>> \o Sized(h.saltRec) \o Sized(h.keyRec)
                    ELSE <<0>>
  <2>1. CASE h.recovery
    <3>1. (<<1>> \o Sized(h.saltRec)) \o Sized(h.keyRec)
            = <<1>> \o (Sized(h.saltRec) \o Sized(h.keyRec))
      <4> DEFINE a == Sized(h.saltRec)
                 b == Sized(h.keyRec)
      <4>1. a \in Bytes /\ b \in Bytes
        BY <1>2
      <4> HIDE DEF a, b
      <4>2. (<<1>> \o a) \o b = <<1>> \o (a \o b)
        BY <1>3, <4>1, Assoc
      <4> QED
        BY <4>2 DEF a, b
    <3> QED
      BY <2>1, <3>1 DEF FromFlag, FromRec
  <2>2. CASE ~h.recovery
    <3>1. <<0>> \o <<>> = <<0>>
      BY <1>3, ConcatSimplifications DEF Bytes
    <3> QED
      BY <2>2, <3>1 DEF FromFlag, FromRec
  <2> QED
    BY <2>1, <2>2
<1>5. tail = FromKey(h)
  <2>1. h.version < 3 <=> h.version # 3
    BY <1>1 DEF Version
  <2> QED
    BY <1>4, <2>1 DEF FromKey
<1>6. params \in Bytes /\ pre \in Bytes
  BY <1>1, <1>2 DEF Bytes
<1>7. pre = (<<Magic>> \o <<h.version>>) \o <<h.kdf>>
  BY <1>1
<1>8. FromKdf(h) = <<h.kdf>> \o (params \o FromSalt(h))
  <2>1. (<<Len(h.params)>> \o h.params) \o FromSalt(h)
          = <<Len(h.params)>> \o (h.params \o FromSalt(h))
    <3>1. <<Len(h.params)>> \in Bytes /\ h.params \in Bytes /\ FromSalt(h) \in Bytes
      BY <1>2, <1>3
    <3> QED
      BY <3>1, Assoc
  <2> QED
    BY <2>1 DEF FromKdf, FromParams, Sized
<1> DEFINE after == params \o FromSalt(h)
<1>9. FromSalt(h) = Sized(h.salt) \o tail
  BY <1>5 DEF FromSalt
<1>10. Serialise(h) = ((pre \o params) \o Sized(h.salt)) \o tail
  BY DEF Serialise
<1> HIDE DEF pre, params, tail
<1>11. after \in Bytes
  BY <1>2, <1>6, Closed
<1>12. ((pre \o params) \o Sized(h.salt)) \o tail = pre \o after
  <2>1. tail \in Bytes /\ pre \o params \in Bytes
    BY <1>2, <1>5, <1>6, Closed
  <2>2. ((pre \o params) \o Sized(h.salt)) \o tail = (pre \o params) \o FromSalt(h)
    <3>1. pre \o params \in Bytes /\ Sized(h.salt) \in Bytes /\ tail \in Bytes
      BY <1>2, <2>1
    <3>2. ((pre \o params) \o Sized(h.salt)) \o tail
            = (pre \o params) \o (Sized(h.salt) \o tail)
      BY <3>1, Assoc
    <3> QED
      BY <1>9, <3>2
  <2>3. (pre \o params) \o FromSalt(h) = pre \o (params \o FromSalt(h))
    <3>1. pre \in Bytes /\ params \in Bytes /\ FromSalt(h) \in Bytes
      BY <1>2, <1>6
    <3> QED
      BY <3>1, Assoc
  <2> QED
    BY <2>2, <2>3
<1> HIDE DEF after
<1>13. pre \o after = <<Magic>> \o (<<h.version>> \o (<<h.kdf>> \o after))
  BY <1>3, <1>7, <1>11, Closed, Assoc
<1> QED
  BY <1>8, <1>10, <1>12, <1>13 DEF FromMagic, FromVersion, after

(* As far as a file goes on like a header, the cursor follows the header.  *)
FollowsAll == \A h \in Header : Continues(raw, 0, FromMagic(h)) => Follows(h)

LEMMA FollowsInvariance == Spec => [](IInv /\ FollowsAll)
<1>1. Init => FollowsAll
  <2> SUFFICES ASSUME Init, NEW h \in Header, Continues(raw, 0, FromMagic(h))
               PROVE  Follows(h)
    BY DEF FollowsAll
  <2>1. at = "magic" /\ off = 0 /\ hdr = NoHeader
    BY DEF Init
  <2>2. FromMagic(h) \in Bytes
    BY PartsBytes, HeaderAssumption
  <2>3. Ahead(h, FromMagic(h))
    BY <2>1, <2>2, LenProperties DEF Ahead, Size, Bytes
  <2> QED
    BY <2>1, <2>3 DEF Follows
<1>2. IInv /\ FollowsAll /\ [Next]_vars => FollowsAll'
  <2> SUFFICES ASSUME IInv, FollowsAll, [Next]_vars, NEW h \in Header,
                      Continues(raw', 0, FromMagic(h))
               PROVE  Follows(h)'
    BY DEF FollowsAll
  <2>1. raw' = raw
    BY DEF Next, vars, ReadMagic, FixedV1, FixedV2, ReadParams, ReadLength, ReadBytes,
           ReadFlag, ReadBlob
  <2>2. Follows(h)
    BY <2>1 DEF FollowsAll
  <2> QED
    BY <2>2, StepFollows
<1> QED
  BY <1>1, <1>2, HeaderInvariance, PTL DEF Spec

(* Two ways to say that a file agrees with a header as far as it goes.     *)
LEMMA PrefixContinues ==
  ASSUME NEW s \in Bytes, NEW t \in Bytes,
         IsPrefix(s, t) \/ IsPrefix(t, s)
  PROVE  Continues(t, 0, s)
<1>1. s \in Seq(Nat) /\ t \in Seq(Nat) /\ Len(s) \in Nat /\ Len(t) \in Nat
  BY LenProperties DEF Bytes
<1> SUFFICES ASSUME NEW i \in 1 .. Len(s), i <= Len(t) PROVE t[i] = s[i]
  BY <1>1 DEF Continues
<1>2. i \in 1 .. Len(s) /\ i \in 1 .. Len(t)
  BY <1>1
<1>3. ASSUME NEW u \in Seq(Nat), NEW n \in 0 .. Len(u), i \in 1 .. n
      PROVE  SubSeq(u, 1, n)[i] = u[i]
  <2>1. /\ 1 \in Int /\ n \in Int /\ i \in 1 .. n - 1 + 1 /\ 1 + i - 1 = i
        /\ \A k \in 1 .. n : u[k] \in Nat
    BY <1>3, LenProperties, ElementOfSeq
  <2> QED
    BY <2>1, SubSeqProperties
<1>4. CASE IsPrefix(s, t)
  <2>1. Len(s) <= Len(t) /\ SubSeq(s, 1, Len(s)) = SubSeq(t, 1, Len(s))
    BY <1>4 DEF IsPrefix
  <2> QED
    BY <1>1, <1>2, <1>3, <2>1
<1>5. CASE IsPrefix(t, s)
  <2>1. Len(t) <= Len(s) /\ SubSeq(t, 1, Len(t)) = SubSeq(s, 1, Len(t))
    BY <1>5 DEF IsPrefix
  <2> QED
    BY <1>1, <1>2, <1>3, <2>1
<1> QED
  BY <1>4, <1>5

(* A header followed by a payload, whatever the payload is, is parsed: the *)
(* fields and the payload come out as the program has written them.        *)
THEOREM FilesAreReadAsWritten == Spec => []RoundTrip
<1>1. IInv /\ FollowsAll => RoundTrip
  <2> SUFFICES ASSUME IInv, FollowsAll, at \in Outcome, NEW h \in Header,
                      IsStrictPrefix(Serialise(h), raw)
               PROVE  at = "parsed" /\ hdr = h /\ Serialise(h) \o blob = raw
    BY DEF RoundTrip
  <2> DEFINE s == Serialise(h)
  <2>1. s = FromMagic(h) /\ s \in Bytes /\ raw \in Bytes
        /\ Len(s) \in Nat /\ Len(raw) \in Nat
    BY SerialisedIsAhead, PartsBytes, HeaderAssumption, InFile, LenProperties DEF IInv, Bytes
  <2> HIDE DEF s
  <2>2. IsPrefix(s, raw) /\ s # raw
    BY DEF IsStrictPrefix, s
  <2>3. Follows(h)
    BY <2>1, <2>2, PrefixContinues DEF FollowsAll
  <2>4. Len(s) <= Len(raw) /\ SubSeq(s, 1, Len(s)) = SubSeq(raw, 1, Len(s))
    BY <2>2 DEF IsPrefix
  <2>5. SubSeq(s, 1, Len(s)) = s /\ SubSeq(raw, 1, Len(raw)) = raw
    BY <2>1, SubSeqFull DEF Bytes
  <2>6. Len(s) < Len(raw) /\ Size(h) = Len(s)
    BY <2>1, <2>2, <2>4, <2>5 DEF Size
  <2>7. at = "parsed"
    BY <2>1, <2>3, <2>6 DEF Follows, Outcome, IInv, OnlyFormatErrors
  <2>8. hdr = h /\ blob = SubSeq(raw, Len(s) + 1, Len(raw))
    BY <2>3, <2>6, <2>7 DEF Follows
  <2>9. s \o SubSeq(raw, Len(s) + 1, Len(raw)) = raw
    <3>1. raw \in Seq(Nat) /\ 1 \in 1 .. Len(raw) + 1
      BY <2>1 DEF Bytes
    <3>2. Len(s) \in 1 - 1 .. Len(raw) /\ Len(raw) \in Len(s) .. Len(raw)
      BY <2>1, <2>6
    <3>3. SubSeq(raw, 1, Len(s)) \o SubSeq(raw, Len(s) + 1, Len(raw))
            = SubSeq(raw, 1, Len(raw))
      BY <3>1, <3>2, ConcatAdjacentSubSeq
    <3> QED
      BY <2>4, <2>5, <3>3
  <2> QED
    BY <2>7, <2>8, <2>9 DEF s
<1> QED
  BY <1>1, FollowsInvariance, PTL

(* A header of the program with nothing behind it, or that was cut off     *)
(* anywhere, is never taken for a vault, and never crashes the parser.     *)
THEOREM CutFilesAreRejected == Spec => []TruncatedIsRejected
<1>1. IInv /\ FollowsAll => TruncatedIsRejected
  <2> SUFFICES ASSUME IInv, FollowsAll, at \in Outcome, NEW h \in Header,
                      IsPrefix(raw, Serialise(h))
               PROVE  at = "rejected"
    BY DEF TruncatedIsRejected
  <2> DEFINE s == Serialise(h)
  <2>1. s = FromMagic(h) /\ s \in Bytes /\ raw \in Bytes
        /\ Len(s) \in Nat /\ Len(raw) \in Nat
    BY SerialisedIsAhead, PartsBytes, HeaderAssumption, InFile, LenProperties DEF IInv, Bytes
  <2>2. IsPrefix(raw, s)
    OBVIOUS
  <2> HIDE DEF s
  <2>3. Follows(h)
    BY <2>1, <2>2, PrefixContinues DEF FollowsAll
  <2>4. Len(raw) <= Size(h)
    BY <2>1, <2>2 DEF IsPrefix, Size
  <2>5. at # "parsed"
    BY <2>1, <2>3, <2>4 DEF Follows, Size
  <2> QED
    BY <2>5 DEF Outcome, IInv, OnlyFormatErrors
<1> QED
  BY <1>1, FollowsInvariance, PTL
=============================================================================
