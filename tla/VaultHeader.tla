----------------------------- MODULE VaultHeader ----------------------------
(***************************************************************************)
(* The parser and the builder of vault headers, src/vault_app/header.py:   *)
(* parse_header walks through a file with a cursor, piece by piece, and    *)
(* either raises VaultFormatError or returns a header and the encrypted    *)
(* payload.  The header is serialised again as the additional data (AAD)   *)
(* the payload is authenticated with, so it has to come out as it went in. *)
(*                                                                         *)
(* A file is a sequence of cells: one for the magic, one for every number  *)
(* whatever its width, one for every byte of a salt, of a wrapped key and  *)
(* of the payload.                                                         *)
(***************************************************************************)
EXTENDS Integers, Sequences, SequencesExt

CONSTANTS
  File,         \* what load_vault may find on the disk
  Header,       \* headers the program has written
  Magic,
  Iterations,   \* PBKDF2_ITER_MIN .. PBKDF2_ITER_MAX
  Argon2,       \* memory, time and parallelism within their bounds
  SaltLength,   \* SALT_LEN_MIN .. SALT_LEN_MAX
  KeyLength     \* WRAPPED_KEY_LEN_MIN .. WRAPPED_KEY_LEN_MAX

ASSUME FileAssumption   == File \subseteq Seq(Nat)
ASSUME LengthAssumption == SaltLength \subseteq Nat /\ KeyLength \subseteq Nat
ASSUME KdfAssumption    ==
  Iterations \subseteq Nat /\ Argon2 \subseteq Nat \X Nat \X Nat

Version == {1, 2, 3}
Pbkdf2 == 1
Argon2id == 2
Bytes == Seq(Nat)

(* What _pack_kdf_params writes and _unpack_kdf_params reads.              *)
ParamsLength(kdf) == IF kdf = Pbkdf2 THEN 1 ELSE 3
ValidParams(kdf, params) ==
  IF kdf = Pbkdf2 THEN params[1] \in Iterations ELSE params \in Argon2

(* A header the program writes: its fields keep to the bounds, and those   *)
(* its version does not have are empty.                                    *)
WellFormed(h) ==
  /\ h \in [version : Version, kdf : {Pbkdf2, Argon2id}, params : Bytes, salt : Bytes,
            key : Bytes, recovery : BOOLEAN, saltRec : Bytes, keyRec : Bytes]
  /\ IF h.version = 1 THEN Len(h.params) = 1 /\ h.params[1] \in Iterations
     ELSE Len(h.params) = ParamsLength(h.kdf) /\ ValidParams(h.kdf, h.params)
  /\ Len(h.salt) \in SaltLength
  /\ IF h.version = 3 THEN Len(h.key) \in KeyLength ELSE h.key = <<>> /\ ~h.recovery
  /\ IF h.recovery THEN Len(h.saltRec) \in SaltLength /\ Len(h.keyRec) \in KeyLength
     ELSE h.saltRec = <<>> /\ h.keyRec = <<>>

ASSUME HeaderAssumption == Magic \in Nat /\ \A h \in Header : WellFormed(h)

VARIABLES
  raw,      \* the file
  off,      \* how many cells have been read
  at,       \* the piece that comes next
  need,     \* the length that has just been read
  hdr,      \* the fields read so far
  blob      \* the payload

vars == <<raw, off, at, need, hdr, blob>>

NoHeader == [version |-> 0, kdf |-> 0, params |-> <<>>, salt |-> <<>>, key |-> <<>>,
             recovery |-> FALSE, saltRec |-> <<>>, keyRec |-> <<>>]

Piece == {"magic", "fixed", "params", "saltLength", "salt", "keyLength", "key",
          "flag", "saltRecLength", "saltRec", "keyRecLength", "keyRec", "blob"}
Outcome == {"parsed", "rejected", "crashed"}

TypeOK ==
  /\ raw \in Bytes
  /\ off \in 0 .. Len(raw)
  /\ at \in Piece \union Outcome
  /\ need \in Nat
  /\ hdr \in [version : Version \union {0}, kdf : {0, Pbkdf2, Argon2id}, params : Bytes,
              salt : Bytes, key : Bytes, recovery : BOOLEAN, saltRec : Bytes, keyRec : Bytes]
  /\ blob \in Bytes

Init ==
  /\ raw \in File
  /\ off = 0 /\ at = "magic" /\ need = 0
  /\ hdr = NoHeader /\ blob = <<>>

(***************************************************************************)
(* The builders.                                                           *)
(***************************************************************************)

Sized(bytes) == <<Len(bytes)>> \o bytes

Serialise(h) ==
  <<Magic, h.version, h.kdf>>
  \o (IF h.version = 1 THEN h.params ELSE Sized(h.params))
  \o Sized(h.salt)
  \o (IF h.version < 3 THEN <<>>
      ELSE Sized(h.key)
           \o (IF h.recovery THEN <<1>> \o Sized(h.saltRec) \o Sized(h.keyRec)
               ELSE <<0>>))

(***************************************************************************)
(* The parser.                                                             *)
(***************************************************************************)

Short(k) == Len(raw) < off + k
Cell == raw[off + 1]
Slice(k) == SubSeq(raw, off + 1, off + k)

Advance(k, to) == off' = off + k /\ at' = to

(* VaultFormatError.                                                       *)
Reject == at' = "rejected" /\ UNCHANGED <<off, need, hdr, blob>>

(* A number is read beyond the end: struct.error, which no caller expects. *)
Crash == at' = "crashed" /\ UNCHANGED <<off, need, hdr, blob>>

ReadMagic ==
  /\ at = "magic"
  /\ LET valid == ~Short(2) /\ raw[1] = Magic /\ raw[2] \in Version
     IN \/ ~valid /\ Reject
        \/ /\ valid
           /\ hdr' = [hdr EXCEPT !.version = raw[2]]
           /\ Advance(2, "fixed")
           /\ UNCHANGED <<need, blob>>
  /\ UNCHANGED raw

(* v1: the KDF, the iterations and the length of the salt.                 *)
FixedV1 ==
  /\ at = "fixed" /\ hdr.version = 1
  /\ LET valid == /\ ~Short(4)
                  /\ raw[3] \in {Pbkdf2, Argon2id}
                  /\ raw[4] \in Iterations /\ raw[5] \in SaltLength
     IN \/ ~valid /\ Reject
        \/ /\ valid
           /\ hdr' = [hdr EXCEPT !.kdf = raw[3], !.params = <<raw[4]>>]
           /\ need' = raw[5]
           /\ Advance(3, "salt")
           /\ UNCHANGED blob
  /\ UNCHANGED raw

(* v2, v3: the KDF and the length of its parameters.                       *)
FixedV2 ==
  /\ at = "fixed" /\ hdr.version > 1
  /\ LET valid == ~Short(3) /\ raw[3] \in {Pbkdf2, Argon2id}
     IN \/ ~valid /\ Reject
        \/ /\ valid
           /\ hdr' = [hdr EXCEPT !.kdf = raw[3]]
           /\ need' = raw[4]
           /\ Advance(2, "params")
           /\ UNCHANGED blob
  /\ UNCHANGED raw

(* Mutant: nothing is left for the length of the salt in v2.               *)
ReadParamsToTheEnd ==
  /\ at = "params"
  /\ LET n == ParamsLength(hdr.kdf)
         valid == /\ ~Short(need) /\ need >= n
                  /\ ValidParams(hdr.kdf, Slice(n))
     IN \/ ~valid /\ Reject
        \/ /\ valid
           /\ hdr' = [hdr EXCEPT !.params = Slice(n)]
           /\ Advance(need, "saltLength")
           /\ UNCHANGED <<need, blob>>
  /\ UNCHANGED raw

(* Parameters may be longer than what is read of them; v2 also makes sure  *)
(* that the length of the salt is there.                                   *)
ReadParams ==
  /\ at = "params"
  /\ LET n == ParamsLength(hdr.kdf)
         rest == IF hdr.version = 2 THEN 1 ELSE 0
         valid == /\ ~Short(need + rest) /\ need >= n
                  /\ ValidParams(hdr.kdf, Slice(n))
     IN \/ ~valid /\ Reject
        \/ /\ valid
           /\ hdr' = [hdr EXCEPT !.params = Slice(n)]
           /\ Advance(need, "saltLength")
           /\ UNCHANGED <<need, blob>>
  /\ UNCHANGED raw

(* Mutant: the upper bound is excluded.                                    *)
ReadLengthBelow(here, lengths, to) ==
  /\ at = here
  /\ \/ ~Short(1) /\ Cell \in lengths /\ Cell + 1 \notin lengths /\ Reject
     \/ /\ ~Short(1) /\ Cell \in lengths /\ Cell + 1 \in lengths
        /\ need' = Cell
        /\ Advance(1, to)
        /\ UNCHANGED <<hdr, blob>>
  /\ UNCHANGED raw

(* A length, which must be in range.                                       *)
ReadLength(here, lengths, to) ==
  /\ at = here
  /\ \/ Short(1) /\ hdr.version = 2 /\ Crash
     \/ Short(1) /\ hdr.version = 3 /\ Reject
     \/ ~Short(1) /\ Cell \notin lengths /\ Reject
     \/ /\ ~Short(1) /\ Cell \in lengths
        /\ need' = Cell
        /\ Advance(1, to)
        /\ UNCHANGED <<hdr, blob>>
  /\ UNCHANGED raw

(* Mutant: a slice of a file that is too short is taken as it is.          *)
ReadBytesUnchecked(here, field, to) ==
  /\ at = here
  /\ hdr' = [hdr EXCEPT ![field] =
               SubSeq(raw, off + 1, IF Short(need) THEN Len(raw) ELSE off + need)]
  /\ Advance(need, to)
  /\ UNCHANGED <<raw, need, blob>>

(* ... and so many bytes.                                                  *)
ReadBytes(here, field, to) ==
  /\ at = here
  /\ \/ Short(need) /\ Reject
     \/ /\ ~Short(need)
        /\ hdr' = [hdr EXCEPT ![field] = Slice(need)]
        /\ Advance(need, to)
        /\ UNCHANGED <<need, blob>>
  /\ UNCHANGED raw

(* Mutant: every flag but 0 says that there is recovery.                   *)
ReadFlagAsBoolean ==
  /\ at = "flag"
  /\ \/ Short(1) /\ Reject
     \/ /\ ~Short(1)
        /\ hdr' = [hdr EXCEPT !.recovery = (Cell # 0)]
        /\ Advance(1, IF Cell # 0 THEN "saltRecLength" ELSE "blob")
        /\ UNCHANGED <<need, blob>>
  /\ UNCHANGED raw

(* has_recovery.                                                           *)
ReadFlag ==
  /\ at = "flag"
  /\ \/ Short(1) /\ Reject
     \/ ~Short(1) /\ Cell \notin {0, 1} /\ Reject
     \/ /\ ~Short(1) /\ Cell \in {0, 1}
        /\ hdr' = [hdr EXCEPT !.recovery = (Cell = 1)]
        /\ Advance(1, IF Cell = 1 THEN "saltRecLength" ELSE "blob")
        /\ UNCHANGED <<need, blob>>
  /\ UNCHANGED raw

(* Mutant: a file may end with its header.                                 *)
ReadBlobOrNothing ==
  /\ at = "blob"
  /\ blob' = SubSeq(raw, off + 1, Len(raw))
  /\ at' = "parsed"
  /\ UNCHANGED <<raw, off, need, hdr>>

(* The rest is the payload, and there must be one.                         *)
ReadBlob ==
  /\ at = "blob"
  /\ \/ Short(1) /\ Reject
     \/ /\ ~Short(1)
        /\ blob' = SubSeq(raw, off + 1, Len(raw))
        /\ at' = "parsed"
        /\ UNCHANGED <<off, need, hdr>>
  /\ UNCHANGED raw

Next ==
  \/ ReadMagic \/ FixedV1 \/ FixedV2 \/ ReadParams
  \/ ReadLength("saltLength", SaltLength, "salt")
  \/ ReadBytes("salt", "salt", IF hdr.version = 3 THEN "keyLength" ELSE "blob")
  \/ ReadLength("keyLength", KeyLength, "key")
  \/ ReadBytes("key", "key", "flag")
  \/ ReadFlag
  \/ ReadLength("saltRecLength", SaltLength, "saltRec")
  \/ ReadBytes("saltRec", "saltRec", "keyRecLength")
  \/ ReadLength("keyRecLength", KeyLength, "keyRec")
  \/ ReadBytes("keyRec", "keyRec", "blob")
  \/ ReadBlob

Spec == Init /\ [][Next]_vars
-----------------------------------------------------------------------------
(***************************************************************************)
(* Properties.                                                             *)
(***************************************************************************)

(* Whatever is in the file, the parser reads nothing that is not there: it *)
(* returns, or it raises VaultFormatError (test_header_hardening.py).      *)
OnlyFormatErrors == at # "crashed"

(* The file without the bytes by which the parameters of its KDF are       *)
(* longer than what is read of them (v2 and v3).                           *)
WithoutSurplus ==
  LET n == Len(hdr.params)
  IN IF hdr.version = 1 THEN raw
     ELSE SubSeq(raw, 1, 3) \o <<n>> \o SubSeq(raw, 5, 4 + n)
          \o SubSeq(raw, 5 + raw[4], Len(raw))

(* The header that is serialised as AAD is, with the payload, the file     *)
(* that was read, surplus parameters excepted (decrypt_with_password,      *)
(* storage.py:661-665): nothing that was read is dropped or written back   *)
(* as something else.                                                      *)
SerialisesAsRead == at = "parsed" => Serialise(hdr) \o blob = WithoutSurplus

(* A file of the program is read as it was written.                        *)
RoundTrip ==
  at \in Outcome =>
    \A h \in Header :
      IsStrictPrefix(Serialise(h), raw)
        => /\ at = "parsed" /\ hdr = h
           /\ Serialise(h) \o blob = raw

(* A file of the program that was cut off in its header, or right after    *)
(* it, is rejected.                                                        *)
TruncatedIsRejected ==
  at \in Outcome =>
    \A h \in Header : IsPrefix(raw, Serialise(h)) => at = "rejected"
=============================================================================
