--------------------------- MODULE MCVaultHeader ---------------------------
(* Instances of VaultHeader for TLC: headers of all three versions with    *)
(* small salts and keys, and the files that come of them by cutting them   *)
(* off and by changing, inserting or removing one or two cells.            *)
EXTENDS VaultHeader, FiniteSets

SomeBytes == {<<1>>, <<0, 2>>}

Plain(version, kdf, params, salt) ==
  [NoHeader EXCEPT !.version = version, !.kdf = kdf, !.params = params, !.salt = salt]

SmallHeaders ==
  {Plain(1, Pbkdf2, <<1>>, <<1>>), Plain(2, Pbkdf2, <<2>>, <<0, 2>>)}

LargeHeaders ==
  LET old == {Plain(2, Argon2id, <<1, 1, 2>>, salt) : salt \in SomeBytes}
      strict == {[Plain(3, Argon2id, <<2, 1, 1>>, salt) EXCEPT !.key = key] :
                   salt \in SomeBytes, key \in SomeBytes}
                \union {[Plain(3, Pbkdf2, <<1>>, <<1>>) EXCEPT !.key = <<2>>]}
  IN old \union strict
     \union {[h EXCEPT !.recovery = TRUE, !.saltRec = salt, !.keyRec = key] :
               h \in strict, salt \in SomeBytes, key \in SomeBytes}

SomeHeaders == SmallHeaders \union LargeHeaders

Written(headers, payloads) == {Serialise(h) \o p : h \in headers, p \in payloads}

Cells == 0 .. 3
Edits(file) ==
  {SubSeq(file, 1, n) : n \in 0 .. Len(file)}
  \union {[file EXCEPT ![i] = c] : i \in DOMAIN file, c \in Cells}
  \union {InsertAt(file, i, c) : i \in DOMAIN file, c \in Cells}
  \union {RemoveAt(file, i) : i \in DOMAIN file}

Edited(files) == UNION {Edits(file) : file \in files}

SomeFiles ==
  Edited(Written(LargeHeaders, SomeBytes))
  \union Edited(Edited(Written(SmallHeaders, {<<1>>})))

SomeArgon2 == {1, 2} \X {1} \X {1, 2}
=============================================================================
