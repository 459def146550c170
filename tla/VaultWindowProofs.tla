------------------------- MODULE VaultWindowProofs --------------------------
(***************************************************************************)
(* What VaultWindow promises for any number of windows, entries, versions  *)
(* and saves that fail: memory is the version it came from, unless a save  *)
(* has failed in one of the two ways that leave something behind, a write  *)
(* carries what its user has asked for, and codes come from a regeneration.*)
(***************************************************************************)
EXTENDS VaultWindow, SequenceTheorems, TLAPS

(***************************************************************************)
(* The handlers' undo takes back their change of the list.                 *)
(***************************************************************************)

LEMMA FrontAppend ==
  ASSUME NEW S, NEW s \in Seq(S), NEW e \in S
  PROVE  /\ Append(s, e) \in Seq(S) /\ Append(s, e) # <<>>
         /\ Front(Append(s, e)) = s
<1>1. /\ Append(s, e) \in Seq(S) /\ Append(s, e) # <<>>
      /\ Len(Append(s, e)) = Len(s) + 1
      /\ \A i \in 1 .. Len(s) : Append(s, e)[i] = s[i]
  BY AppendProperties
<1>2. Len(s) \in Nat /\ \A i \in 1 .. Len(s) : s[i] \in S
  BY LenProperties, ElementOfSeq
<1> DEFINE f == SubSeq(Append(s, e), 1, Len(s))
<1>3. \A i \in 1 .. Len(s) : Append(s, e)[i] \in S
  BY <1>1, <1>2
<1>4. /\ f \in Seq(S) /\ Len(f) = Len(s)
      /\ \A i \in 1 .. Len(s) : f[i] = s[i]
  <2>1. /\ f \in Seq(S)
        /\ Len(f) = IF 1 <= Len(s) THEN Len(s) - 1 + 1 ELSE 0
        /\ \A i \in 1 .. Len(s) - 1 + 1 : f[i] = Append(s, e)[1 + i - 1]
    BY <1>2, <1>3, SubSeqProperties
  <2> QED
    BY <1>1, <1>2, <2>1
<1>5. f = s
  <2> HIDE DEF f
  <2> QED
    BY <1>4, SeqEqual
<1>6. Front(Append(s, e)) = SubSeq(Append(s, e), 1, Len(Append(s, e)) - 1)
  BY DEF Front
<1> QED
  BY <1>1, <1>2, <1>5, <1>6

LEMMA ReplaceBack ==
  ASSUME NEW S, NEW s \in Seq(S), NEW e \in S, NEW i \in 1 .. Len(s)
  PROVE  /\ ReplaceAt(s, i, e) \in Seq(S) /\ Len(ReplaceAt(s, i, e)) = Len(s)
         /\ ReplaceAt(ReplaceAt(s, i, e), i, s[i]) = s
<1> DEFINE r == [s EXCEPT ![i] = e]
           b == [r EXCEPT ![i] = s[i]]
<1>1. /\ r \in Seq(S) /\ Len(r) = Len(s)
      /\ \A j \in 1 .. Len(s) : r[j] = IF j = i THEN e ELSE s[j]
  BY ExceptSeq
<1>2. s[i] \in S
  BY ElementOfSeq
<1>3. /\ b \in Seq(S) /\ Len(b) = Len(s)
      /\ \A j \in 1 .. Len(s) : b[j] = IF j = i THEN s[i] ELSE r[j]
  <2> HIDE DEF r
  <2> QED
    BY <1>1, <1>2, ExceptSeq
<1>4. b = s
  <2>1. \A j \in 1 .. Len(b) : b[j] = s[j]
    BY <1>1, <1>3
  <2> HIDE DEF b
  <2> QED
    BY <1>3, <2>1, SeqEqual
<1> QED
  BY <1>1, <1>4 DEF ReplaceAt

LEMMA RemoveBack ==
  ASSUME NEW S, NEW s \in Seq(S), NEW i \in 1 .. Len(s)
  PROVE  /\ RemoveAt(s, i) \in Seq(S) /\ Len(RemoveAt(s, i)) = Len(s) - 1
         /\ InsertAt(RemoveAt(s, i), i, s[i]) = s
<1> DEFINE front == SubSeq(s, 1, i - 1)
           back == SubSeq(s, i + 1, Len(s))
           r == front \o back
<1>1. Len(s) \in Nat /\ \A j \in 1 .. Len(s) : s[j] \in S
  BY LenProperties, ElementOfSeq
<1>2. /\ front \in Seq(S) /\ Len(front) = i - 1
      /\ \A j \in 1 .. i - 1 : front[j] = s[j]
  <2>1. \A j \in 1 .. i - 1 : s[j] \in S
    BY <1>1
  <2>2. /\ front \in Seq(S) /\ Len(front) = IF 1 <= i - 1 THEN i - 1 - 1 + 1 ELSE 0
        /\ \A j \in 1 .. i - 1 - 1 + 1 : front[j] = s[1 + j - 1]
    BY <1>1, <2>1, SubSeqProperties
  <2> QED
    BY <1>1, <2>2
<1>3. /\ back \in Seq(S) /\ Len(back) = Len(s) - i
      /\ \A j \in 1 .. Len(s) - i : back[j] = s[i + j]
  <2>1. \A j \in i + 1 .. Len(s) : s[j] \in S
    BY <1>1
  <2>2. /\ back \in Seq(S)
        /\ Len(back) = IF i + 1 <= Len(s) THEN Len(s) - (i + 1) + 1 ELSE 0
        /\ \A j \in 1 .. Len(s) - (i + 1) + 1 : back[j] = s[i + 1 + j - 1]
    BY <1>1, <2>1, SubSeqProperties
  <2> QED
    BY <1>1, <2>2
<1>4. /\ r \in Seq(S) /\ Len(r) = Len(s) - 1
      /\ \A j \in 1 .. Len(s) - 1 : r[j] = IF j <= i - 1 THEN s[j] ELSE s[j + 1]
  <2> HIDE DEF front, back
  <2>1. /\ r \in Seq(S) /\ Len(r) = Len(front) + Len(back)
        /\ \A j \in 1 .. Len(front) + Len(back) :
             r[j] = IF j <= Len(front) THEN front[j] ELSE back[j - Len(front)]
    BY <1>2, <1>3, ConcatProperties
  <2> QED
    BY <1>1, <1>2, <1>3, <2>1
<1> DEFINE head == SubSeq(r, 1, i - 1)
           tail == SubSeq(r, i, Len(r))
           one == <<s[i]>>
           b == head \o one \o tail
<1> HIDE DEF r
<1>5. /\ head \in Seq(S) /\ Len(head) = i - 1
      /\ \A j \in 1 .. i - 1 : head[j] = s[j]
  <2>1. \A j \in 1 .. i - 1 : r[j] \in S /\ r[j] = s[j]
    BY <1>1, <1>4
  <2>2. /\ head \in Seq(S) /\ Len(head) = IF 1 <= i - 1 THEN i - 1 - 1 + 1 ELSE 0
        /\ \A j \in 1 .. i - 1 - 1 + 1 : head[j] = r[1 + j - 1]
    BY <1>1, <2>1, SubSeqProperties
  <2> QED
    BY <1>1, <2>1, <2>2
<1>6. /\ tail \in Seq(S) /\ Len(tail) = Len(s) - i
      /\ \A j \in 1 .. Len(s) - i : tail[j] = s[i + j]
  <2>1. \A j \in i .. Len(r) : r[j] \in S /\ r[j] = s[j + 1]
    BY <1>1, <1>4
  <2>2. /\ tail \in Seq(S)
        /\ Len(tail) = IF i <= Len(r) THEN Len(r) - i + 1 ELSE 0
        /\ \A j \in 1 .. Len(r) - i + 1 : tail[j] = r[i + j - 1]
    BY <1>1, <1>4, <2>1, SubSeqProperties
  <2> QED
    BY <1>1, <1>4, <2>1, <2>2
<1>7. one \in Seq(S) /\ Len(one) = 1 /\ one[1] = s[i]
  BY <1>1
<1> HIDE DEF head, tail, one
<1>8. /\ head \o one \in Seq(S) /\ Len(head \o one) = i
      /\ \A j \in 1 .. i : (head \o one)[j] = s[j]
  <2>1. /\ head \o one \in Seq(S) /\ Len(head \o one) = Len(head) + Len(one)
        /\ \A j \in 1 .. Len(head) + Len(one) :
             (head \o one)[j] = IF j <= Len(head) THEN head[j] ELSE one[j - Len(head)]
    BY <1>5, <1>7, ConcatProperties
  <2> QED
    BY <1>1, <1>5, <1>7, <2>1
<1>9. /\ b \in Seq(S) /\ Len(b) = Len(s)
      /\ \A j \in 1 .. Len(s) : b[j] = s[j]
  <2> DEFINE h == head \o one
  <2> HIDE DEF h
  <2>1. /\ h \in Seq(S) /\ Len(h) = i /\ \A j \in 1 .. i : h[j] = s[j]
    BY <1>8 DEF h
  <2>2. /\ h \o tail \in Seq(S) /\ Len(h \o tail) = Len(h) + Len(tail)
        /\ \A j \in 1 .. Len(h) + Len(tail) :
             (h \o tail)[j] = IF j <= Len(h) THEN h[j] ELSE tail[j - Len(h)]
    BY <1>6, <2>1, ConcatProperties
  <2>3. /\ h \o tail \in Seq(S) /\ Len(h \o tail) = Len(s)
        /\ \A j \in 1 .. Len(s) : (h \o tail)[j] = s[j]
    BY <1>1, <1>6, <2>1, <2>2
  <2> QED
    BY <2>3 DEF h
<1>10. b = s
  <2> HIDE DEF b
  <2> QED
    BY <1>9, SeqEqual
<1> QED
  BY <1>4, <1>10 DEF RemoveAt, InsertAt, r, head, one, tail
-----------------------------------------------------------------------------
(***************************************************************************)
(* The invariant.                                                          *)
(***************************************************************************)

Job == [kind : Kind, idx : Nat, entry : Entry \union {<<>>}, left : BOOLEAN]
Cards == UNION {[shownAt -> Entry] : shownAt \in SUBSET (Nat \ {0})}

Typed ==
  /\ log \in Seq(Content) /\ Len(log) <= MaxVersion
  /\ disk \in 0 .. Len(log)
  /\ shown \subseteq Version /\ orphaned \subseteq Version
  /\ pc \in [Window -> Place]
  /\ data \in [Window -> Entries]
  /\ codes \in [Window -> Fingerprint]
  /\ key \in [Window -> Fingerprint]
  /\ fp \in [Window -> Fingerprint]
  /\ astray \in [Window -> SUBSET {"unsaved", "undrawn"}]
  /\ stale \in [Window -> BOOLEAN]
  /\ cards \in [Window -> Cards]
  /\ query \in [Window -> Words \union {NoWord}]
  /\ job \in [Window -> Job]
  /\ loose \in [Window -> Job]

Shows(w) == pc[w] \in {"list", "conflict", "showing"} \union Asking

(* The list as it is, or as the undo of the conflict will leave it.        *)
List(w) == IF pc[w] = "conflict" THEN Undo(job[w], data[w]) ELSE data[w]

(* The list is of the version the fingerprint names, and the cards are of  *)
(* the list, but for what a failed save has left behind.                   *)
ListOfItsVersion(w) ==
  /\ "unsaved" \notin astray[w] => List(w) = log[fp[w]].entries
  /\ "undrawn" \notin astray[w] => cards[w] = Drawn(List(w), query[w])

(* The recovery codes are of that version whatever has failed.             *)
OfItsVersion(w) ==
  /\ fp[w] \in 0 .. Len(log)
  /\ pc[w] # "closed" => fp[w] # NoFile
  /\ Shows(w) => codes[w] = log[fp[w]].codes /\ key[w] # 0 /\ ListOfItsVersion(w)

(* The open dialog is about a change of its kind, a deletion that is being *)
(* confirmed about an entry of the list, and what is to be put back an     *)
(* entry.                                                                  *)
JobFits(w) ==
  /\ pc[w] = "adding" => job[w].kind = "add"
  /\ pc[w] = "editing" => job[w].kind = "edit"
  /\ pc[w] = "regenerating" => job[w].kind = "regenerate"
  /\ pc[w] = "deleting" =>
       /\ job[w].kind = "delete"
       /\ job[w].idx \in 1 .. Len(data[w]) /\ job[w].entry = data[w][job[w].idx]
  /\ pc[w] = "conflict" /\ job[w].kind \in {"edit", "delete"} =>
       job[w].idx # 0 /\ job[w].entry \in Entry
  /\ loose[w] = NoJob \/ loose[w].kind \in {"add", "edit"}
  /\ pc[w] = "showing" => codes[w] \in Version

Local(w) == OfItsVersion(w) /\ JobFits(w)

OldHasNoCodes ==
  \A version \in 1 .. Len(log) : log[version].old => log[version].codes = NoCodes

Inv == Typed /\ OldHasNoCodes /\ \A w \in Window : Local(w)

(***************************************************************************)
(* A step of window w changes nothing of the others but what is on disk.   *)
(***************************************************************************)

Same(v) ==
  /\ pc'[v] = pc[v] /\ data'[v] = data[v] /\ codes'[v] = codes[v]
  /\ key'[v] = key[v] /\ fp'[v] = fp[v] /\ cards'[v] = cards[v]
  /\ query'[v] = query[v] /\ job'[v] = job[v] /\ loose'[v] = loose[v]
  /\ astray'[v] = astray[v]

Moves(w) == Typed' /\ \A v \in Window \ {w} : Same(v)

Grows ==
  /\ Len(log) <= Len(log')
  /\ \A version \in 1 .. Len(log) : log'[version] = log[version]
  /\ OldHasNoCodes'

LEMMA Length == Typed => Len(log) \in Nat
  BY DEF Typed

LEMMA StepOf ==
  ASSUME Inv, Grows, NEW w \in Window, Moves(w), Local(w)'
  PROVE  Inv'
<1>1. ASSUME NEW v \in Window, v # w PROVE Local(v)'
  <2>1. Local(v) /\ Same(v)
    BY <1>1 DEF Inv, Moves
  <2>2. Len(log) \in Nat /\ Len(log') \in Nat /\ Len(log) <= Len(log')
    BY DEF Inv, Typed, Moves, Grows
  <2>3. fp[v] \in 1 .. Len(log) => log'[fp[v]] = log[fp[v]]
    BY DEF Grows
  <2>4. OfItsVersion(v)'
    BY <2>1, <2>2, <2>3
    DEF Local, OfItsVersion, ListOfItsVersion, List, Undo, Least, Shows, Same, NoFile, Asking
  <2>5. JobFits(v)'
    BY <2>1 DEF Local, JobFits, Same
  <2> QED
    BY <2>4, <2>5 DEF Local
<1> QED
  BY <1>1 DEF Inv, Moves, Grows

LEMMA DrawnIsCards ==
  ASSUME NEW entries \in Entries, NEW word
  PROVE  Drawn(entries, word) \in Cards
<1> DEFINE shownAt == {i \in DOMAIN entries : Finds(word, entries[i])}
<1>1. shownAt \in SUBSET (Nat \ {0}) /\ \A i \in shownAt : entries[i] \in Entry
  BY DEF Entries
<1>2. [i \in shownAt |-> entries[i]] \in [shownAt -> Entry]
  BY <1>1
<1> QED
  BY <1>1, <1>2 DEF Drawn, Cards

LEMMA FillsFrom ==
  ASSUME Typed, NEW w \in Window, NEW content \in Content, NEW f \in Fingerprint,
         Fill(w, content, f)
  PROVE  /\ data' \in [Window -> Entries] /\ codes' \in [Window -> Fingerprint]
         /\ key' \in [Window -> Fingerprint] /\ fp' \in [Window -> Fingerprint]
         /\ cards' \in [Window -> Cards]
         /\ astray' \in [Window -> SUBSET {"unsaved", "undrawn"}]
         /\ data'[w] = content.entries /\ codes'[w] = content.codes
         /\ key'[w] = content.key /\ key'[w] # 0 /\ fp'[w] = f
         /\ cards'[w] = Drawn(content.entries, query[w])
         /\ \A v \in Window \ {w} :
              /\ data'[v] = data[v] /\ codes'[v] = codes[v] /\ key'[v] = key[v]
              /\ fp'[v] = fp[v] /\ cards'[v] = cards[v] /\ astray'[v] = astray[v]
<1>1. /\ content.entries \in Entries /\ content.codes \in Fingerprint
      /\ content.key \in Fingerprint /\ content.key # 0
  BY VersionAssumption DEF Content, Version, Fingerprint
<1>2. Drawn(content.entries, query[w]) \in Cards
  BY <1>1, DrawnIsCards
<1> QED
  BY <1>1, <1>2 DEF Fill, Typed

LEMMA SameLogGrows == Inv /\ UNCHANGED log => Grows
  BY DEF Inv, Typed, Grows, OldHasNoCodes

LEMMA WriteGrows ==
  ASSUME Inv, NEW new \in Content, new.old => new.codes = NoCodes,
         Len(log) < MaxVersion, log' = Append(log, new)
  PROVE  /\ Grows /\ log' \in Seq(Content)
         /\ Len(log') = NextVersion /\ Len(log') <= MaxVersion
         /\ NextVersion \in Version /\ log'[NextVersion] = new
<1>1. /\ log \in Seq(Content) /\ Len(log) \in Nat
      /\ \A version \in 1 .. Len(log) : log[version].old => log[version].codes = NoCodes
  BY DEF Inv, Typed, OldHasNoCodes
<1>2. /\ log' \in Seq(Content) /\ Len(log') = Len(log) + 1
      /\ \A version \in 1 .. Len(log) : log'[version] = log[version]
      /\ log'[Len(log) + 1] = new
  BY <1>1, AppendProperties
<1>3. OldHasNoCodes'
  <2> SUFFICES ASSUME NEW version \in 1 .. Len(log'), log'[version].old
               PROVE  log'[version].codes = NoCodes
    BY DEF OldHasNoCodes
  <2>1. CASE version \in 1 .. Len(log)
    BY <1>1, <1>2, <2>1
  <2>2. CASE version = Len(log) + 1
    BY <1>2, <2>2
  <2> QED
    BY <1>1, <1>2, <2>1, <2>2
<1> QED
  BY <1>1, <1>2, <1>3, VersionAssumption DEF Grows, NextVersion, Version

(* The undo takes back the change, whichever it is.                        *)
LEMMA UndoGivesBack ==
  ASSUME Inv, NEW w \in Window, Answered(w)
  PROVE  /\ Changed(w) \in Entries
         /\ Previous(w) \in Entry \union {<<>>}
         /\ job[w].kind \in {"edit", "delete"} =>
              job[w].idx # 0 /\ Previous(w) \in Entry
         /\ Undo([job[w] EXCEPT !.entry = Previous(w)], Changed(w)) = data[w]
<1> DEFINE s == data[w]
           new == NewEntry(w)
           i == job[w].idx
           j == [job[w] EXCEPT !.entry = Previous(w)]
<1>1. /\ s \in Seq(Entry) /\ Len(s) \in Nat
      /\ job[w] \in Job /\ j.kind = job[w].kind /\ j.idx = i /\ j.entry = Previous(w)
  BY DEF Inv, Typed, Entries, Job
<1>2. new \in Entry
  BY VersionAssumption DEF Inv, Typed, NewEntry, NextVersion, Entry
<1>3. pc[w] \in Asking /\ (job[w].kind = "edit" => i \in 1 .. Len(s))
  BY <1>1 DEF Answered
<1>4. job[w].kind = "delete" => i \in 1 .. Len(s)
  BY <1>3 DEF Asking, Inv, Local, JobFits
<1> HIDE DEF s, new, i
<1>5. CASE job[w].kind = "add"
  <2>1. Changed(w) = Append(s, new) /\ Previous(w) = job[w].entry
    BY <1>5 DEF Changed, Previous, s, new
  <2>2. Changed(w) \in Seq(Entry) /\ Changed(w) # <<>> /\ Front(Changed(w)) = s
    BY <1>1, <1>2, <2>1, FrontAppend
  <2>3. Undo(j, Changed(w)) = Front(Changed(w))
    BY <1>1, <1>5, <2>2 DEF Undo
  <2> QED
    BY <1>1, <1>5, <2>1, <2>2, <2>3 DEF Entries, Job, s
<1>6. CASE job[w].kind = "edit"
  <2>1. Changed(w) = ReplaceAt(s, i, new) /\ Previous(w) = s[i]
    BY <1>6 DEF Changed, Previous, s, new, i
  <2>2. /\ Changed(w) \in Seq(Entry) /\ Len(Changed(w)) = Len(s)
        /\ ReplaceAt(Changed(w), i, s[i]) = s
    <3>1. i \in 1 .. Len(s)
      BY <1>3, <1>6
    <3>2. s \in Seq(Entry)
      BY <1>1
    <3>3. /\ ReplaceAt(s, i, new) \in Seq(Entry)
          /\ Len(ReplaceAt(s, i, new)) = Len(s)
          /\ ReplaceAt(ReplaceAt(s, i, new), i, s[i]) = s
      BY <1>2, <3>1, <3>2, ReplaceBack, Zenon
    <3> QED
      BY <2>1, <3>3
  <2>3. i \in DOMAIN Changed(w)
    BY <1>3, <1>6, <2>2
  <2>4. Undo(j, Changed(w)) = ReplaceAt(Changed(w), i, s[i])
    BY <1>1, <1>6, <2>1, <2>3 DEF Undo
  <2>5. s[i] \in Entry
    BY <1>1, <1>3, <1>6
  <2> QED
    BY <1>3, <1>6, <2>1, <2>2, <2>4, <2>5 DEF Entries, s, i
<1>7. CASE job[w].kind = "delete"
  <2>1. Changed(w) = RemoveAt(s, i) /\ Previous(w) = s[i]
    BY <1>7 DEF Changed, Previous, s, i
  <2>2. /\ Changed(w) \in Seq(Entry) /\ Len(Changed(w)) = Len(s) - 1
        /\ InsertAt(Changed(w), i, s[i]) = s
    BY <1>1, <1>4, <1>7, <2>1, RemoveBack
  <2>3. Least(i, Len(Changed(w)) + 1) = i
    BY <1>1, <1>4, <1>7, <2>2 DEF Least
  <2>4. Undo(j, Changed(w)) = InsertAt(Changed(w), i, s[i])
    BY <1>1, <1>7, <2>1, <2>3 DEF Undo
  <2>5. s[i] \in Entry
    BY <1>1, <1>4, <1>7
  <2> QED
    BY <1>4, <1>7, <2>1, <2>2, <2>4, <2>5 DEF Entries, s, i
<1>8. CASE job[w].kind \notin {"add", "edit", "delete"}
  <2>1. Changed(w) = s /\ Previous(w) = job[w].entry
    BY <1>8 DEF Changed, Previous, s
  <2>2. Undo(j, s) = s
    BY <1>1, <1>8 DEF Undo
  <2> QED
    BY <1>1, <1>8, <2>1, <2>2 DEF Entries, Job, s
<1> QED
  BY <1>5, <1>6, <1>7, <1>8
-----------------------------------------------------------------------------
(***************************************************************************)
(* The steps.  First those that leave the log alone.                       *)
(***************************************************************************)

LEMMA LoadStep == ASSUME Inv, NEW w \in Window, Load(w) \/ GiveUp(w) PROVE Inv'
<1>1. CASE Load(w)
  <2>1. /\ pc' = [pc EXCEPT ![w] = "loaded"] /\ fp' = [fp EXCEPT ![w] = disk]
        /\ disk # NoFile /\ disk \in 0 .. Len(log) /\ disk \in Fingerprint
        /\ UNCHANGED <<log, disk, shown, orphaned, data, codes, key, astray, stale, cards, job, query, loose>>
    BY <1>1, VersionAssumption DEF Load, Goto, aside, seen, Inv, Typed, Fingerprint
  <2>2. Moves(w)
    BY <2>1 DEF Moves, Same, Inv, Typed, Place
  <2>3. Local(w)'
    BY <2>1 DEF Inv, Typed, Local, OfItsVersion, ListOfItsVersion, List, JobFits, Shows, Asking
  <2> QED
    BY <2>1, <2>2, <2>3, StepOf, SameLogGrows
<1>2. CASE GiveUp(w)
  <2>1. /\ pc' = [pc EXCEPT ![w] = "closed"] /\ fp' = [fp EXCEPT ![w] = 0]
        /\ UNCHANGED <<log, disk, shown, orphaned, data, codes, key, astray, stale, cards, job, query, loose>>
    BY <1>2 DEF GiveUp, Goto, aside, seen, NoFile
  <2>2. Moves(w)
    BY <2>1, VersionAssumption DEF Moves, Same, Inv, Typed, Place, Fingerprint
  <2>3. Local(w)'
    BY <2>1 DEF Inv, Typed, Local, OfItsVersion, ListOfItsVersion, List, JobFits, Shows, Asking
  <2> QED
    BY <2>1, <2>2, <2>3, StepOf, SameLogGrows
<1> QED
  BY <1>1, <1>2

LEMMA DecryptStep == ASSUME Inv, NEW w \in Window, Decrypt(w) PROVE Inv'
<1>1. /\ pc[w] = "loaded" /\ Fill(w, log[fp[w]], fp[w])
      /\ pc' = [pc EXCEPT ![w] = "list"]
      /\ UNCHANGED <<log, disk, shown, orphaned, stale, job, query, loose>>
  BY DEF Decrypt, Goto, aside, seen
<1>2. fp[w] \in 1 .. Len(log) /\ log[fp[w]] \in Content /\ fp[w] \in Fingerprint /\ Typed
  BY <1>1 DEF Inv, Typed, Local, OfItsVersion, NoFile
<1>3. Moves(w)
  BY <1>1, <1>2, FillsFrom DEF Moves, Same, Typed, Place
<1>4. Local(w)'
  <2>1. /\ pc'[w] = "list" /\ data'[w] = log[fp[w]].entries /\ codes'[w] = log[fp[w]].codes
        /\ key'[w] # 0 /\ fp'[w] = fp[w]
        /\ cards'[w] = Drawn(log[fp[w]].entries, query[w])
    BY <1>1, <1>2, FillsFrom DEF Typed
  <2> QED
    BY <1>1, <1>2, <2>1 DEF Inv, Local, OfItsVersion, ListOfItsVersion, List, JobFits, Shows, Asking, NoFile
<1> QED
  BY <1>1, <1>3, <1>4, StepOf, SameLogGrows

(* The end of a session, by lock or destruction.                           *)
LEMMA ForgetStep ==
  ASSUME Inv, NEW w \in Window, Forget(w), UNCHANGED <<log, shown>>,
         disk' \in {disk, NoFile}, orphaned' \subseteq Version
  PROVE  Inv'
<1>1. /\ NoJob \in Job /\ <<>> \in Entries /\ <<>> \in Cards
      /\ 0 \in Fingerprint /\ NoWord \in Words \union {NoWord}
  <2>1. /\ NoJob \in Job /\ <<>> \in Entries /\ 0 \in Fingerprint
        /\ NoWord \in Words \union {NoWord}
    BY VersionAssumption DEF NoJob, Job, Kind, Entries, Fingerprint
  <2>2. <<>> \in [{} -> Entry]
    OBVIOUS
  <2> QED
    BY <2>1, <2>2 DEF Cards
<1>2. Moves(w)
  BY <1>1 DEF Forget, Goto, NoCodes, NoFile, Moves, Same, Inv, Typed, Place
<1>3. Local(w)'
  <2>1. pc'[w] = "closed" /\ fp'[w] = 0 /\ loose'[w] = NoJob /\ log' = log
    BY DEF Forget, Goto, NoFile, Inv, Typed
  <2> QED
    BY <2>1, Length DEF Inv, Local, OfItsVersion, ListOfItsVersion, List, JobFits, Shows, Asking
<1> QED
  BY <1>2, <1>3, StepOf, SameLogGrows

LEMMA SearchStep == ASSUME Inv, NEW w \in Window, Search(w) PROVE Inv'
<1>1. PICK word \in Words \union {NoWord} :
        /\ query' = [query EXCEPT ![w] = word]
        /\ cards' = [cards EXCEPT ![w] = Drawn(data[w], word)]
        /\ astray' = [astray EXCEPT ![w] = @ \ {"undrawn"}]
  BY DEF Search
<1>2. /\ pc[w] = "list"
      /\ UNCHANGED <<log, disk, shown, orphaned, pc, data, codes, key, fp, stale, job, loose>>
  BY DEF Search, seen
<1>3. Drawn(data[w], word) \in Cards
  BY DrawnIsCards DEF Inv, Typed
<1>4. Moves(w)
  BY <1>1, <1>2, <1>3 DEF Moves, Same, Inv, Typed
<1>5. Local(w)'
  <2>1. /\ cards'[w] = Drawn(data[w], word) /\ query'[w] = word
        /\ astray'[w] = astray[w] \ {"undrawn"}
    BY <1>1 DEF Inv, Typed
  <2> QED
    BY <1>2, <2>1 DEF Inv, Local, OfItsVersion, ListOfItsVersion, List, JobFits, Shows, Asking
<1> QED
  BY <1>2, <1>4, <1>5, StepOf, SameLogGrows

(* A reload of a window that shows its list.                               *)
LEMMA ReloadedFrom ==
  ASSUME Inv, NEW w \in Window, CanReload(w), Reloaded(w)
  PROVE  /\ disk \in 1 .. Len(log)
         /\ data' \in [Window -> Entries] /\ codes' \in [Window -> Fingerprint]
         /\ key' \in [Window -> Fingerprint] /\ fp' \in [Window -> Fingerprint]
         /\ cards' \in [Window -> Cards] /\ stale' \in [Window -> BOOLEAN]
         /\ astray' \in [Window -> SUBSET {"unsaved", "undrawn"}]
         /\ data'[w] = log[disk].entries /\ codes'[w] = log[disk].codes
         /\ key'[w] # 0 /\ fp'[w] = disk
         /\ cards'[w] = Drawn(log[disk].entries, query[w])
         /\ \A v \in Window \ {w} :
              /\ data'[v] = data[v] /\ codes'[v] = codes[v] /\ key'[v] = key[v]
              /\ fp'[v] = fp[v] /\ cards'[v] = cards[v] /\ astray'[v] = astray[v]
<1>1. disk \in 1 .. Len(log) /\ log[disk] \in Content /\ disk \in Fingerprint /\ Typed
  BY VersionAssumption DEF CanReload, NoFile, Inv, Typed, Fingerprint
<1>2. Fill(w, log[disk], disk) /\ stale' = [stale EXCEPT ![w] = FALSE]
  BY DEF Reloaded
<1>3. stale' \in [Window -> BOOLEAN]
  BY <1>1, <1>2 DEF Typed
<1> QED
  BY <1>1, <1>2, <1>3, FillsFrom

LEMMA ReloadStep == ASSUME Inv, NEW w \in Window, Reload(w) PROVE Inv'
<1>1. /\ pc[w] = "list" /\ CanReload(w) /\ Reloaded(w)
      /\ UNCHANGED <<log, disk, shown, orphaned, pc, job, query, loose>>
  BY DEF Reload, aside, seen
<1>2. Moves(w)
  BY <1>1, ReloadedFrom DEF Moves, Same, Inv, Typed
<1>3. Local(w)'
  BY <1>1, ReloadedFrom DEF Inv, Local, OfItsVersion, ListOfItsVersion, List, JobFits, Shows, Asking, NoFile
<1> QED
  BY <1>1, <1>2, <1>3, StepOf, SameLogGrows

LEMMA RefuseStep == ASSUME Inv, NEW w \in Window, Refuse(w) PROVE Inv'
<1>1. /\ stale' = [stale EXCEPT ![w] = TRUE]
      /\ UNCHANGED <<log, disk, shown, orphaned, pc, data, codes, key, fp, astray, cards, job, query, loose>>
  BY DEF Refuse, memory, aside, seen
<1>2. Moves(w)
  BY <1>1 DEF Moves, Same, Inv, Typed
<1>3. Local(w)'
  BY <1>1 DEF Inv, Local, OfItsVersion, ListOfItsVersion, List, JobFits, Shows
<1> QED
  BY <1>1, <1>2, <1>3, StepOf, SameLogGrows

(* A question of a change, of window w once it is fresh.                   *)
LEMMA AskStep ==
  ASSUME Inv, NEW w \in Window, NEW place, NEW kind, NEW i \in Nat,
         Ask(w, place, kind, i),
         <<place, kind>> \in {<<"adding", "add">>, <<"editing", "edit">>,
                              <<"deleting", "delete">>, <<"regenerating", "regenerate">>},
         kind = "delete" => i # 0
  PROVE  Inv'
<1>1. pc[w] = "list" /\ UNCHANGED <<log, disk, shown, orphaned, query, loose>>
  BY DEF Ask, aside, seen
<1>2. /\ fp'[w] \in 1 .. Len(log)
      /\ data' \in [Window -> Entries] /\ codes' \in [Window -> Fingerprint]
      /\ key' \in [Window -> Fingerprint] /\ fp' \in [Window -> Fingerprint]
      /\ cards' \in [Window -> Cards] /\ stale' \in [Window -> BOOLEAN]
      /\ astray' \in [Window -> SUBSET {"unsaved", "undrawn"}]
      /\ codes'[w] = log[fp'[w]].codes /\ key'[w] # 0
      /\ "unsaved" \notin astray'[w] => data'[w] = log[fp'[w]].entries
      /\ "undrawn" \notin astray'[w] => cards'[w] = Drawn(data'[w], query[w])
      /\ \A v \in Window \ {w} :
           /\ data'[v] = data[v] /\ codes'[v] = codes[v] /\ key'[v] = key[v]
           /\ fp'[v] = fp[v] /\ cards'[v] = cards[v] /\ astray'[v] = astray[v]
  <2>1. CASE UNCHANGED <<memory, stale, cards>>
    <3>1. UNCHANGED <<data, codes, key, fp, astray, stale, cards>>
      BY <2>1 DEF memory
    <3>2. fp[w] \in 1 .. Len(log)
      BY <1>1 DEF Inv, Typed, Local, OfItsVersion, NoFile
    <3> QED
      BY <1>1, <3>1, <3>2 DEF Inv, Typed, Local, OfItsVersion, ListOfItsVersion, List, Shows, NoFile
  <2>2. CASE CanReload(w) /\ Reloaded(w)
    BY <2>2, ReloadedFrom
  <2> QED
    BY <2>1, <2>2 DEF Ask
<1>3. CASE i \in 0 .. Len(data'[w])
  <2> DEFINE new == [kind |-> kind, idx |-> i,
                     left |-> FALSE, entry |-> IF i = 0 THEN <<>> ELSE data'[w][i]]
  <2>1. pc' = [pc EXCEPT ![w] = place] /\ job' = [job EXCEPT ![w] = new]
    BY <1>3 DEF Ask, Goto
  <2>2. place \in Asking /\ place \in Place /\ kind \in Kind
    BY DEF Asking, Place, Kind
  <2>3. /\ new \in Job /\ new.kind = kind /\ new.idx = i
        /\ i # 0 => i \in 1 .. Len(data'[w]) /\ new.entry = data'[w][i]
    <3>1. data'[w] \in Seq(Entry) /\ Len(data'[w]) \in Nat
      BY <1>2 DEF Entries
    <3>2. i # 0 => i \in 1 .. Len(data'[w]) /\ data'[w][i] \in Entry
      BY <1>3, <3>1
    <3> QED
      BY <2>2, <3>2 DEF Job
  <2> HIDE DEF new
  <2>4. Moves(w)
    BY <1>1, <1>2, <2>1, <2>2, <2>3 DEF Moves, Same, Inv, Typed
  <2>5. Local(w)'
    <3>1. pc'[w] = place /\ job'[w] = new /\ loose'[w] = loose[w]
      BY <1>1, <2>1 DEF Inv, Typed
    <3>2. OfItsVersion(w)'
      BY <1>1, <1>2, <2>2, <3>1 DEF Inv, Typed, OfItsVersion, ListOfItsVersion, List, Shows, Asking, NoFile
    <3>3. JobFits(w)'
      BY <2>3, <3>1 DEF Inv, Local, JobFits
    <3> QED
      BY <3>2, <3>3 DEF Local
  <2> QED
    BY <1>1, <2>4, <2>5, StepOf, SameLogGrows
<1>4. CASE i \notin 0 .. Len(data'[w])
  <2>1. UNCHANGED <<pc, job>>
    BY <1>4 DEF Ask
  <2>2. Moves(w)
    BY <1>1, <1>2, <2>1 DEF Moves, Same, Inv, Typed
  <2>3. Local(w)'
    BY <1>1, <1>2, <2>1 DEF Inv, Typed, Local, OfItsVersion, ListOfItsVersion, List, JobFits, Shows, Asking, NoFile
  <2> QED
    BY <1>1, <2>2, <2>3, StepOf, SameLogGrows
<1> QED
  BY <1>3, <1>4

LEMMA ChangeStep ==
  ASSUME Inv, NEW w \in Window,
         AddEntry(w) \/ EditEntry(w) \/ DeleteEntry(w) \/ Regenerate(w)
  PROVE  Inv'
<1>1. \A i \in DOMAIN cards[w] : i \in Nat /\ i # 0
  <2>1. cards[w] \in Cards
    BY DEF Inv, Typed
  <2>2. PICK shownAt \in SUBSET (Nat \ {0}) : cards[w] \in [shownAt -> Entry]
    BY <2>1 DEF Cards
  <2> QED
    BY <2>2
<1>2. CASE AddEntry(w)
  <2>1. Ask(w, "adding", "add", 0)
    BY <1>2 DEF AddEntry
  <2> QED
    BY <2>1, AskStep
<1>3. CASE EditEntry(w)
  <2>1. PICK i \in DOMAIN cards[w] : Ask(w, "editing", "edit", i)
    BY <1>3 DEF EditEntry
  <2>2. i \in Nat
    BY <1>1
  <2> QED
    BY <2>1, <2>2, AskStep
<1>4. CASE DeleteEntry(w)
  <2>1. PICK i \in DOMAIN cards[w] : Ask(w, "deleting", "delete", i)
    BY <1>4 DEF DeleteEntry
  <2>2. i \in Nat /\ i # 0
    BY <1>1
  <2> QED
    BY <2>1, <2>2, AskStep
<1>5. CASE Regenerate(w)
  <2>1. Ask(w, "regenerating", "regenerate", 0)
    BY <1>5 DEF Regenerate
  <2> QED
    BY <2>1, AskStep
<1> QED
  BY <1>2, <1>3, <1>4, <1>5

(* A window goes back to its list, and nothing else has happened.          *)
LEMMA FinishStep ==
  ASSUME Inv, NEW w \in Window, pc[w] \in Asking, Finish(w),
         \/ loose' = loose
         \/ /\ pc[w] \in {"adding", "editing"}
            /\ loose' = [loose EXCEPT ![w] = [job[w] EXCEPT !.left = TRUE]],
         UNCHANGED <<log, disk, shown, orphaned, data, codes, key, fp, astray, stale, cards, query>>
  PROVE  Inv'
<1>1. pc' = [pc EXCEPT ![w] = "list"] /\ job' = [job EXCEPT ![w] = NoJob] /\ NoJob \in Job
  BY DEF Finish, Goto, NoJob, Job, Kind
<1>2. Moves(w)
  <2> DEFINE left == [job[w] EXCEPT !.left = TRUE]
  <2>0. left \in Job
    <3>1. job[w] \in Job
      BY DEF Inv, Typed
    <3> QED
      BY <3>1 DEF Job
  <2> HIDE DEF left
  <2>1. loose' \in [Window -> Job] /\ \A v \in Window \ {w} : loose'[v] = loose[v]
    BY <2>0 DEF Inv, Typed, left
  <2> QED
    BY <1>1, <2>1 DEF Moves, Same, Inv, Typed, Place
<1>3. Local(w)'
  <2>1. pc'[w] = "list" /\ (loose'[w] = loose[w] \/ loose'[w].kind \in {"add", "edit"})
    BY <1>1 DEF Inv, Typed, Job, Local, JobFits
  <2>2. OfItsVersion(w)'
    BY <2>1 DEF Inv, Local, OfItsVersion, ListOfItsVersion, List, Shows, Asking
  <2>3. JobFits(w)'
    BY <2>1 DEF Inv, Local, JobFits
  <2> QED
    BY <2>2, <2>3 DEF Local
<1> QED
  BY <1>2, <1>3, StepOf, SameLogGrows

LEMMA EndStep ==
  ASSUME Inv, NEW w \in Window, Cancel(w) \/ Refused(w) \/ Generate(w)
  PROVE  Inv'
<1>1. pc[w] \in Asking /\ Finish(w)
  BY DEF Cancel, Refused, Generate, Answered, Asking
<1>2. UNCHANGED <<log, disk, shown, orphaned, data, codes, key, fp, astray, stale, cards, query>>
  BY DEF Cancel, Refused, Generate, memory, aside, seen
<1>3. \/ loose' = loose
      \/ /\ pc[w] \in {"adding", "editing"}
         /\ loose' = [loose EXCEPT ![w] = [job[w] EXCEPT !.left = TRUE]]
  <2>1. CASE Cancel(w) \/ Refused(w)
    BY <2>1 DEF Cancel, Refused, aside, seen
  <2>2. CASE Generate(w)
    BY <2>2 DEF Generate
  <2> QED
    BY <2>1, <2>2
<1> QED
  BY <1>1, <1>2, <1>3, FinishStep

LEMMA GoBackStep == ASSUME Inv, NEW w \in Window, GoBack(w) PROVE Inv'
<1> DEFINE place == IF loose[w].kind = "add" THEN "adding" ELSE "editing"
<1>1. /\ pc[w] = "list" /\ loose[w] # NoJob
      /\ pc' = [pc EXCEPT ![w] = place]
      /\ job' = [job EXCEPT ![w] = loose[w]] /\ loose' = [loose EXCEPT ![w] = NoJob]
      /\ UNCHANGED <<log, disk, shown, orphaned, data, codes, key, fp, astray, stale, cards, query>>
  BY DEF GoBack, Goto, memory, seen
<1>2. place \in Place /\ place \in Asking /\ NoJob \in Job
  BY DEF Place, Asking, NoJob, Job, Kind
<1>3. Moves(w)
  BY <1>1, <1>2 DEF Moves, Same, Inv, Typed
<1>4. Local(w)'
  <2>1. pc'[w] = place /\ job'[w] = loose[w] /\ loose'[w] = NoJob
    BY <1>1 DEF Inv, Typed
  <2>2. OfItsVersion(w)'
    BY <1>1, <1>2, <2>1 DEF Inv, Local, OfItsVersion, ListOfItsVersion, List, Shows, Asking
  <2>3. JobFits(w)'
    BY <1>1, <2>1 DEF Inv, Local, JobFits
  <2> QED
    BY <2>2, <2>3 DEF Local
<1> QED
  BY <1>1, <1>3, <1>4, StepOf, SameLogGrows

LEMMA ConflictStep == ASSUME Inv, NEW w \in Window, Conflict(w) PROVE Inv'
<1> DEFINE new == [job[w] EXCEPT !.entry = Previous(w)]
<1>1. /\ Answered(w) /\ pc[w] \in Asking
      /\ data' = [data EXCEPT ![w] = Changed(w)]
      /\ pc' = [pc EXCEPT ![w] = "conflict"]
      /\ UNCHANGED <<log, disk, shown, orphaned, codes, key, fp, astray, stale, cards, query, loose>>
  BY DEF Conflict, Goto, aside, seen, Answered
<1>2. job' = [job EXCEPT ![w] = new]
  BY DEF Conflict, Inv, Typed
<1>3. /\ Changed(w) \in Entries /\ Previous(w) \in Entry \union {<<>>}
      /\ Undo(new, Changed(w)) = data[w]
      /\ job[w].kind \in {"edit", "delete"} => job[w].idx # 0 /\ Previous(w) \in Entry
  BY <1>1, UndoGivesBack
<1>4. /\ new \in Job
      /\ new.kind \in {"edit", "delete"} => new.idx # 0 /\ new.entry \in Entry
  <2>1. job[w] \in Job
    BY DEF Inv, Typed
  <2> QED
    BY <1>3, <2>1 DEF Job
<1> HIDE DEF new
<1>5. Moves(w)
  BY <1>1, <1>2, <1>3, <1>4 DEF Moves, Same, Inv, Typed, Place
<1>6. Local(w)'
  <2>1. pc'[w] = "conflict" /\ job'[w] = new /\ data'[w] = Changed(w)
    BY <1>1, <1>2 DEF Inv, Typed
  <2>2. ListOfItsVersion(w) /\ List(w) = data[w]
    BY <1>1 DEF Inv, Local, OfItsVersion, List, Shows, Asking
  <2>3. List(w)' = data[w]
    BY <1>3, <2>1 DEF List, Undo, Least
  <2>4. OfItsVersion(w)'
    BY <1>1, <2>1, <2>2, <2>3 DEF Inv, Local, OfItsVersion, ListOfItsVersion, Shows, Asking
  <2>5. JobFits(w)'
    BY <1>1, <1>4, <2>1 DEF Inv, Local, JobFits, Asking
  <2> QED
    BY <2>4, <2>5 DEF Local
<1> QED
  BY <1>1, <1>5, <1>6, StepOf, SameLogGrows

LEMMA UndoTyped ==
  ASSUME NEW j \in Job, NEW s \in Entries,
         j.kind \in {"edit", "delete"} => j.idx # 0 /\ j.entry \in Entry
  PROVE  Undo(j, s) \in Entries
<1>1. s \in Seq(Entry) /\ Len(s) \in Nat /\ j.idx \in Nat
      /\ \A i \in 1 .. Len(s) : s[i] \in Entry
  BY LenProperties, ElementOfSeq DEF Entries, Job
<1>2. CASE j.kind = "add" /\ s # <<>>
  <2>1. Len(s) # 0
    BY <1>1, <1>2, EmptySeq
  <2>2. SubSeq(s, 1, Len(s) - 1) \in Seq(Entry)
    BY <1>1, <2>1, SubSeqProperties
  <2> QED
    BY <1>2, <2>2 DEF Undo, Front, Entries
<1>3. CASE j.kind = "edit" /\ j.idx \in DOMAIN s
  <2>1. j.idx \in 1 .. Len(s) /\ j.entry \in Entry
    BY <1>1, <1>3
  <2>2. ReplaceAt(s, j.idx, j.entry) \in Seq(Entry)
    BY <1>1, <2>1, ReplaceBack
  <2> QED
    BY <1>3, <2>2 DEF Undo, Entries
<1>4. CASE j.kind = "delete"
  <2> DEFINE i == Least(j.idx, Len(s) + 1)
             head == SubSeq(s, 1, i - 1)
             tail == SubSeq(s, i, Len(s))
  <2>1. i \in 1 .. Len(s) + 1 /\ j.entry \in Entry
    BY <1>1, <1>4 DEF Least
  <2> HIDE DEF i
  <2>2. head \in Seq(Entry)
    BY <1>1, <2>1, SubSeqProperties
  <2>3. tail \in Seq(Entry)
    BY <1>1, <2>1, SubSeqProperties
  <2>4. <<j.entry>> \in Seq(Entry)
    BY <2>1
  <2>5. InsertAt(s, i, j.entry) = head \o <<j.entry>> \o tail
    BY DEF InsertAt
  <2> HIDE DEF head, tail
  <2>6. head \o <<j.entry>> \in Seq(Entry)
    BY <2>2, <2>4, ConcatProperties
  <2>7. head \o <<j.entry>> \o tail \in Seq(Entry)
    BY <2>3, <2>6, ConcatProperties
  <2>8. Undo(j, s) = InsertAt(s, i, j.entry)
    BY <1>4 DEF Undo, i
  <2> QED
    BY <2>5, <2>7, <2>8 DEF Entries
<1> QED
  <2>1. CASE /\ ~(j.kind = "add" /\ s # <<>>)
             /\ ~(j.kind = "edit" /\ j.idx \in DOMAIN s)
             /\ j.kind # "delete"
    BY <2>1 DEF Undo
  <2> QED
    BY <1>2, <1>3, <1>4, <2>1

LEMMA KeptStep == ASSUME Inv, NEW w \in Window, ConflictKept(w) PROVE Inv'
<1> DEFINE restored == Undo(job[w], data[w])
<1>1. /\ pc[w] = "conflict"
      /\ data' = [data EXCEPT ![w] = restored]
      /\ stale' = [stale EXCEPT ![w] = TRUE]
      /\ pc' = [pc EXCEPT ![w] = "list"] /\ job' = [job EXCEPT ![w] = NoJob]
      /\ UNCHANGED <<log, disk, shown, orphaned, codes, key, fp, astray, cards, query, loose>>
  BY DEF ConflictKept, Finish, Goto, aside, seen
<1>2. /\ fp[w] \in 1 .. Len(log)
      /\ ListOfItsVersion(w) /\ restored = List(w)
      /\ restored \in Entries /\ NoJob \in Job
  <2>1. fp[w] \in 1 .. Len(log) /\ ListOfItsVersion(w) /\ restored = List(w)
    BY <1>1 DEF Inv, Typed, Local, OfItsVersion, List, Shows, NoFile
  <2>2. restored \in Entries
    <3>1. /\ job[w] \in Job /\ data[w] \in Entries
          /\ job[w].kind \in {"edit", "delete"} => job[w].idx # 0 /\ job[w].entry \in Entry
      BY <1>1 DEF Inv, Typed, Local, JobFits
    <3> QED
      BY <3>1, UndoTyped
  <2> QED
    BY <2>1, <2>2 DEF NoJob, Job, Kind
<1> HIDE DEF restored
<1>3. Moves(w)
  BY <1>1, <1>2 DEF Moves, Same, Inv, Typed, Place
<1>4. Local(w)'
  <2>1. pc'[w] = "list" /\ data'[w] = restored
    BY <1>1 DEF Inv, Typed
  <2>2. OfItsVersion(w)'
    <3>1. List(w)' = List(w)
      BY <1>2, <2>1 DEF List
    <3> QED
      BY <1>1, <1>2, <2>1, <3>1 DEF Inv, Local, OfItsVersion, ListOfItsVersion, Shows, NoFile
  <2>3. JobFits(w)'
    BY <1>1, <2>1 DEF Inv, Local, JobFits
  <2> QED
    BY <2>2, <2>3 DEF Local
<1> QED
  BY <1>1, <1>3, <1>4, StepOf, SameLogGrows

(* The undo of a user who has reloaded falls on the list just read.        *)
LEMMA ReloadedStep == ASSUME Inv, NEW w \in Window, ConflictReloaded(w) PROVE Inv'
<1> DEFINE restored == Undo(job[w], log[disk].entries)
<1> DEFINE behind == IF job[w].kind = "regenerate" THEN {} ELSE {"unsaved", "undrawn"}
<1>1. /\ pc[w] = "conflict" /\ disk # NoFile
      /\ astray' = [astray EXCEPT ![w] = behind]
      /\ data' = [data EXCEPT ![w] = restored]
      /\ codes' = [codes EXCEPT ![w] = log[disk].codes]
      /\ fp' = [fp EXCEPT ![w] = disk]
      /\ cards' = [cards EXCEPT ![w] = Drawn(log[disk].entries, query[w])]
      /\ stale' = [stale EXCEPT ![w] = FALSE]
      /\ pc' = [pc EXCEPT ![w] = "list"] /\ job' = [job EXCEPT ![w] = NoJob]
      /\ UNCHANGED <<log, disk, shown, orphaned, key, query, loose>>
  BY DEF ConflictReloaded, CanReload, Finish, Goto, aside, seen
<1>2. disk \in 1 .. Len(log) /\ disk \in Fingerprint /\ log[disk] \in Content
  BY <1>1, VersionAssumption DEF Inv, Typed, NoFile, Fingerprint
<1>3. log[disk].entries \in Entries /\ log[disk].codes \in Fingerprint
  BY <1>2 DEF Content
<1>4. /\ restored \in Entries /\ NoJob \in Job
      /\ Drawn(log[disk].entries, query[w]) \in Cards
  <2>1. /\ job[w] \in Job
        /\ job[w].kind \in {"edit", "delete"} => job[w].idx # 0 /\ job[w].entry \in Entry
    BY <1>1 DEF Inv, Typed, Local, JobFits
  <2> QED
    BY <1>3, <2>1, UndoTyped, DrawnIsCards DEF NoJob, Job, Kind
<1>5. /\ behind \in SUBSET {"unsaved", "undrawn"}
      /\ behind = {"unsaved", "undrawn"} \/ restored = log[disk].entries
  BY DEF Undo
<1> HIDE DEF restored, behind
<1>6. Moves(w)
  BY <1>1, <1>2, <1>3, <1>4, <1>5 DEF Moves, Same, Inv, Typed, Place
<1>7. Local(w)'
  <2>1. /\ pc'[w] = "list" /\ fp'[w] = disk /\ codes'[w] = log[disk].codes
        /\ loose'[w] = loose[w] /\ key'[w] = key[w] /\ key[w] # 0
        /\ data'[w] = restored /\ astray'[w] = behind
        /\ cards'[w] = Drawn(log[disk].entries, query[w])
    BY <1>1 DEF Inv, Typed, Local, OfItsVersion, Shows
  <2>2. OfItsVersion(w)'
    BY <1>1, <1>2, <1>5, <2>1 DEF OfItsVersion, ListOfItsVersion, List, NoFile
  <2>3. JobFits(w)'
    BY <2>1 DEF Inv, Local, JobFits
  <2> QED
    BY <2>2, <2>3 DEF Local
<1> QED
  BY <1>1, <1>6, <1>7, StepOf, SameLogGrows

(* New codes are displayed.                                                *)
LEMMA ShowCodesStep == ASSUME Inv, NEW w \in Window, ShowCodes(w) PROVE Inv'
<1>1. /\ pc[w] = "showing" /\ shown' = shown \union {codes[w]}
      /\ pc' = [pc EXCEPT ![w] = "list"]
      /\ UNCHANGED <<log, disk, orphaned, data, codes, key, fp, astray, stale, cards,
                     job, query, loose>>
  BY DEF ShowCodes, Goto, memory, aside
<1>2. codes[w] \in Version
  BY <1>1 DEF Inv, Local, JobFits
<1>3. Moves(w)
  BY <1>1, <1>2 DEF Moves, Same, Inv, Typed, Place
<1>4. Local(w)'
  BY <1>1 DEF Inv, Typed, Local, OfItsVersion, ListOfItsVersion, List, JobFits, Shows, Asking
<1> QED
  BY <1>1, <1>3, <1>4, StepOf, SameLogGrows

(* A save has raised what nobody catches.                                  *)
LEMMA RaisedStep == ASSUME Inv, NEW w \in Window, Raised(w) PROVE Inv'
<1> DEFINE behind == IF job[w].kind = "regenerate" THEN astray[w]
                     ELSE {"unsaved", "undrawn"}
<1>1. /\ Answered(w) /\ pc[w] \in Asking
      /\ data' = [data EXCEPT ![w] = Changed(w)]
      /\ pc' = [pc EXCEPT ![w] = "list"] /\ job' = [job EXCEPT ![w] = NoJob]
      /\ UNCHANGED <<log, disk, shown, orphaned, codes, key, fp, stale, cards, query, loose>>
  BY DEF Raised, Answered, Finish, Goto, aside, seen
<1>2. astray' = [astray EXCEPT ![w] = behind]
  BY DEF Raised, Inv, Typed
<1>3. Changed(w) \in Entries /\ NoJob \in Job
  BY <1>1, UndoGivesBack DEF NoJob, Job, Kind
<1>4. /\ behind \in SUBSET {"unsaved", "undrawn"}
      /\ behind = {"unsaved", "undrawn"} \/ (Changed(w) = data[w] /\ behind = astray[w])
  <2>1. astray[w] \in SUBSET {"unsaved", "undrawn"}
    BY DEF Inv, Typed
  <2>2. job[w].kind = "regenerate" => Changed(w) = data[w]
    BY DEF Changed
  <2>3. CASE job[w].kind = "regenerate"
    BY <2>1, <2>2, <2>3
  <2>4. CASE job[w].kind # "regenerate"
    BY <2>4
  <2> QED
    BY <2>3, <2>4
<1> HIDE DEF behind
<1>5. Moves(w)
  BY <1>1, <1>2, <1>3, <1>4 DEF Moves, Same, Inv, Typed, Place
<1>6. Local(w)'
  <2>1. pc'[w] = "list" /\ data'[w] = Changed(w) /\ astray'[w] = behind
    BY <1>1, <1>2 DEF Inv, Typed
  <2>2. OfItsVersion(w)'
    BY <1>1, <1>4, <2>1
    DEF Inv, Local, OfItsVersion, ListOfItsVersion, List, Shows, Asking
  <2>3. JobFits(w)'
    BY <1>1, <2>1 DEF Inv, Local, JobFits
  <2> QED
    BY <2>2, <2>3 DEF Local
<1> QED
  BY <1>1, <1>5, <1>6, StepOf, SameLogGrows

(***************************************************************************)
(* The steps that write the file.                                          *)
(***************************************************************************)

(* A window takes over a version it has just written.                      *)
LEMMA FillStep ==
  ASSUME Inv, NEW w \in Window, NEW new \in Content, new.old => new.codes = NoCodes,
         NEW f \in 1 .. NextVersion, Len(log) < MaxVersion,
         log' = Append(log, new), disk' = NextVersion, Fill(w, new, f),
         log'[f].entries = new.entries, log'[f].codes = new.codes,
         pc' = [pc EXCEPT ![w] = "list"], UNCHANGED <<shown, orphaned, stale, job, query, loose>>
  PROVE  Inv'
<1>1. /\ Grows /\ log' \in Seq(Content) /\ Len(log') = NextVersion
      /\ Len(log') <= MaxVersion /\ NextVersion \in Version
  BY WriteGrows
<1>2. f \in Fingerprint /\ Typed /\ NextVersion \in Nat
  BY <1>1, VersionAssumption DEF Fingerprint, Version, Inv
<1>3. Moves(w)
  BY <1>1, <1>2, FillsFrom DEF Moves, Same, Typed, Place
<1>4. Local(w)'
  <2>1. /\ pc'[w] = "list" /\ data'[w] = new.entries /\ codes'[w] = new.codes
        /\ key'[w] # 0 /\ fp'[w] = f /\ cards'[w] = Drawn(new.entries, query[w])
    BY <1>2, FillsFrom DEF Typed
  <2>2. OfItsVersion(w)'
    BY <1>1, <1>2, <2>1 DEF OfItsVersion, ListOfItsVersion, List, Shows, Asking, NoFile
  <2>3. JobFits(w)'
    BY <2>1 DEF Inv, Local, JobFits
  <2> QED
    BY <2>2, <2>3 DEF Local
<1> QED
  BY <1>1, <1>3, <1>4, StepOf

(* What a migration writes is the version it has read, in the new format.  *)
LEMMA RewritesContent ==
  ASSUME Inv, NEW w \in Window, Rewrite(w)
  PROVE  /\ Migrated(w) \in Content /\ ~Migrated(w).old /\ Migrated(w).codes = NoCodes
         /\ Migrated(w).entries = log[fp[w]].entries
         /\ fp[w] \in 1 .. Len(log) /\ log[fp[w]] \in Content /\ Len(log) \in Nat
         /\ log[fp[w]].codes = NoCodes
         /\ Grows /\ log'[NextVersion] = Migrated(w)
         /\ log' \in Seq(Content) /\ Len(log') = NextVersion /\ Len(log') <= MaxVersion
<1>1. /\ fp[w] \in 1 .. Len(log) /\ log[fp[w]] \in Content /\ Len(log) \in Nat
      /\ log[fp[w]].codes = NoCodes
  BY DEF Rewrite, Inv, Typed, Local, OfItsVersion, NoFile, OldHasNoCodes
<1>2. /\ Migrated(w) \in Content /\ ~Migrated(w).old /\ Migrated(w).codes = NoCodes
      /\ Migrated(w).entries = log[fp[w]].entries
  BY <1>1, VersionAssumption
  DEF Rewrite, Migrated, Content, NextVersion, Version, Fingerprint, NoCodes
<1>3. Len(log) < MaxVersion /\ log' = Append(log, Migrated(w))
  BY DEF Rewrite
<1> QED
  BY <1>1, <1>2, <1>3, WriteGrows

LEMMA MigrateStep == ASSUME Inv, NEW w \in Window, Migrate(w) PROVE Inv'
<1> DEFINE new == Migrated(w)
<1>1. /\ pc[w] = "loaded" /\ Rewrite(w) /\ Len(log) < MaxVersion
      /\ log' = Append(log, new) /\ disk' = NextVersion /\ Fill(w, new, fp[w])
      /\ pc' = [pc EXCEPT ![w] = "list"] /\ UNCHANGED <<shown, orphaned, stale, job, query, loose>>
  BY DEF Migrate, Rewrite, Goto, aside, seen
<1>2. /\ fp[w] \in 1 .. Len(log) /\ log[fp[w]] \in Content /\ Len(log) \in Nat
      /\ log[fp[w]].codes = NoCodes /\ Grows
      /\ new \in Content /\ ~new.old /\ new.codes = NoCodes
      /\ new.entries = log[fp[w]].entries
  BY <1>1, RewritesContent
<1> HIDE DEF new
<1>3. log'[fp[w]] = log[fp[w]] /\ fp[w] \in 1 .. NextVersion
  BY <1>2 DEF Grows, NextVersion
<1> QED
  BY <1>1, <1>2, <1>3, FillStep

LEMMA MigrateUnconfirmedStep ==
  ASSUME Inv, NEW w \in Window, MigrateUnconfirmed(w) PROVE Inv'
<1>1. /\ Rewrite(w) /\ disk' = NextVersion
      /\ pc' = [pc EXCEPT ![w] = "closed"] /\ fp' = [fp EXCEPT ![w] = 0]
      /\ log' = Append(log, Migrated(w))
      /\ UNCHANGED <<shown, orphaned, data, codes, key, astray, stale, cards, job, query, loose>>
  BY DEF MigrateUnconfirmed, Rewrite, Goto, aside, seen, NoFile
<1>2. /\ Grows /\ log' \in Seq(Content) /\ Len(log') = NextVersion
      /\ Len(log') <= MaxVersion /\ Migrated(w) \in Content /\ ~Migrated(w).old
      /\ Len(log) \in Nat
  BY <1>1, RewritesContent
<1>3. NextVersion \in 0 .. NextVersion
  BY <1>2 DEF NextVersion
<1>4. Moves(w)
  BY <1>1, <1>2, <1>3, VersionAssumption DEF Moves, Same, Inv, Typed, Place, Fingerprint
<1>5. Local(w)'
  BY <1>1 DEF Inv, Typed, Local, OfItsVersion, ListOfItsVersion, List, JobFits, Shows, Asking
<1> QED
  BY <1>2, <1>4, <1>5, StepOf

LEMMA CreateStep == ASSUME Inv, NEW w \in Window, Create(w) PROVE Inv'
<1> DEFINE new == [entries |-> <<>>, key |-> NextVersion, codes |-> NoCodes, old |-> FALSE]
<1>1. /\ Len(log) < MaxVersion
      /\ log' = Append(log, new) /\ disk' = NextVersion /\ Fill(w, new, NextVersion)
      /\ pc' = [pc EXCEPT ![w] = "list"] /\ UNCHANGED <<shown, orphaned, stale, job, query, loose>>
  BY DEF Create, Goto, aside, seen
<1>2. Len(log) \in Nat /\ NextVersion \in 1 .. NextVersion
  BY DEF Inv, Typed, NextVersion
<1>3. new \in Content /\ ~new.old
  BY <1>1, <1>2, VersionAssumption
  DEF Content, Entries, NextVersion, Version, Fingerprint, NoCodes
<1> HIDE DEF new
<1>4. log'[NextVersion] = new
  BY <1>1, <1>3, WriteGrows
<1> QED
  BY <1>1, <1>2, <1>3, <1>4, FillStep

(* What a save writes is a version that could be read back.                *)
LEMMA WritesContent ==
  ASSUME Inv, NEW w \in Window, Answered(w), Write(w)
  PROVE  LET new == [entries |-> Changed(w), key |-> key[w],
                     codes |-> NewCodes(w), old |-> FALSE]
         IN  /\ new \in Content /\ ~new.old
             /\ Len(log) < MaxVersion /\ log' = Append(log, new) /\ disk' = NextVersion
<1>1. Changed(w) \in Entries
  BY UndoGivesBack
<1>2. key[w] \in Version
  <2>1. pc[w] \in Asking
    BY DEF Answered
  <2> QED
    BY <2>1, VersionAssumption DEF Inv, Typed, Local, OfItsVersion, ListOfItsVersion, List, Shows, Fingerprint, Version
<1>3. NewCodes(w) \in Fingerprint
  <2>1. codes[w] \in Fingerprint /\ Len(log) \in Nat /\ Len(log) < MaxVersion
    BY DEF Inv, Typed, Write
  <2>2. NextVersion \in Fingerprint
    BY <2>1, VersionAssumption DEF NextVersion, Fingerprint
  <2> QED
    BY <2>1, <2>2 DEF NewCodes
<1> QED
  BY <1>1, <1>2, <1>3 DEF Content, Write

LEMMA SavedStep == ASSUME Inv, NEW w \in Window, Saved(w) PROVE Inv'
<1> DEFINE new == [entries |-> Changed(w), key |-> key[w],
                   codes |-> NewCodes(w), old |-> FALSE]
<1>1. /\ Answered(w) /\ Write(w)
      /\ data' = [data EXCEPT ![w] = new.entries] /\ codes' = [codes EXCEPT ![w] = new.codes]
      /\ fp' = [fp EXCEPT ![w] = NextVersion]
      /\ cards' = [cards EXCEPT ![w] = Drawn(new.entries, query[w])]
      /\ pc' = [pc EXCEPT ![w] = "list"] /\ job' = [job EXCEPT ![w] = NoJob]
      /\ UNCHANGED <<shown, orphaned, key, stale, query, loose>>
  BY DEF Saved, Finish, Goto, aside, seen
<1>2. astray' = [astray EXCEPT ![w] = {}]
  BY DEF Saved
<1>3. /\ new \in Content /\ ~new.old /\ Len(log) < MaxVersion
      /\ log' = Append(log, new) /\ disk' = NextVersion
  BY <1>1, WritesContent
<1>4. new.entries \in Entries /\ new.codes \in Fingerprint
  BY <1>3 DEF Content
<1>5. NoJob \in Job /\ Drawn(new.entries, query[w]) \in Cards
  BY <1>4, DrawnIsCards DEF NoJob, Job, Kind
<1> HIDE DEF new
<1>6. /\ Grows /\ log' \in Seq(Content) /\ Len(log') = NextVersion
      /\ Len(log') <= MaxVersion /\ NextVersion \in Version /\ log'[NextVersion] = new
  BY <1>3, WriteGrows
<1>7. Typed /\ NextVersion \in Fingerprint /\ NextVersion \in 1 .. NextVersion
  BY <1>6, VersionAssumption DEF Fingerprint, Version, Inv
<1>8. Moves(w)
  BY <1>1, <1>2, <1>3, <1>4, <1>5, <1>6, <1>7 DEF Moves, Same, Typed, Place
<1>9. Local(w)'
  <2>1. /\ pc'[w] = "list" /\ data'[w] = new.entries /\ codes'[w] = new.codes
        /\ key'[w] = key[w] /\ fp'[w] = NextVersion /\ loose'[w] = loose[w]
        /\ cards'[w] = Drawn(new.entries, query[w]) /\ query'[w] = query[w]
    BY <1>1, <1>7 DEF Typed
  <2>2. key[w] # 0
    BY <1>1 DEF Answered, Inv, Local, OfItsVersion, ListOfItsVersion, List, Shows
  <2>3. OfItsVersion(w)'
    BY <1>6, <1>7, <2>1, <2>2 DEF OfItsVersion, ListOfItsVersion, List, Shows, Asking, NoFile
  <2>4. JobFits(w)'
    BY <2>1 DEF Inv, Local, JobFits
  <2> QED
    BY <2>3, <2>4 DEF Local
<1> QED
  BY <1>6, <1>8, <1>9, StepOf

(* New codes have been saved, the list in memory with them.                *)
LEMMA RegeneratedStep == ASSUME Inv, NEW w \in Window, Regenerated(w) PROVE Inv'
<1> DEFINE new == [entries |-> Changed(w), key |-> key[w],
                   codes |-> NewCodes(w), old |-> FALSE]
<1>1. /\ Answered(w) /\ Write(w) /\ job[w].kind = "regenerate"
      /\ codes' = [codes EXCEPT ![w] = new.codes]
      /\ fp' = [fp EXCEPT ![w] = NextVersion]
      /\ astray' = [astray EXCEPT ![w] = astray[w] \ {"unsaved"}]
      /\ pc' = [pc EXCEPT ![w] = "showing"] /\ job' = [job EXCEPT ![w] = NoJob]
      /\ UNCHANGED <<shown, orphaned, data, key, stale, cards, query, loose>>
  BY DEF Regenerated, Goto, aside, seen, Inv, Typed
<1>2. /\ new \in Content /\ ~new.old /\ Len(log) < MaxVersion
      /\ log' = Append(log, new) /\ disk' = NextVersion
  BY <1>1, WritesContent
<1>3. new.entries = data[w] /\ new.codes = NextVersion /\ new.codes \in Fingerprint
  BY <1>1, <1>2 DEF Changed, NewCodes, Content
<1>4. NoJob \in Job
  BY DEF NoJob, Job, Kind
<1> HIDE DEF new
<1>5. /\ Grows /\ log' \in Seq(Content) /\ Len(log') = NextVersion
      /\ Len(log') <= MaxVersion /\ NextVersion \in Version /\ log'[NextVersion] = new
  BY <1>2, WriteGrows
<1>6. Typed /\ NextVersion \in Fingerprint /\ NextVersion \in 1 .. NextVersion
  BY <1>5, VersionAssumption DEF Fingerprint, Version, Inv
<1>7. Moves(w)
  BY <1>1, <1>2, <1>3, <1>4, <1>5, <1>6 DEF Moves, Same, Typed, Place
<1>8. Local(w)'
  <2>1. /\ pc'[w] = "showing" /\ codes'[w] = NextVersion
        /\ fp'[w] = NextVersion /\ astray'[w] = astray[w] \ {"unsaved"}
    BY <1>1, <1>3, <1>6 DEF Typed
  <2>2. key[w] # 0 /\ ListOfItsVersion(w) /\ List(w) = data[w]
    BY <1>1 DEF Answered, Inv, Local, OfItsVersion, List, Shows, Asking
  <2>3. OfItsVersion(w)'
    BY <1>1, <1>3, <1>5, <1>6, <2>1, <2>2
    DEF OfItsVersion, ListOfItsVersion, List, Shows, NoFile
  <2>4. JobFits(w)'
    BY <1>1, <1>5, <2>1 DEF Inv, Local, JobFits
  <2> QED
    BY <2>3, <2>4 DEF Local
<1> QED
  BY <1>5, <1>7, <1>8, StepOf

LEMMA UnconfirmedStep == ASSUME Inv, NEW w \in Window, Unconfirmed(w) PROVE Inv'
<1> DEFINE new == [entries |-> Changed(w), key |-> key[w],
                   codes |-> NewCodes(w), old |-> FALSE]
<1>1. /\ Answered(w) /\ Write(w) /\ pc[w] \in Asking
      /\ pc' = [pc EXCEPT ![w] = "list"] /\ job' = [job EXCEPT ![w] = NoJob]
      /\ orphaned' \in {orphaned, orphaned \union {NextVersion}}
      /\ UNCHANGED <<shown, data, codes, key, fp, astray, stale, cards, query, loose>>
  BY DEF Unconfirmed, Finish, Goto, aside, memory, Answered
<1>2. /\ new \in Content /\ ~new.old /\ Len(log) < MaxVersion
      /\ log' = Append(log, new) /\ disk' = NextVersion
  BY <1>1, WritesContent
<1> HIDE DEF new
<1>3. /\ Grows /\ log' \in Seq(Content) /\ Len(log') = NextVersion
      /\ Len(log') <= MaxVersion /\ NextVersion \in Version
  BY <1>2, WriteGrows
<1>4. NoJob \in Job /\ NextVersion \in 0 .. NextVersion /\ Len(log) \in Nat
  BY <1>3 DEF NoJob, Job, Kind, Version, Inv, Typed
<1>5. Moves(w)
  BY <1>1, <1>2, <1>3, <1>4 DEF Moves, Same, Inv, Typed, Place
<1>6. Local(w)'
  <2>1. pc'[w] = "list"
    BY <1>1 DEF Inv, Typed
  <2>2. fp[w] \in 1 .. Len(log) /\ log'[fp[w]] = log[fp[w]] /\ fp[w] \in 0 .. Len(log')
    BY <1>1, <1>3, <1>4 DEF Inv, Local, OfItsVersion, Grows, Asking, NextVersion, NoFile
  <2>3. OfItsVersion(w)'
    BY <1>1, <2>1, <2>2 DEF Inv, Local, OfItsVersion, ListOfItsVersion, List, Shows, Asking
  <2>4. JobFits(w)'
    BY <1>1, <2>1 DEF Inv, Local, JobFits
  <2> QED
    BY <2>3, <2>4 DEF Local
<1> QED
  BY <1>3, <1>5, <1>6, StepOf
-----------------------------------------------------------------------------
LEMMA InitInv == Init => Inv
<1> SUFFICES ASSUME Init PROVE Inv
  OBVIOUS
<1>1. PICK first :
        /\ first \in Content /\ first.codes = NoCodes
        /\ log = <<first>> /\ disk = 1 /\ shown = {} /\ orphaned = {}
  <2>1. PICK entries \in First :
          log = << [entries |-> entries, key |-> 1, codes |-> NoCodes, old |-> OldFormat] >>
    BY DEF Init
  <2> DEFINE first == [entries |-> entries, key |-> 1, codes |-> NoCodes, old |-> OldFormat]
  <2>2. first \in Content /\ first.codes = NoCodes
    BY VersionAssumption, FormatAssumption, FirstAssumption
    DEF Content, Version, Fingerprint, NoCodes
  <2>3. log = <<first>> /\ disk = 1 /\ shown = {} /\ orphaned = {}
    BY <2>1 DEF Init
  <2> HIDE DEF first
  <2> QED
    BY <2>2, <2>3
<1>3. /\ log \in Seq(Content) /\ Len(log) = 1 /\ log[1] = first
  BY <1>1
<1>4. NoJob \in Job /\ <<>> \in Entries /\ <<>> \in Cards /\ 0 \in Fingerprint
  <2>1. NoJob \in Job /\ <<>> \in Entries /\ 0 \in Fingerprint
    BY VersionAssumption DEF NoJob, Job, Kind, Entries, Fingerprint
  <2>2. <<>> \in [{} -> Entry]
    OBVIOUS
  <2> QED
    BY <2>1, <2>2 DEF Cards
<1>5. Typed
  BY <1>1, <1>3, <1>4, VersionAssumption DEF Init, Typed, Place, NoCodes, NoFile
<1>6. ASSUME NEW w \in Window PROVE Local(w)
  <2>1. pc[w] = "closed" /\ fp[w] = 0 /\ loose[w] = NoJob
    BY DEF Init, NoFile
  <2> QED
    BY <1>1, <1>3, <2>1 DEF Local, OfItsVersion, ListOfItsVersion, List, JobFits, Shows, Asking
<1>7. OldHasNoCodes
  BY <1>1, <1>3 DEF OldHasNoCodes
<1> QED
  BY <1>5, <1>6, <1>7 DEF Inv

LEMMA NextInv == Inv /\ [Next]_vars => Inv'
<1> SUFFICES ASSUME Inv, [Next]_vars PROVE Inv'
  OBVIOUS
<1>1. ASSUME NEW w \in Window, Lock(w) \/ Destroy(w) \/ Killed(w) PROVE Inv'
  <2>1. orphaned \subseteq Version /\ (pc[w] = "showing" => codes[w] \in Version)
    BY DEF Inv, Typed, Local, JobFits
  <2>2. /\ Forget(w) /\ UNCHANGED <<log, shown>> /\ disk' \in {disk, NoFile}
        /\ orphaned' \subseteq Version
    BY <1>1, <2>1 DEF Lock, Destroy, Killed, seen
  <2> QED
    BY <2>2, ForgetStep
<1>2. CASE UNCHANGED vars
  <2>1. UNCHANGED <<log, disk, shown, orphaned, pc, data, codes, key, fp, astray, stale, cards, query, job, loose>>
    BY <1>2 DEF vars, memory, aside, seen
  <2> QED
    BY <2>1 DEF Inv, Typed, OldHasNoCodes, Local, OfItsVersion, ListOfItsVersion, List, JobFits, Shows
<1>3. CASE Next
  <2>1. PICK w \in Window :
          \/ Load(w) \/ Decrypt(w) \/ Migrate(w) \/ MigrateUnconfirmed(w)
          \/ GiveUp(w) \/ Create(w)
          \/ Lock(w) \/ Destroy(w) \/ Reload(w) \/ Refuse(w)
          \/ AddEntry(w) \/ EditEntry(w) \/ DeleteEntry(w) \/ Regenerate(w)
          \/ Search(w) \/ Generate(w) \/ GoBack(w)
          \/ Cancel(w) \/ Saved(w) \/ Regenerated(w) \/ ShowCodes(w) \/ Killed(w)
          \/ Refused(w) \/ Raised(w) \/ Unconfirmed(w)
          \/ Conflict(w) \/ ConflictReloaded(w) \/ ConflictKept(w)
    BY <1>3 DEF Next
  <2> QED
    BY <1>1, <2>1, LoadStep, DecryptStep, MigrateStep,
       MigrateUnconfirmedStep, CreateStep, ReloadStep,
       RefuseStep, ChangeStep, SearchStep, EndStep, GoBackStep, SavedStep,
       UnconfirmedStep, ConflictStep, KeptStep, ReloadedStep, RegeneratedStep,
       ShowCodesStep, RaisedStep
<1> QED
  BY <1>2, <1>3
-----------------------------------------------------------------------------
(***************************************************************************)
(* The theorems.                                                           *)
(***************************************************************************)

THEOREM WindowInvariance == Spec => []Inv
  BY InitInv, NextInv, PTL DEF Spec

(* Every variable keeps its type; in particular a window's fingerprint is  *)
(* that of a version that has been written, and its cards keep indices of  *)
(* entries.                                                                *)
THEOREM WindowTypes == Spec => []TypeOK
<1>1. Inv => TypeOK
  <2> SUFFICES ASSUME Inv PROVE TypeOK
    OBVIOUS
  <2>1. fp \in [Window -> 0 .. Len(log)]
    BY DEF Inv, Typed, Local, OfItsVersion
  <2>2. ASSUME NEW w \in Window
        PROVE  DOMAIN cards[w] \subseteq Nat \ {0} /\ Range(cards[w]) \subseteq Entry
    <3>1. cards[w] \in Cards
      BY DEF Inv, Typed
    <3>2. PICK shownAt \in SUBSET (Nat \ {0}) : cards[w] \in [shownAt -> Entry]
      BY <3>1 DEF Cards
    <3> QED
      BY <3>2 DEF Range
  <2>3. ASSUME NEW w \in Window, NEW j \in {job[w], loose[w]}
        PROVE  /\ j.kind \in Kind /\ j.idx \in Nat /\ j.left \in BOOLEAN
               /\ j.entry \in Entry \union {<<>>}
    <3>1. j \in Job
      BY DEF Inv, Typed
    <3> QED
      BY <3>1 DEF Job
  <2> QED
    BY <2>1, <2>2, <2>3 DEF Inv, Typed, TypeOK
<1> QED
  BY <1>1, WindowInvariance, PTL

(* Between operations a window's entries and recovery codes are exactly    *)
(* those of the version its fingerprint names, whatever saves have failed  *)
(* or conflicted and been undone; the entries, unless the last failed save *)
(* raised past _save or was undone in a list just reloaded.                *)
THEOREM MemoryMatches == Spec => []MemoryIsItsVersion
<1>1. Inv => MemoryIsItsVersion
  BY DEF Inv, Local, OfItsVersion, ListOfItsVersion, List, Shows, Idle, Asking,
     MemoryIsItsVersion
<1> QED
  BY <1>1, WindowInvariance, PTL

(* The card a user clicks is the entry the handler finds at that index,    *)
(* whatever has been searched, reloaded or undone (_refresh_list), once    *)
(* the list is drawn again after a save that raised past _save.            *)
THEOREM CardsMatch == Spec => []CardsShowMemory
<1>1. Inv => CardsShowMemory
  <2> SUFFICES ASSUME Inv, NEW w \in Window, pc[w] \in Idle, "undrawn" \notin astray[w]
               PROVE  /\ DOMAIN cards[w] \subseteq DOMAIN data[w]
                      /\ \A i \in DOMAIN data[w] :
                           IF Finds(query[w], data[w][i])
                             THEN i \in DOMAIN cards[w] /\ cards[w][i] = data[w][i]
                             ELSE i \notin DOMAIN cards[w]
    BY DEF CardsShowMemory
  <2>1. cards[w] = Drawn(data[w], query[w])
    BY DEF Inv, Local, OfItsVersion, ListOfItsVersion, List, Shows, Idle, Asking
  <2> QED
    BY <2>1 DEF Drawn
<1> QED
  BY <1>1, WindowInvariance, PTL
-----------------------------------------------------------------------------
(***************************************************************************)
(* What a write may change.  The dialog of an edit is about the entry it   *)
(* shows, unless it has been left open behind the main window.             *)
(***************************************************************************)

EditFits(w) ==
  /\ loose[w] = NoJob \/ loose[w].left
  /\ pc[w] = "editing" /\ ~job[w].left =>
       job[w].idx \in 1 .. Len(data[w]) /\ job[w].entry = data[w][job[w].idx]

EditInv == \A w \in Window : EditFits(w)

LEMMA EditStepOf ==
  ASSUME Inv, EditInv, NEW w \in Window, EditFits(w)',
         \A v \in Window \ {w} : /\ pc'[v] = pc[v] /\ data'[v] = data[v]
                                 /\ job'[v] = job[v] /\ loose'[v] = loose[v]
  PROVE  EditInv'
BY DEF EditInv, EditFits

(* A step after which the window shows no dialog of an edit.               *)
LEMMA EditQuiet ==
  ASSUME Inv, EditInv, NEW w \in Window, pc'[w] # "editing",
         loose'[w] = NoJob \/ loose'[w].left,
         \A v \in Window \ {w} : /\ pc'[v] = pc[v] /\ data'[v] = data[v]
                                 /\ job'[v] = job[v] /\ loose'[v] = loose[v]
  PROVE  EditInv'
BY EditStepOf DEF EditFits

LEMMA EditAsk ==
  ASSUME Inv, EditInv, NEW w \in Window, NEW place, NEW kind, NEW i \in Nat,
         Ask(w, place, kind, i), place = "editing" => i # 0
  PROVE  EditInv'
<1>1. pc[w] = "list" /\ loose' = loose /\ (loose[w] = NoJob \/ loose[w].left)
  BY DEF Ask, aside, EditInv, EditFits
<1>2. \A v \in Window \ {w} : data'[v] = data[v]
  <2>1. CASE UNCHANGED <<memory, stale, cards>>
    BY <2>1 DEF memory
  <2>2. CASE CanReload(w) /\ Reloaded(w)
    BY <2>2, ReloadedFrom
  <2> QED
    BY <2>1, <2>2 DEF Ask
<1>3. CASE i \in 0 .. Len(data'[w])
  <2> DEFINE new == [kind |-> kind, idx |-> i,
                     left |-> FALSE, entry |-> IF i = 0 THEN <<>> ELSE data'[w][i]]
  <2>1. pc' = [pc EXCEPT ![w] = place] /\ job' = [job EXCEPT ![w] = new]
    BY <1>3 DEF Ask, Goto
  <2>2. pc'[w] = place /\ job'[w] = new
    BY <2>1 DEF Inv, Typed
  <2>3. EditFits(w)'
    <3>1. place = "editing" => i \in 1 .. Len(data'[w])
      BY <1>3
    <3>2. new.idx = i /\ (place = "editing" => new.entry = data'[w][i])
      OBVIOUS
    <3> HIDE DEF new
    <3> QED
      BY <1>1, <2>2, <3>1, <3>2 DEF EditFits
  <2>4. \A v \in Window \ {w} : pc'[v] = pc[v] /\ job'[v] = job[v] /\ loose'[v] = loose[v]
    BY <1>1, <2>1 DEF Inv, Typed
  <2> QED
    BY <1>2, <2>3, <2>4, EditStepOf
<1>4. CASE i \notin 0 .. Len(data'[w])
  <2>1. UNCHANGED <<pc, job>>
    BY <1>4 DEF Ask
  <2> QED
    BY <1>1, <1>2, <2>1, EditQuiet
<1> QED
  BY <1>3, <1>4

LEMMA EditChange ==
  ASSUME Inv, EditInv, NEW w \in Window,
         AddEntry(w) \/ EditEntry(w) \/ DeleteEntry(w) \/ Regenerate(w)
  PROVE  EditInv'
<1>1. \A i \in DOMAIN cards[w] : i \in Nat /\ i # 0
  <2>1. cards[w] \in Cards
    BY DEF Inv, Typed
  <2>2. PICK shownAt \in SUBSET (Nat \ {0}) : cards[w] \in [shownAt -> Entry]
    BY <2>1 DEF Cards
  <2> QED
    BY <2>2
<1>2. CASE AddEntry(w)
  <2>1. Ask(w, "adding", "add", 0)
    BY <1>2 DEF AddEntry
  <2> QED
    BY <2>1, EditAsk
<1>3. CASE EditEntry(w)
  <2>1. PICK i \in DOMAIN cards[w] : Ask(w, "editing", "edit", i)
    BY <1>3 DEF EditEntry
  <2>2. i \in Nat /\ i # 0
    BY <1>1
  <2> QED
    BY <2>1, <2>2, EditAsk
<1>4. CASE DeleteEntry(w)
  <2>1. PICK i \in DOMAIN cards[w] : Ask(w, "deleting", "delete", i)
    BY <1>4 DEF DeleteEntry
  <2>2. i \in Nat
    BY <1>1
  <2> QED
    BY <2>1, <2>2, EditAsk
<1>5. CASE Regenerate(w)
  <2>1. Ask(w, "regenerating", "regenerate", 0)
    BY <1>5 DEF Regenerate
  <2> QED
    BY <2>1, EditAsk
<1> QED
  BY <1>2, <1>3, <1>4, <1>5

(* The dialogs that are left open, and gone back to.                       *)
LEMMA EditLeft ==
  ASSUME Inv, EditInv, NEW w \in Window, Generate(w) \/ GoBack(w)
  PROVE  EditInv'
<1>1. \A v \in Window \ {w} : /\ pc'[v] = pc[v] /\ data'[v] = data[v]
                              /\ job'[v] = job[v] /\ loose'[v] = loose[v]
  BY DEF Generate, GoBack, Finish, Goto, memory, Inv, Typed
<1>2. CASE Generate(w)
  <2>1. pc'[w] = "list" /\ loose'[w] = [job[w] EXCEPT !.left = TRUE] /\ job[w] \in Job
    BY <1>2 DEF Generate, Finish, Goto, Inv, Typed
  <2>2. loose'[w].left
    BY <2>1 DEF Job
  <2> QED
    BY <1>1, <2>1, <2>2, EditQuiet
<1>3. CASE GoBack(w)
  <2>1. job'[w] = loose[w] /\ loose'[w] = NoJob /\ loose[w].left
    BY <1>3 DEF GoBack, EditInv, EditFits, Inv, Typed
  <2> QED
    BY <1>1, <2>1, EditStepOf DEF EditFits
<1> QED
  BY <1>2, <1>3

(* Every other step ends at the list, or nowhere near a dialog.            *)
LEMMA EditStill ==
  ASSUME Inv, EditInv, NEW w \in Window,
         \/ Load(w) \/ Decrypt(w) \/ Migrate(w) \/ MigrateUnconfirmed(w)
          \/ GiveUp(w) \/ Create(w)
         \/ Lock(w) \/ Destroy(w) \/ Killed(w) \/ Reload(w) \/ Refuse(w) \/ Search(w)
         \/ Cancel(w) \/ Saved(w) \/ Regenerated(w) \/ ShowCodes(w)
         \/ Refused(w) \/ Raised(w) \/ Unconfirmed(w)
         \/ Conflict(w) \/ ConflictReloaded(w) \/ ConflictKept(w)
  PROVE  EditInv'
<1> USE DEF Goto, Inv, Typed
<1>1. loose[w] = NoJob \/ loose[w].left
  BY DEF EditInv, EditFits
<1>2. CASE Load(w) \/ GiveUp(w) \/ MigrateUnconfirmed(w)
  <2>1. pc'[w] # "editing" /\ UNCHANGED <<loose, job, data>>
    BY <1>2 DEF Load, GiveUp, MigrateUnconfirmed, aside
  <2>2. \A v \in Window \ {w} : pc'[v] = pc[v]
    BY <1>2 DEF Load, GiveUp, MigrateUnconfirmed
  <2> QED
    BY <1>1, <2>1, <2>2, EditQuiet
<1>3. CASE Decrypt(w) \/ Migrate(w) \/ Create(w)
  <2>1. pc'[w] # "editing" /\ UNCHANGED <<loose, job>>
    BY <1>3 DEF Decrypt, Migrate, Create, aside
  <2>2. \A v \in Window \ {w} : pc'[v] = pc[v] /\ data'[v] = data[v]
    BY <1>3 DEF Decrypt, Migrate, Create, Fill
  <2> QED
    BY <1>1, <2>1, <2>2, EditQuiet
<1>4. CASE Lock(w) \/ Destroy(w) \/ Killed(w)
  <2>1. Forget(w)
    BY <1>4 DEF Lock, Destroy, Killed
  <2>2. pc'[w] # "editing" /\ loose'[w] = NoJob
    BY <2>1 DEF Forget
  <2>3. \A v \in Window \ {w} : /\ pc'[v] = pc[v] /\ data'[v] = data[v]
                                /\ job'[v] = job[v] /\ loose'[v] = loose[v]
    BY <2>1 DEF Forget
  <2> QED
    BY <2>2, <2>3, EditQuiet
<1>5. CASE Reload(w)
  <2>1. pc[w] = "list" /\ UNCHANGED <<pc, job, loose>>
    BY <1>5 DEF Reload, aside
  <2>2. \A v \in Window \ {w} : data'[v] = data[v]
    BY <1>5 DEF Reload, Reloaded, Fill
  <2> QED
    BY <1>1, <2>1, <2>2, EditQuiet
<1>6. CASE Refuse(w) \/ Search(w)
  <2>1. pc[w] = "list" /\ UNCHANGED <<pc, data, job, loose>>
    BY <1>6 DEF Refuse, Search, aside, memory
  <2> QED
    BY <1>1, <2>1, EditQuiet
<1>7. CASE \/ Cancel(w) \/ Saved(w) \/ Refused(w) \/ Raised(w) \/ Unconfirmed(w)
           \/ ConflictReloaded(w) \/ ConflictKept(w)
  <2>1. Finish(w) /\ loose' = loose
    BY <1>7
    DEF Cancel, Saved, Refused, Raised, Unconfirmed, ConflictReloaded, ConflictKept, aside
  <2>2. pc'[w] # "editing" /\ \A v \in Window \ {w} : pc'[v] = pc[v] /\ job'[v] = job[v]
    BY <2>1 DEF Finish
  <2>3. \A v \in Window \ {w} : data'[v] = data[v]
    BY <1>7
    DEF Cancel, Saved, Refused, Raised, Unconfirmed, ConflictReloaded, ConflictKept, memory
  <2> QED
    BY <1>1, <2>1, <2>2, <2>3, EditQuiet
<1>8. CASE Regenerated(w) \/ ShowCodes(w)
  <2>1. pc'[w] # "editing" /\ UNCHANGED <<data, loose>>
    BY <1>8 DEF Regenerated, ShowCodes, memory, aside
  <2>2. \A v \in Window \ {w} : pc'[v] = pc[v] /\ job'[v] = job[v]
    BY <1>8 DEF Regenerated, ShowCodes
  <2> QED
    BY <1>1, <2>1, <2>2, EditQuiet
<1>9. CASE Conflict(w)
  <2>1. pc'[w] # "editing" /\ loose' = loose
    BY <1>9 DEF Conflict, aside
  <2>2. \A v \in Window \ {w} : pc'[v] = pc[v] /\ data'[v] = data[v] /\ job'[v] = job[v]
    BY <1>9 DEF Conflict
  <2> QED
    BY <1>1, <2>1, <2>2, EditQuiet
<1> QED
  BY <1>2, <1>3, <1>4, <1>5, <1>6, <1>7, <1>8, <1>9

LEMMA NextEdit == Inv /\ EditInv /\ [Next]_vars => EditInv'
<1> SUFFICES ASSUME Inv, EditInv, [Next]_vars PROVE EditInv'
  OBVIOUS
<1>1. CASE UNCHANGED vars
  <2>1. UNCHANGED <<pc, data, job, loose>>
    BY <1>1 DEF vars, memory, aside
  <2> QED
    BY <2>1 DEF EditInv, EditFits
<1>2. CASE Next
  BY <1>2, EditChange, EditLeft, EditStill DEF Next
<1> QED
  BY <1>1, <1>2

(* The write of a change carries the change, and nothing else.             *)
LEMMA ChangeIsRequested ==
  ASSUME Inv, EditInv, NEW w \in Window, Answered(w)
  PROVE  Requested(w, data[w], Changed(w))
<1> DEFINE s == data[w]
           new == NewEntry(w)
           i == job[w].idx
<1>1. s \in Seq(Entry) /\ Len(s) \in Nat /\ job[w] \in Job
  BY DEF Inv, Typed, Entries
<1>2. new \in Entry
  BY VersionAssumption DEF Inv, Typed, NewEntry, NextVersion, Entry
<1>3. pc[w] \in Asking /\ JobFits(w) /\ EditFits(w)
  BY DEF Answered, Inv, Local, EditInv
<1>4. CASE pc[w] = "adding"
  <2>1. Changed(w) = Append(s, new)
    BY <1>3, <1>4 DEF JobFits, Changed
  <2>2. Append(s, new) # <<>> /\ Front(Append(s, new)) = s
    BY <1>1, <1>2, FrontAppend
  <2> QED
    BY <1>4, <2>1, <2>2 DEF Requested
<1>5. CASE pc[w] = "editing"
  <2>1. /\ Changed(w) = [s EXCEPT ![i] = new]
        /\ i \in 1 .. Len(s) /\ (s[i] = job[w].entry \/ job[w].left)
    BY <1>1, <1>3, <1>5 DEF JobFits, EditFits, Changed, ReplaceAt, Answered
  <2>2. /\ Len([s EXCEPT ![i] = new]) = Len(s)
        /\ \A j \in 1 .. Len(s) :
             [s EXCEPT ![i] = new][j] = IF j = i THEN new ELSE s[j]
    BY <1>1, <1>2, <2>1, ExceptSeq
  <2>3. DOMAIN s = 1 .. Len(s)
    BY <1>1
  <2> QED
    BY <1>5, <2>1, <2>2, <2>3 DEF Requested
<1>6. CASE pc[w] = "deleting"
  <2>1. /\ Changed(w) = RemoveAt(s, i)
        /\ i \in 1 .. Len(s) /\ s[i] = job[w].entry
    BY <1>3, <1>6 DEF JobFits, Changed
  <2>2. DOMAIN s = 1 .. Len(s)
    BY <1>1
  <2> QED
    BY <1>6, <2>1, <2>2 DEF Requested
<1>7. CASE pc[w] = "regenerating"
  <2>1. Changed(w) = s
    BY <1>3, <1>7 DEF JobFits, Changed
  <2> QED
    BY <1>7, <2>1 DEF Requested
<1> QED
  BY <1>3, <1>4, <1>5, <1>6, <1>7 DEF Asking

(* What a save of window w puts on disk.                                   *)
LEMMA SaveIsRequested ==
  ASSUME Inv, EditInv, NEW w \in Window, Answered(w), Write(w), fp[w] = disk
  PROVE  Requested(w, Base(w), log'[disk'].entries)
<1> DEFINE new == [entries |-> Changed(w), key |-> key[w],
                   codes |-> NewCodes(w), old |-> FALSE]
<1>1. /\ new \in Content /\ ~new.old /\ Len(log) < MaxVersion
      /\ log' = Append(log, new) /\ disk' = NextVersion
  BY WritesContent
<1>2. log'[disk'] = new
  BY <1>1, WriteGrows
<1>3. Base(w) = data[w]
  BY DEF Base, Answered, Inv, Local, OfItsVersion, ListOfItsVersion, List, Shows, Asking
<1> QED
  BY <1>2, <1>3, ChangeIsRequested

(* No write loses, resurrects or rewrites an entry its user did not        *)
(* choose, whatever other windows have written meanwhile and whatever has  *)
(* failed, except that a migration writes what it has read, that what a    *)
(* failed save has left in memory goes with the next one, and that an edit *)
(* left open behind the main window changes what is at its index (_on_add, *)
(* _on_edit, _delete_entry_at, _regenerate_recovery, _save).               *)
THEOREM WritesAreRequested == Spec => WritesOnlyTheChange
<1> DEFINE Change ==
      Overwrites =>
        \E w \in Window : pc'[w] # pc[w] /\ Requested(w, Base(w), log'[disk'].entries)
<1>1. Inv /\ EditInv /\ [Next]_vars => [Change]_vars
  <2> SUFFICES ASSUME Inv, EditInv, Next, Overwrites PROVE Change
    OBVIOUS
  <2>1. PICK w \in Window :
          \/ Load(w) \/ Decrypt(w) \/ Migrate(w) \/ MigrateUnconfirmed(w)
          \/ GiveUp(w) \/ Create(w)
          \/ Lock(w) \/ Destroy(w) \/ Reload(w) \/ Refuse(w)
          \/ AddEntry(w) \/ EditEntry(w) \/ DeleteEntry(w) \/ Regenerate(w)
          \/ Search(w) \/ Generate(w) \/ GoBack(w)
          \/ Cancel(w) \/ Saved(w) \/ Regenerated(w) \/ ShowCodes(w) \/ Killed(w)
          \/ Refused(w) \/ Raised(w) \/ Unconfirmed(w)
          \/ Conflict(w) \/ ConflictReloaded(w) \/ ConflictKept(w)
    BY DEF Next
  <2>2. CASE Migrate(w) \/ MigrateUnconfirmed(w)
    <3>1. /\ Rewrite(w) /\ disk' = NextVersion
          /\ pc[w] = "loaded" /\ pc'[w] \in {"list", "closed"}
      BY <2>2 DEF Migrate, MigrateUnconfirmed, Rewrite, Goto, Inv, Typed
    <3>2. Base(w) = log[fp[w]].entries
      BY <3>1 DEF Base
    <3>3. log'[disk'].entries = log[fp[w]].entries
      BY <3>1, RewritesContent
    <3>4. Requested(w, Base(w), log'[disk'].entries)
      BY <3>1, <3>2, <3>3 DEF Requested
    <3>5. pc'[w] # pc[w]
      BY <3>1
    <3> QED
      BY <3>4, <3>5, Zenon
  <2>3. CASE Create(w)
    BY <2>3 DEF Create, Overwrites
  <2>4. CASE Saved(w) \/ Regenerated(w) \/ Unconfirmed(w)
    <3>1. Answered(w) /\ Write(w) /\ fp[w] = disk
      BY <2>4 DEF Saved, Regenerated, Unconfirmed
    <3>2. pc[w] \in Asking /\ pc'[w] \in {"list", "showing"}
      BY <2>4 DEF Saved, Regenerated, Unconfirmed, Answered, Finish, Goto, Inv, Typed
    <3> QED
      BY <3>1, <3>2, SaveIsRequested DEF Asking
  <2>5. CASE Destroy(w)
    BY <2>5 DEF Destroy, Overwrites
  <2>6. CASE \/ Load(w) \/ Decrypt(w) \/ GiveUp(w) \/ Lock(w) \/ Reload(w) \/ Refuse(w)
             \/ Search(w) \/ Generate(w) \/ GoBack(w) \/ Cancel(w) \/ Refused(w)
             \/ ShowCodes(w) \/ Killed(w) \/ Raised(w)
             \/ Conflict(w) \/ ConflictReloaded(w) \/ ConflictKept(w)
    BY <2>6 DEF Load, Decrypt, GiveUp, Lock, Reload, Refuse, Search, Generate, GoBack,
       Cancel, Refused, ShowCodes, Killed, Raised, Conflict, ConflictReloaded,
       ConflictKept, Overwrites
  <2>7. CASE AddEntry(w) \/ EditEntry(w) \/ DeleteEntry(w) \/ Regenerate(w)
    BY <2>7 DEF AddEntry, EditEntry, DeleteEntry, Regenerate, Ask, Overwrites
  <2> QED
    BY <2>1, <2>2, <2>3, <2>4, <2>5, <2>6, <2>7
<1>2. Init => EditInv
  BY DEF Init, EditInv, EditFits
<1>3. Inv /\ EditInv /\ [Next]_vars => EditInv'
  BY NextEdit
<1>4. Spec => []Inv
  BY WindowInvariance
<1> QED
  BY <1>1, <1>2, <1>3, <1>4, PTL DEF Spec, WritesOnlyTheChange
-----------------------------------------------------------------------------
(***************************************************************************)
(* Recovery codes: every set a version holds has been displayed, is about  *)
(* to be, or is known to have been lost.                                   *)
(***************************************************************************)

Pending == {codes[w] : w \in {v \in Window : pc[v] = "showing"}}
Accounted == {NoCodes} \union shown \union orphaned \union Pending

CodesInv == \A version \in 1 .. Len(log) : log[version].codes \in Accounted

(* Codes stay accounted for: a window that was about to display its own    *)
(* has done so, or has died.                                               *)
LEMMA StillAccounted ==
  ASSUME NEW w \in Window, shown \subseteq shown', orphaned \subseteq orphaned',
         pc[w] = "showing" => codes[w] \in shown' \union orphaned',
         \A v \in Window \ {w} : pc'[v] = pc[v] /\ codes'[v] = codes[v]
  PROVE  Accounted \subseteq Accounted'
BY DEF Accounted, Pending

LEMMA CodesStill ==
  ASSUME CodesInv, log' = log, NEW w \in Window,
         shown \subseteq shown', orphaned \subseteq orphaned',
         pc[w] = "showing" => codes[w] \in shown' \union orphaned',
         \A v \in Window \ {w} : pc'[v] = pc[v] /\ codes'[v] = codes[v]
  PROVE  CodesInv'
BY StillAccounted DEF CodesInv

LEMMA CodesWrite ==
  ASSUME Inv, CodesInv, NEW new \in Content, new.old => new.codes = NoCodes,
         Len(log) < MaxVersion, log' = Append(log, new), new.codes \in Accounted',
         NEW w \in Window, pc[w] # "showing",
         shown \subseteq shown', orphaned \subseteq orphaned',
         \A v \in Window \ {w} : pc'[v] = pc[v] /\ codes'[v] = codes[v]
  PROVE  CodesInv'
<1>1. /\ Len(log') = Len(log) + 1 /\ log'[Len(log) + 1] = new /\ Len(log) \in Nat
      /\ \A version \in 1 .. Len(log) : log'[version] = log[version]
  BY WriteGrows, Length DEF Inv, Grows, NextVersion
<1>2. Accounted \subseteq Accounted'
  BY StillAccounted
<1>3. ASSUME NEW version \in 1 .. Len(log') PROVE log'[version].codes \in Accounted'
  <2>1. CASE version \in 1 .. Len(log)
    BY <1>1, <1>2, <2>1 DEF CodesInv
  <2>2. CASE version = Len(log) + 1
    BY <1>1, <2>2
  <2> QED
    BY <1>1, <2>1, <2>2
<1> QED
  BY <1>3 DEF CodesInv

LEMMA CodesAsk ==
  ASSUME Inv, CodesInv, NEW w \in Window, NEW place, NEW kind, NEW i,
         Ask(w, place, kind, i)
  PROVE  CodesInv'
<1>1. pc[w] = "list" /\ UNCHANGED <<log, shown, orphaned>>
  BY DEF Ask, seen
<1>2. \A v \in Window \ {w} : pc'[v] = pc[v]
  BY DEF Ask, Goto, Inv, Typed
<1>3. \A v \in Window \ {w} : codes'[v] = codes[v]
  <2>1. CASE UNCHANGED <<memory, stale, cards>>
    BY <2>1 DEF memory
  <2>2. CASE CanReload(w) /\ Reloaded(w)
    BY <2>2, ReloadedFrom
  <2> QED
    BY <2>1, <2>2 DEF Ask
<1> QED
  BY <1>1, <1>2, <1>3, CodesStill

(* A save takes the codes of its version along, or makes new ones that it  *)
(* is about to display or has lost.                                        *)
LEMMA CodesSaved ==
  ASSUME Inv, CodesInv, NEW w \in Window,
         Saved(w) \/ Regenerated(w) \/ Unconfirmed(w)
  PROVE  CodesInv'
<1> DEFINE new == [entries |-> Changed(w), key |-> key[w],
                   codes |-> NewCodes(w), old |-> FALSE]
<1>1. Answered(w) /\ Write(w) /\ pc[w] \in Asking
  BY DEF Saved, Regenerated, Unconfirmed, Answered
<1>2. /\ new \in Content /\ ~new.old /\ Len(log) < MaxVersion
      /\ log' = Append(log, new) /\ new.codes = NewCodes(w)
  BY <1>1, WritesContent
<1> HIDE DEF new
<1>3. /\ shown \subseteq shown' /\ orphaned \subseteq orphaned' /\ pc[w] # "showing"
      /\ \A v \in Window \ {w} : pc'[v] = pc[v] /\ codes'[v] = codes[v]
  <2>1. \A v \in Window \ {w} : pc'[v] = pc[v]
    BY DEF Saved, Regenerated, Unconfirmed, Finish, Goto, Inv, Typed
  <2>2. \A v \in Window \ {w} : codes'[v] = codes[v]
    BY DEF Saved, Regenerated, Unconfirmed, memory, Inv, Typed
  <2>3. shown \subseteq shown' /\ orphaned \subseteq orphaned'
    BY DEF Saved, Regenerated, Unconfirmed, seen
  <2> QED
    BY <1>1, <2>1, <2>2, <2>3 DEF Asking
<1>4. NewCodes(w) \in Accounted'
  <2>1. CASE job[w].kind # "regenerate"
    <3>1. NewCodes(w) = log[fp[w]].codes /\ fp[w] \in 1 .. Len(log)
      BY <1>1, <2>1
      DEF NewCodes, Inv, Typed, Local, OfItsVersion, Shows, Asking, NoFile
    <3>2. Accounted \subseteq Accounted'
      BY <1>3, StillAccounted
    <3> QED
      BY <3>1, <3>2 DEF CodesInv
  <2>2. CASE job[w].kind = "regenerate" /\ Regenerated(w)
    <3>1. pc'[w] = "showing" /\ codes'[w] = NewCodes(w)
      BY <2>2 DEF Regenerated, Goto, Inv, Typed
    <3> QED
      BY <3>1 DEF Accounted, Pending
  <2>3. CASE job[w].kind = "regenerate" /\ Unconfirmed(w)
    <3>1. NewCodes(w) \in orphaned'
      BY <2>3 DEF Unconfirmed, NewCodes
    <3> QED
      BY <3>1 DEF Accounted
  <2> QED
    BY <2>1, <2>2, <2>3 DEF Saved
<1> QED
  BY <1>2, <1>3, <1>4, CodesWrite

LEMMA CodesMade ==
  ASSUME Inv, CodesInv, NEW w \in Window,
         Migrate(w) \/ MigrateUnconfirmed(w) \/ Create(w)
  PROVE  CodesInv'
<1>1. PICK entries \in Entries :
        /\ Len(log) < MaxVersion
        /\ log' = Append(log, [entries |-> entries, key |-> NextVersion,
                               codes |-> NoCodes, old |-> FALSE])
  <2>1. CASE Migrate(w) \/ MigrateUnconfirmed(w)
    <3>1. Rewrite(w)
      BY <2>1 DEF Migrate, MigrateUnconfirmed
    <3>2. log[fp[w]].entries \in Entries
      BY <3>1, RewritesContent DEF Content
    <3> QED
      BY <3>1, <3>2 DEF Rewrite, Migrated
  <2>2. CASE Create(w)
    <3>1. <<>> \in Entries
      BY DEF Entries
    <3> QED
      BY <2>2, <3>1 DEF Create
  <2> QED
    BY <2>1, <2>2
<1> DEFINE new == [entries |-> entries, key |-> NextVersion,
                   codes |-> NoCodes, old |-> FALSE]
<1>2. new \in Content /\ ~new.old /\ new.codes = NoCodes
  BY <1>1, Length, VersionAssumption
  DEF Inv, Content, NextVersion, Version, Fingerprint, NoCodes
<1> HIDE DEF new
<1>3. pc[w] # "showing" /\ UNCHANGED <<shown, orphaned>>
  BY DEF Migrate, MigrateUnconfirmed, Rewrite, Create, seen
<1>4. \A v \in Window \ {w} : pc'[v] = pc[v] /\ codes'[v] = codes[v]
  BY DEF Migrate, MigrateUnconfirmed, Create, Fill, Goto, Inv, Typed
<1>5. new.codes \in Accounted'
  BY <1>2 DEF Accounted
<1>6. log' = Append(log, new)
  BY <1>1 DEF new
<1> QED
  BY <1>1, <1>2, <1>3, <1>4, <1>5, <1>6, CodesWrite

LEMMA NextCodes == Inv /\ CodesInv /\ [Next]_vars => CodesInv'
<1> SUFFICES ASSUME Inv, CodesInv, [Next]_vars PROVE CodesInv'
  OBVIOUS
<1>1. CASE UNCHANGED vars
  BY <1>1 DEF vars, memory, seen, CodesInv, Accounted, Pending
<1>2. ASSUME NEW w \in Window,
             AddEntry(w) \/ EditEntry(w) \/ DeleteEntry(w) \/ Regenerate(w)
      PROVE  CodesInv'
  BY <1>2, CodesAsk DEF AddEntry, EditEntry, DeleteEntry, Regenerate
<1>3. ASSUME NEW w \in Window,
             \/ Load(w) \/ GiveUp(w) \/ Search(w) \/ Generate(w) \/ GoBack(w)
             \/ Cancel(w) \/ Refused(w) \/ Raised(w) \/ Refuse(w) \/ Conflict(w)
             \/ ConflictKept(w)
      PROVE  CodesInv'
  <2>1. UNCHANGED <<log, shown, orphaned, codes>> /\ pc[w] # "showing"
    BY <1>3
    DEF Load, GiveUp, Search, Generate, GoBack, Cancel, Refused, Raised, Refuse, Conflict,
        ConflictKept, memory, seen, Answered, Asking
  <2>2. \A v \in Window \ {w} : pc'[v] = pc[v]
    BY <1>3
    DEF Load, GiveUp, Search, Generate, GoBack, Cancel, Refused, Raised, Refuse, Conflict,
        ConflictKept, Finish, Goto, Inv, Typed
  <2> QED
    BY <2>1, <2>2, CodesStill
<1>4. ASSUME NEW w \in Window,
             Decrypt(w) \/ Reload(w) \/ ConflictReloaded(w) \/ Lock(w) \/ Destroy(w)
      PROVE  CodesInv'
  <2>1. UNCHANGED <<log, shown, orphaned>> /\ pc[w] # "showing"
    BY <1>4 DEF Decrypt, Reload, ConflictReloaded, Lock, Destroy, seen
  <2>2. \A v \in Window \ {w} : pc'[v] = pc[v]
    BY <1>4
    DEF Decrypt, Reload, ConflictReloaded, Lock, Destroy, Forget, Finish, Goto, Inv, Typed
  <2>3. \A v \in Window \ {w} : codes'[v] = codes[v]
    BY <1>4
    DEF Decrypt, Reload, Reloaded, Fill, ConflictReloaded, Lock, Destroy, Forget, Inv, Typed
  <2> QED
    BY <2>1, <2>2, <2>3, CodesStill
<1>5. ASSUME NEW w \in Window, ShowCodes(w) \/ Killed(w) PROVE CodesInv'
  <2>1. /\ log' = log /\ shown \subseteq shown' /\ orphaned \subseteq orphaned'
        /\ codes[w] \in shown' \union orphaned'
    BY <1>5 DEF ShowCodes, Killed
  <2>2. \A v \in Window \ {w} : pc'[v] = pc[v] /\ codes'[v] = codes[v]
    BY <1>5 DEF ShowCodes, Killed, Forget, Goto, memory, Inv, Typed
  <2> QED
    BY <2>1, <2>2, CodesStill
<1>6. CASE Next
  BY <1>2, <1>3, <1>4, <1>5, <1>6, CodesSaved, CodesMade DEF Next
<1> QED
  BY <1>1, <1>6

(* Recovery codes that open the vault on disk have been displayed, unless  *)
(* their window is just about to, its process died there, or their save    *)
(* was not confirmed (_regenerate_recovery 855-875), whatever fails and    *)
(* users answer and from whatever format the vault comes.                  *)
THEOREM CodesWereShown == Spec => []CodesOnDiskWereShown
<1>1. Init => CodesInv
  <2> SUFFICES ASSUME Init PROVE CodesInv
    OBVIOUS
  <2>1. Len(log) = 1 /\ log[1].codes = NoCodes
    BY DEF Init
  <2> QED
    BY <2>1 DEF CodesInv, Accounted
<1>2. Inv /\ CodesInv => CodesOnDiskWereShown
  BY DEF Inv, Typed, CodesInv, Accounted, Pending, CodesOnDiskWereShown, NoFile
<1> QED
  BY <1>1, <1>2, WindowInvariance, NextCodes, PTL DEF Spec
-----------------------------------------------------------------------------
(***************************************************************************)
(* What opens the vault, whatever users answer and open from their         *)
(* dialogs.  The VMK in memory is that of the version the fingerprint      *)
(* names, as the recovery codes are.                                       *)
(***************************************************************************)

NoneOld == \A version \in 1 .. Len(log) : ~log[version].old

KeyInv == NoneOld /\ \A w \in Window : Shows(w) => key[w] = log[fp[w]].key

LEMMA KeyStep ==
  ASSUME Inv, KeyInv, Grows, NoneOld', NEW w \in Window,
         \A v \in Window \ {w} : pc'[v] = pc[v] /\ key'[v] = key[v] /\ fp'[v] = fp[v],
         Shows(w)' => key'[w] = log'[fp'[w]].key
  PROVE  KeyInv'
<1>1. ASSUME NEW v \in Window \ {w}, Shows(v)' PROVE key'[v] = log'[fp'[v]].key
  <2>1. Shows(v) /\ key'[v] = key[v] /\ fp'[v] = fp[v]
    BY <1>1 DEF Shows
  <2>2. fp[v] \in 1 .. Len(log)
    BY <2>1 DEF Inv, Typed, Local, OfItsVersion, Shows, Asking, NoFile
  <2> QED
    BY <2>1, <2>2 DEF KeyInv, Grows
<1> QED
  BY <1>1 DEF KeyInv

(* A step that writes nothing.                                             *)
LEMMA KeyStill ==
  ASSUME Inv, KeyInv, log' = log, NEW w \in Window,
         \A v \in Window \ {w} : pc'[v] = pc[v] /\ key'[v] = key[v] /\ fp'[v] = fp[v],
         Shows(w)' => key'[w] = log[fp'[w]].key
  PROVE  KeyInv'
<1>1. Grows /\ NoneOld'
  BY SameLogGrows DEF KeyInv, NoneOld
<1> QED
  BY <1>1, KeyStep

LEMMA KeyWrite ==
  ASSUME Inv, KeyInv, NEW new \in Content, ~new.old, Len(log) < MaxVersion,
         log' = Append(log, new), NEW w \in Window,
         \A v \in Window \ {w} : pc'[v] = pc[v] /\ key'[v] = key[v] /\ fp'[v] = fp[v],
         \/ key'[w] = new.key /\ fp'[w] = NextVersion
         \/ Shows(w) /\ key'[w] = key[w] /\ fp'[w] = fp[w]
  PROVE  KeyInv'
<1>1. /\ Grows /\ Len(log') = NextVersion /\ NextVersion \in Version
      /\ log'[NextVersion] = new /\ Len(log) \in Nat
  BY WriteGrows, Length DEF Inv
<1>2. NoneOld'
  BY <1>1 DEF KeyInv, NoneOld, Grows, NextVersion
<1>3. CASE key'[w] = new.key /\ fp'[w] = NextVersion
  BY <1>1, <1>2, <1>3, KeyStep
<1>4. CASE Shows(w) /\ key'[w] = key[w] /\ fp'[w] = fp[w]
  <2>1. fp[w] \in 1 .. Len(log)
    BY <1>4 DEF Inv, Typed, Local, OfItsVersion, Shows, Asking, NoFile
  <2>2. key'[w] = log'[fp'[w]].key
    BY <1>1, <1>4, <2>1 DEF KeyInv, Grows
  <2> QED
    BY <1>1, <1>2, <2>2, KeyStep
<1> QED
  BY <1>3, <1>4

LEMMA KeyReloaded ==
  ASSUME Inv, NEW w \in Window, CanReload(w), Reloaded(w)
  PROVE  /\ key'[w] = log[fp'[w]].key
         /\ \A v \in Window \ {w} : key'[v] = key[v] /\ fp'[v] = fp[v]
BY DEF CanReload, Reloaded, Fill, Inv, Typed

LEMMA KeyAsk ==
  ASSUME Inv, KeyInv, NEW w \in Window, NEW place, NEW kind, NEW i,
         Ask(w, place, kind, i)
  PROVE  KeyInv'
<1>1. pc[w] = "list" /\ log' = log /\ \A v \in Window \ {w} : pc'[v] = pc[v]
  BY DEF Ask, Goto, Inv, Typed
<1>2. /\ key'[w] = log[fp'[w]].key
      /\ \A v \in Window \ {w} : key'[v] = key[v] /\ fp'[v] = fp[v]
  <2>1. CASE UNCHANGED <<memory, stale, cards>>
    BY <1>1, <2>1 DEF memory, KeyInv, Shows
  <2>2. CASE CanReload(w) /\ Reloaded(w)
    BY <2>2, KeyReloaded
  <2> QED
    BY <2>1, <2>2 DEF Ask
<1> QED
  BY <1>1, <1>2, KeyStill

LEMMA NextKey == Inv /\ KeyInv /\ [Next]_vars => KeyInv'
<1> SUFFICES ASSUME Inv, KeyInv, [Next]_vars PROVE KeyInv'
  OBVIOUS
<1>1. CASE UNCHANGED vars
  <2>1. UNCHANGED <<log, pc, key, fp>>
    BY <1>1 DEF vars, memory
  <2> QED
    BY <2>1 DEF KeyInv, NoneOld, Shows
<1>2. ASSUME NEW w \in Window,
             AddEntry(w) \/ EditEntry(w) \/ DeleteEntry(w) \/ Regenerate(w)
      PROVE  KeyInv'
  BY <1>2, KeyAsk DEF AddEntry, EditEntry, DeleteEntry, Regenerate
<1>3. ASSUME NEW w \in Window,
             \/ Search(w) \/ Generate(w) \/ GoBack(w) \/ Cancel(w) \/ Refused(w)
             \/ Raised(w) \/ ShowCodes(w) \/ Refuse(w) \/ Conflict(w) \/ ConflictKept(w)
      PROVE  KeyInv'
  <2>1. UNCHANGED <<log, key, fp>> /\ Shows(w)
    BY <1>3
    DEF Search, Generate, GoBack, Cancel, Refused, Raised, ShowCodes, Refuse, Conflict,
        ConflictKept, memory, Shows, Answered, Asking
  <2>2. \A v \in Window \ {w} : pc'[v] = pc[v]
    BY <1>3
    DEF Search, Generate, GoBack, Cancel, Refused, Raised, ShowCodes, Refuse, Conflict,
        ConflictKept, Finish, Goto, Inv, Typed
  <2> QED
    BY <2>1, <2>2, KeyStill DEF KeyInv
<1>4. ASSUME NEW w \in Window, Load(w) \/ GiveUp(w) \/ Lock(w) \/ Destroy(w) \/ Killed(w)
      PROVE  KeyInv'
  <2>1. log' = log /\ pc'[w] \in {"loaded", "closed"}
    BY <1>4 DEF Load, GiveUp, Lock, Destroy, Killed, Forget, Goto, Inv, Typed
  <2>2. \A v \in Window \ {w} : pc'[v] = pc[v] /\ key'[v] = key[v] /\ fp'[v] = fp[v]
    BY <1>4 DEF Load, GiveUp, Lock, Destroy, Killed, Forget, Goto, Inv, Typed
  <2> QED
    BY <2>1, <2>2, KeyStill DEF Shows, Asking
<1>5. ASSUME NEW w \in Window, Decrypt(w) PROVE KeyInv'
  <2>1. log' = log /\ fp'[w] = fp[w] /\ key'[w] = log[fp[w]].key
    BY <1>5 DEF Decrypt, Fill, Inv, Typed
  <2>2. \A v \in Window \ {w} : pc'[v] = pc[v] /\ key'[v] = key[v] /\ fp'[v] = fp[v]
    BY <1>5 DEF Decrypt, Fill, Goto, Inv, Typed
  <2> QED
    BY <2>1, <2>2, KeyStill
<1>6. ASSUME NEW w \in Window, Migrate(w) \/ MigrateUnconfirmed(w) PROVE KeyInv'
  <2>1. fp[w] \in 1 .. Len(log) /\ log[fp[w]].old
    BY <1>6 DEF Migrate, MigrateUnconfirmed, Rewrite, Inv, Typed, Local, OfItsVersion, NoFile
  <2> QED
    BY <2>1 DEF KeyInv, NoneOld
<1>7. ASSUME NEW w \in Window, Create(w) PROVE KeyInv'
  <2> DEFINE new == [entries |-> <<>>, key |-> NextVersion, codes |-> NoCodes, old |-> FALSE]
  <2>1. /\ Len(log) < MaxVersion /\ log' = Append(log, new) /\ Fill(w, new, NextVersion)
        /\ pc' = [pc EXCEPT ![w] = "list"]
    BY <1>7 DEF Create, Goto
  <2>2. new \in Content /\ ~new.old
    BY <2>1, Length, VersionAssumption
    DEF Inv, Typed, Content, Entries, NextVersion, Version, Fingerprint, NoCodes
  <2> HIDE DEF new
  <2>3. /\ key'[w] = new.key /\ fp'[w] = NextVersion
        /\ \A v \in Window \ {w} : pc'[v] = pc[v] /\ key'[v] = key[v] /\ fp'[v] = fp[v]
    BY <2>1 DEF Fill, Inv, Typed
  <2> QED
    BY <2>1, <2>2, <2>3, KeyWrite
<1>8. ASSUME NEW w \in Window, Reload(w) PROVE KeyInv'
  <2>1. log' = log /\ pc' = pc /\ CanReload(w) /\ Reloaded(w)
    BY <1>8 DEF Reload
  <2> QED
    BY <2>1, KeyReloaded, KeyStill
<1>9. ASSUME NEW w \in Window, ConflictReloaded(w) PROVE KeyInv'
  <2>1. log' = log /\ key' = key /\ fp' = [fp EXCEPT ![w] = disk] /\ log[disk].key = key[w]
    BY <1>9 DEF ConflictReloaded, CanReload
  <2>2. fp'[w] = disk /\ \A v \in Window \ {w} : pc'[v] = pc[v] /\ fp'[v] = fp[v]
    BY <1>9, <2>1 DEF ConflictReloaded, Finish, Goto, Inv, Typed
  <2> QED
    BY <2>1, <2>2, KeyStill
<1>10. ASSUME NEW w \in Window, Saved(w) \/ Regenerated(w) \/ Unconfirmed(w)
       PROVE  KeyInv'
  <2> DEFINE new == [entries |-> Changed(w), key |-> key[w],
                     codes |-> NewCodes(w), old |-> FALSE]
  <2>1. /\ Answered(w) /\ Write(w) /\ Shows(w) /\ key' = key
        /\ \A v \in Window \ {w} : pc'[v] = pc[v]
    BY <1>10
    DEF Saved, Regenerated, Unconfirmed, memory, Answered, Shows, Finish, Goto, Inv, Typed
  <2>2. /\ new \in Content /\ ~new.old /\ Len(log) < MaxVersion
        /\ log' = Append(log, new) /\ new.key = key[w]
    BY <2>1, WritesContent
  <2> HIDE DEF new
  <2>3. fp' = [fp EXCEPT ![w] = NextVersion] \/ fp' = fp
    BY <1>10 DEF Saved, Regenerated, Unconfirmed, memory
  <2>4. /\ fp'[w] = NextVersion \/ fp'[w] = fp[w]
        /\ \A v \in Window \ {w} : pc'[v] = pc[v] /\ fp'[v] = fp[v]
    BY <2>1, <2>3 DEF Inv, Typed
  <2> QED
    BY <2>1, <2>2, <2>4, KeyWrite
<1>11. CASE Next
  BY <1>2, <1>3, <1>4, <1>5, <1>6, <1>7, <1>8, <1>9, <1>10, <1>11 DEF Next
<1> QED
  BY <1>1, <1>11

(* What a save puts in place of the version its window has in memory.      *)
LEMMA SaveKeepsTheKeys ==
  ASSUME Inv, KeyInv, NEW w \in Window, Answered(w), Write(w), fp[w] = disk
  PROVE  /\ log'[disk'].key = log[disk].key
         /\ \/ log'[disk'].codes = log[disk].codes
            \/ log'[disk'].codes = disk' /\ pc[w] = "regenerating"
<1> DEFINE new == [entries |-> Changed(w), key |-> key[w],
                   codes |-> NewCodes(w), old |-> FALSE]
<1>1. /\ new \in Content /\ ~new.old /\ Len(log) < MaxVersion
      /\ log' = Append(log, new) /\ disk' = NextVersion
      /\ new.key = key[w] /\ new.codes = NewCodes(w)
  BY WritesContent
<1> HIDE DEF new
<1>2. log'[NextVersion] = new
  BY <1>1, WriteGrows
<1>3. Shows(w) /\ key[w] = log[disk].key /\ codes[w] = log[disk].codes
  BY DEF Answered, Shows, KeyInv, Inv, Local, OfItsVersion
<1>4. job[w].kind = "regenerate" => pc[w] = "regenerating"
  BY DEF Answered, Asking, Inv, Local, JobFits
<1> QED
  BY <1>1, <1>2, <1>3, <1>4 DEF NewCodes

(* A write over a version of the vault keeps its VMK, and its recovery     *)
(* codes unless new ones have been asked for (_save, 607-615), whatever    *)
(* saves fail, users answer in a conflict or do in the generator, as long  *)
(* as there is no vault in an old format to migrate.                       *)
THEOREM KeysAreKept == ASSUME ~OldFormat PROVE Spec => WritesKeepTheKeys
<1> DEFINE Keeps ==
      Overwrites =>
        /\ log'[disk'].key = log[disk].key
        /\ \/ log'[disk'].codes = log[disk].codes
           \/ /\ log'[disk'].codes = disk'
              /\ \E w \in Window : pc[w] = "regenerating" /\ pc'[w] # pc[w]
<1>1. Init => KeyInv
  <2> SUFFICES ASSUME Init PROVE KeyInv
    OBVIOUS
  <2>1. Len(log) = 1 /\ ~log[1].old /\ \A w \in Window : pc[w] = "closed"
    BY DEF Init
  <2> QED
    BY <2>1 DEF KeyInv, NoneOld, Shows, Asking
<1>2. Inv /\ KeyInv /\ [Next]_vars => KeyInv'
  BY NextKey
<1>3. Inv /\ KeyInv /\ [Next]_vars => [Keeps]_vars
  <2> SUFFICES ASSUME Inv, KeyInv, Next, Overwrites PROVE Keeps
    OBVIOUS
  <2>1. ASSUME NEW w \in Window, Saved(w) \/ Regenerated(w) \/ Unconfirmed(w)
        PROVE  Keeps
    <3>1. Answered(w) /\ Write(w) /\ fp[w] = disk
      BY <2>1 DEF Saved, Regenerated, Unconfirmed
    <3>2. pc'[w] \in {"list", "showing"}
      BY <2>1 DEF Saved, Regenerated, Unconfirmed, Finish, Goto, Inv, Typed
    <3> QED
      BY <3>1, <3>2, SaveKeepsTheKeys
  <2>2. ASSUME NEW w \in Window PROVE ~Migrate(w) /\ ~MigrateUnconfirmed(w)
    <3> SUFFICES ASSUME Rewrite(w) PROVE FALSE
      BY DEF Migrate, MigrateUnconfirmed
    <3>1. fp[w] \in 1 .. Len(log) /\ log[fp[w]].old
      BY DEF Rewrite, Inv, Typed, Local, OfItsVersion, NoFile
    <3> QED
      BY <3>1 DEF KeyInv, NoneOld
  <2>3. ASSUME NEW w \in Window PROVE ~Create(w)
    BY DEF Create, Overwrites
  <2>4. ASSUME NEW w \in Window,
               \/ Load(w) \/ Decrypt(w) \/ GiveUp(w) \/ Lock(w) \/ Destroy(w) \/ Reload(w)
               \/ Refuse(w) \/ Search(w) \/ Generate(w) \/ GoBack(w) \/ Cancel(w)
               \/ Refused(w) \/ Raised(w) \/ ShowCodes(w) \/ Killed(w)
               \/ Conflict(w) \/ ConflictReloaded(w) \/ ConflictKept(w)
        PROVE  FALSE
    BY <2>4 DEF Load, Decrypt, GiveUp, Lock, Destroy, Reload, Refuse, Search, Generate,
       GoBack, Cancel, Refused, Raised, ShowCodes, Killed, Conflict, ConflictReloaded,
       ConflictKept, Overwrites
  <2>5. ASSUME NEW w \in Window,
               AddEntry(w) \/ EditEntry(w) \/ DeleteEntry(w) \/ Regenerate(w)
        PROVE  FALSE
    BY <2>5 DEF AddEntry, EditEntry, DeleteEntry, Regenerate, Ask, Overwrites
  <2> QED
    BY <2>1, <2>2, <2>3, <2>4, <2>5 DEF Next
<1>4. Spec => []Inv
  BY WindowInvariance
<1> QED
  BY <1>1, <1>2, <1>3, <1>4, PTL DEF Spec, WritesKeepTheKeys
=============================================================================
