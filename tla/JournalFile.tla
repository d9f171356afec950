----------------------------- MODULE JournalFile -----------------------------
(****************************************************************************)
(* The journal of the store as a file (storage/journal.go): lines that are  *)
(* written whole, cut or not at all, a compaction that replaces the file or *)
(* stops half way, a program that goes and comes back.                      *)
(*                                                                          *)
(* What the entries are of (transitions, incidents, mutes) is the business  *)
(* of the modules of their owners, where every write succeeds; here an      *)
(* entry is a version of one thing that the store keeps, and the last       *)
(* version read counts.  A line that can never be decoded is left out of    *)
(* the file but for its size.  The size is in lines.                        *)
(****************************************************************************)
EXTENDS Integers, FiniteSets, FiniteSetsExt

CONSTANTS
  Things,        \* what the store keeps
  Unencodable,   \* those that json.Marshal refuses: with a NaN among their data, say
  MaxSize,       \* Journal.maxSize
  MaxVersion,    \* bound on changes
  MaxFaults,     \* bound on how often the disk breaks
  MaxRestarts    \* bound on restarts

ASSUME JournalAssumption ==
  /\ Unencodable \subseteq Things
  /\ {MaxSize, MaxVersion, MaxFaults, MaxRestarts} \subseteq Nat

VARIABLES
  live,     \* the store: thing -> its version, 0 if it is not kept
  journal,  \* the file, and the Journal of the program
  broken,   \* whether the disk refuses some of what it is asked
  version,  \* the changes so far
  faults,   \* how often the disk broke
  boot      \* the last start: how manyth, whether the journal could be read, what was cut

journalVars == <<live, journal, broken, version, faults, boot>>

\* A tail that nobody can decode.
Torn == <<>>

Nowhere == [t \in Things |-> 0]

\* saved: by the whole lines; tail: {what is behind the last newline}; lines: how many.
JournalInit ==
  /\ live = Nowhere
  /\ journal = [saved |-> Nowhere, tail |-> {}, lines |-> 0,
                open |-> TRUE, size |-> 0, lastErr |-> FALSE]
  /\ broken = FALSE /\ version = 0 /\ faults = 0
  /\ boot = [nth |-> 0, read |-> TRUE, cut |-> {}]

\* A line is written.  Behind a tail without a newline it makes one line with it, which
\* nobody can decode.
Written(j, t, v) ==
  [j EXCEPT !.saved = IF j.tail = {} THEN [j.saved EXCEPT ![t] = v] ELSE j.saved,
            !.tail = {}, !.lines = j.lines + 1, !.size = j.size + 1]

\* What may be behind the last newline once a write has been cut: nothing new, some
\* of the line, or all of it but its newline, which can be read.
CutTails(j, t, v) == {j.tail, {Torn}, IF j.tail = {} THEN {<<t, v>>} ELSE {Torn}}

\* Mutant: a write that fails is not noted.
WriteFails_Silent(j, t, v) == {[j EXCEPT !.tail = tail] : tail \in CutTails(j, t, v)}

WriteFails(j, t, v) == {[j EXCEPT !.tail = tail, !.lastErr = TRUE] : tail \in CutTails(j, t, v)}

\* appendEntry: nothing without a handle; an entry that cannot be encoded is an error.
Appended(j, t, v) ==
  IF t \in Unencodable THEN {[j EXCEPT !.lastErr = TRUE]}
  ELSE IF ~j.open THEN {j}
  ELSE {Written(j, t, v)} \cup (IF broken THEN WriteFails(j, t, v) ELSE {})

\* Mutant: what cannot be encoded is written all the same.
Rewritten_All(kept) == kept

\* What a compaction writes: all that is kept, less what cannot be encoded.
Rewritten(kept) == [t \in Things |-> IF t \in Unencodable THEN 0 ELSE kept[t]]

LinesOf(kept) == Cardinality({t \in Things : Rewritten(kept)[t] > 0})

\* rewrite: the file is replaced as a whole or not at all; when it is, but cannot be
\* opened again, there is no handle and the next occasion compacts once more.
Compacted(j, kept) ==
  LET replaced == [j EXCEPT !.saved = Rewritten(kept), !.tail = {}, !.lines = LinesOf(kept)]
  IN  {[replaced EXCEPT !.open = TRUE, !.size = LinesOf(kept), !.lastErr = FALSE]}
        \cup (IF broken THEN {[j EXCEPT !.lastErr = TRUE],
                              [replaced EXCEPT !.open = FALSE, !.lastErr = TRUE]} ELSE {})

\* needsCompaction, and what follows of it.
CompactedIfDue(j, kept) == IF j.size > MaxSize THEN Compacted(j, kept) ELSE {j}

\* An ingest or a mute: the store keeps the change whatever becomes of its line.
Accept(t) ==
  /\ version < MaxVersion /\ version' = version + 1
  /\ live' = [live EXCEPT ![t] = version']
  /\ journal' \in UNION {CompactedIfDue(j, live') : j \in Appended(journal, t, version')}
  /\ UNCHANGED <<broken, faults, boot>>

\* DeleteMute: there is no line for what is gone, so the journal is rewritten at once.
Delete(t) ==
  /\ live[t] > 0
  /\ live' = [live EXCEPT ![t] = 0]
  /\ journal' \in Compacted(journal, live')
  /\ UNCHANGED <<broken, version, faults, boot>>

\* Close
CloseJournal ==
  /\ journal.open /\ journal' = [journal EXCEPT !.open = FALSE]
  /\ UNCHANGED <<live, broken, version, faults, boot>>

\* read and replayJournal: whole lines, and the tail if it can be decoded.
Read(j) ==
  [t \in Things |->
     IF \E v \in 1..MaxVersion : <<t, v>> \in j.tail
     THEN CHOOSE v \in 1..MaxVersion : <<t, v>> \in j.tail ELSE j.saved[t]]

\* OpenJournal: it appends to the file that is there, however its last line ends.
Opened(j) == [j EXCEPT !.open = TRUE, !.size = j.lines, !.lastErr = FALSE]

\* The program goes, in the middle of a write perhaps, and starts again.  A journal that
\* cannot be read leaves the store empty and is appended to nevertheless.
Restart(cut) ==
  /\ boot.nth < MaxRestarts
  /\ \E tail \in {journal.tail} \cup UNION {CutTails(journal, t, version + 1) : t \in cut} :
       LET file == Opened([journal EXCEPT !.tail = tail])
       IN  \/ /\ live' = Read(file)
              /\ journal' \in Compacted(file, live')
              /\ boot' = [nth |-> boot.nth + 1, read |-> TRUE, cut |-> cut]
           \/ /\ broken
              /\ live' = Nowhere
              /\ journal' = [file EXCEPT !.lastErr = TRUE]
              /\ boot' = [nth |-> boot.nth + 1, read |-> FALSE, cut |-> cut]
  /\ version' = version + Cardinality(cut) /\ version' <= MaxVersion
  /\ UNCHANGED <<broken, faults>>

\* Environment: the disk is full, or has room again.
DiskBreaks ==
  /\ ~broken /\ faults < MaxFaults
  /\ broken' = TRUE /\ faults' = faults + 1
  /\ UNCHANGED <<live, journal, version, boot>>

DiskHeals ==
  /\ broken /\ broken' = FALSE
  /\ UNCHANGED <<live, journal, version, faults, boot>>

JournalNext ==
  \/ \E t \in Things : Accept(t)
  \/ \E t \in Things : Delete(t)
  \/ CloseJournal
  \/ Restart({})
  \/ journal.open /\ \E t \in Things \ Unencodable : Restart({t})
  \/ DiskBreaks
  \/ DiskHeals

JournalSpec == JournalInit /\ [][JournalNext]_journalVars

-----------------------------------------------------------------------------

JournalTypeOK ==
  /\ live \in [Things -> 0..version] /\ journal.saved \in [Things -> 0..version]
  /\ Cardinality(journal.tail) <= 1 /\ journal.lines \in Nat /\ journal.size \in Nat
  /\ \A t \in Unencodable : journal.saved[t] = 0

\* A start that could read the journal brings back all that the store kept and nothing
\* that it let go, and the one change whose write was cut or what was there before it,
\* unless the journal told an error when the program went, or was closed: no line is
\* ever lost in silence.  Things that cannot be encoded are excepted: a compaction
\* skips them and forgets the error (journal.go:200, 239).
RestartKeepsAll ==
  [][boot'.nth > boot.nth /\ boot'.read /\ ~journal.lastErr /\ journal.open =>
       \A t \in Things \ Unencodable :
         live'[t] = live[t] \/ (t \in boot'.cut /\ live'[t] = version')]_journalVars
=============================================================================
