--------------------------- MODULE MailboxArchive ---------------------------
(***************************************************************************)
(* What incremental sync promises of a mailbox, with no run, claim, fetch  *)
(* or failure in it: an archive that grows by whole batches, each together *)
(* with the folder's cursor, whose cursors only move forward and never     *)
(* over a message that is not archived, and that an erasure empties for    *)
(* good.  The server gains, loses and renumbers mail on its own.           *)
(***************************************************************************)
EXTENDS Integers

CONSTANTS Folder, MessageAt(_, _, _), MaxUid, MaxGen

VARIABLES exists,   \* the connection has not been deleted
          cursor,   \* per folder: UIDVALIDITY (0: no cursor) and last UID
          stored,   \* the archived messages
          box       \* the server: per folder UIDVALIDITY, highest UID, expunged UIDs

vars == <<exists, cursor, stored, box>>

Origin == [f \in Folder |-> [gen |-> 0, last |-> 0]]

Init ==
  /\ exists = TRUE
  /\ cursor = Origin
  /\ stored = {}
  /\ box = [f \in Folder |-> [gen |-> 1, top |-> 0, gone |-> {}]]

Present(f) == (1..box[f].top) \ box[f].gone

\* A batch of a folder: messages of a UIDVALIDITY the folder has or had, and a
\* cursor of that UIDVALIDITY that never goes back and leaves nothing behind.
Archive(f) ==
  /\ exists
  /\ \E gen \in 1..box[f].gen, last \in 0..MaxUid :
       /\ \/ cursor[f].gen < gen
          \/ cursor[f].gen = gen /\ cursor[f].last <= last
       /\ cursor' = [cursor EXCEPT ![f] = [gen |-> gen, last |-> last]]
       /\ \E uids \in SUBSET (1..MaxUid) :
            stored' = stored \cup {MessageAt(f, gen, u) : u \in uids}
       /\ gen = box[f].gen =>
            \A u \in Present(f) : u <= last => MessageAt(f, gen, u) \in stored'
  /\ UNCHANGED <<exists, box>>

Erase ==
  /\ exists /\ exists' = FALSE
  /\ cursor' = Origin
  /\ stored' = {}
  /\ UNCHANGED box

\* Mail arrives, is expunged, or the folder is renumbered.
Serve(f) ==
  /\ \/ /\ box[f].top < MaxUid
        /\ box' = [box EXCEPT ![f] = [gen |-> box[f].gen, top |-> box[f].top + 1,
                                      gone |-> box[f].gone]]
     \/ \E u \in Present(f) :
          box' = [box EXCEPT ![f] = [gen |-> box[f].gen, top |-> box[f].top,
                                     gone |-> box[f].gone \cup {u}]]
     \/ /\ box[f].gen < MaxGen
        /\ \E k \in 0..box[f].top :
             box' = [box EXCEPT ![f] = [gen |-> box[f].gen + 1, top |-> k, gone |-> {}]]
  /\ UNCHANGED <<exists, cursor, stored>>

Next == Erase \/ \E f \in Folder : Archive(f) \/ Serve(f)

Spec == Init /\ [][Next]_vars
=============================================================================
