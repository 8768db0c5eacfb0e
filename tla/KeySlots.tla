------------------------------ MODULE KeySlots ------------------------------
(***************************************************************************)
(* The credentials of an encrypted file: a table of key slots, each the    *)
(* data key wrapped under one credential, kept in every superblock slot    *)
(* (src/src/transaction/keys.rs, src/src/superblock/crypto_header.rs).     *)
(* Adding, rotating or removing a credential writes one superblock with    *)
(* the new table, waits for it, then scrubs the table in the other slots;  *)
(* data commits write superblocks with the table as it is; rekey           *)
(* (src/src/rekey.rs) starts over with one credential in a new file.       *)
(*                                                                         *)
(* A wrap is a credential with a number: wrap_into draws a fresh salt and  *)
(* nonce, so two wraps under one credential are different bytes.  The      *)
(* roots are one number, sealed with the identity of the superblock; the   *)
(* slots of an encrypted file lie at a stride of their own, which an open  *)
(* has to find out.                                                        *)
(***************************************************************************)
EXTENDS Integers

CONSTANTS Keys,           \* credentials
          NoKey,          \* the credential of a slot that is not active
          N,              \* superblock_count
          KeySlotCount,   \* KEY_SLOT_COUNT
          MaxTxnCounter,  \* superblock::MAX_TXN_COUNTER
          MaxWraps,       \* bound: wraps made
          MaxBody         \* bound: data commits

ASSUME KeysAssumption == NoKey \notin Keys
ASSUME SlotsAssumption == N \in 2..16 /\ KeySlotCount \in Nat \ {0}
ASSUME CounterAssumption == MaxTxnCounter \in Nat /\ MaxTxnCounter >= N
ASSUME BoundsAssumption == MaxWraps \in Nat /\ MaxWraps >= 1 /\ MaxBody \in Nat

VARIABLES
    medium,    \* superblock slot -> image that survives a power loss
    file,      \* superblock slot -> image a read returns
    phase,     \* where the handle is
    header,    \* crypto_header
    counter,   \* txn_counter
    body,      \* committed_roots
    readOnly,  \* the handle was opened read-only
    staged,    \* the table and the roots of the superblock being written
    left,      \* superblock slots still to scrub
    wraps,     \* wraps made so far
    dropping,  \* wraps the running call takes out of the table
    revoked    \* wraps taken out by a call that has returned Ok

handleVars == <<phase, header, counter, body, readOnly>>
callVars == <<staged, left, dropping>>
vars == <<medium, file, phase, header, counter, body, readOnly, staged, left,
          wraps, dropping, revoked>>

-----------------------------------------------------------------------------
SuperblockSlots == 0..(N - 1)
TableSlots == 1..KeySlotCount

KeySlot == [key : Keys \cup {NoKey}, id : 0..MaxWraps]
EMPTY == [key |-> NoKey, id |-> 0]
Tables == [TableSlots -> KeySlot]
Sealed == [roots : 0..MaxBody, aad : 0..MaxTxnCounter]
Images == [valid : BOOLEAN, counter : 0..MaxTxnCounter, table : Tables, sealed : Sealed]

is_active(slot) == slot # EMPTY
Active(table) == {i \in TableSlots : is_active(table[i])}
WrapsOf(table) == {table[i] : i \in Active(table)}

EmptyTable == [i \in TableSlots |-> EMPTY]

\* What ties a sealed body to its superblock: the counter is the one field of
\* it that changes.
sb_identity_aad(c) == c
seal_body(b, aad) == [roots |-> b, aad |-> aad]
open_body(sealed, aad) == sealed.aad = aad

Torn == [valid |-> FALSE, counter |-> 0, table |-> EmptyTable, sealed |-> seal_body(0, 0)]

\* serialize_encrypted: the table in the clear, the roots sealed.
Image(c, t, b) ==
    [valid |-> TRUE, counter |-> c, table |-> t, sealed |-> seal_body(b, sb_identity_aad(c))]

\* The body opens under the identity of the superblock it is found in.
decrypt_body(image) == open_body(image.sealed, sb_identity_aad(image.counter))
load_body(image) == image.sealed.roots

RewritePhases == {"flush", "barrier", "scrub"}
CommitPhases == {"committing", "synching"}
Phases == {"closed", "idle", "active", "poisoned"} \cup RewritePhases \cup CommitPhases

TypeOK ==
    /\ medium \in [SuperblockSlots -> Images]
    /\ file \in [SuperblockSlots -> Images]
    /\ phase \in Phases
    /\ header \in Tables
    /\ counter \in 0..MaxTxnCounter
    /\ body \in 0..MaxBody
    /\ readOnly \in BOOLEAN
    /\ staged \in [table : Tables, body : 0..MaxBody]
    /\ left \in SUBSET SuperblockSlots
    /\ wraps \in 0..MaxWraps
    /\ dropping \in SUBSET KeySlot
    /\ revoked \in SUBSET KeySlot

\* The superblock an open picks: the highest counter among the valid images,
\* the last of them on a tie (max_by_key).
IsWinner(images, i) ==
    /\ images[i].valid
    /\ \A j \in SuperblockSlots : images[j].valid =>
          \/ images[j].counter < images[i].counter
          \/ images[j].counter = images[i].counter /\ j <= i

\* A unit read at the stride of a plain file is the slot itself only at offset 0.
read_page_unit(images, stride, i) ==
    IF stride = "encrypted" \/ i = 0 THEN images[i] ELSE Torn
read_candidates(images, stride) ==
    [i \in SuperblockSlots |-> read_page_unit(images, stride, i)]

\* Every superblock that verifies tells the stride.
encrypted_stride(candidates) == \E i \in SuperblockSlots : candidates[i].valid

\* (Mutant: a torn slot 0 is taken for a plain file.)
CandidatesAnchored(images) ==
    read_candidates(images,
        IF encrypted_stride(read_candidates(images, "plain")) THEN "encrypted" ELSE "plain")

\* The slots as open_existing reads them: slot 0 gives the stride away, or, when
\* it is torn, a second reading at the other stride.
Candidates(images) ==
    IF encrypted_stride(read_candidates(images, "plain"))
       \/ encrypted_stride(read_candidates(images, "encrypted"))
    THEN read_candidates(images, "encrypted")
    ELSE read_candidates(images, "plain")

\* The first active slot whose wrap opens under the credential.
unwrap_dek(slot, key) == slot.key = key
unlock(table, key, i) ==
    /\ unwrap_dek(table[i], key)
    /\ \A j \in TableSlots : j < i => ~unwrap_dek(table[j], key)
Unlocks(table, key) == \E i \in TableSlots : unlock(table, key, i)

free_slot(table, i) ==
    /\ ~is_active(table[i])
    /\ \A j \in TableSlots : j < i => is_active(table[j])

\* A table with exactly one active slot, or none.
AtMostOneActive(table) == \A i, j \in Active(table) : i = j

wrap_dek(key, id) == [key |-> key, id |-> id]
Wrapped(table, i, key, id) == [table EXCEPT ![i] = wrap_dek(key, id)]
Cleared(table, i) == [table EXCEPT ![i] = EMPTY]

TargetSlot == (counter + 1) % N

-----------------------------------------------------------------------------
FirstTable(key) == Wrapped(EmptyTable, 1, key, 1)

new_empty_encrypted(c, table) == Image(c, table, 0)

\* create_new with a credential: one wrap, N valid images, all durable.
Init ==
    \E key \in Keys :
        /\ medium = [i \in SuperblockSlots |-> new_empty_encrypted(N - 1 - i, FirstTable(key))]
        /\ file = medium
        /\ phase = "idle"
        /\ header = FirstTable(key)
        /\ counter = N - 1
        /\ body = 0
        /\ readOnly = FALSE
        /\ staged = [table |-> FirstTable(key), body |-> 0]
        /\ left = {}
        /\ wraps = 1
        /\ dropping = {}
        /\ revoked = {}

\* The call has passed its own checks; the guards of rewrite_crypto_header
\* (no transaction, writable) stand before any write.
StartRewrite(table, drops) ==
    /\ phase = "idle"
    /\ ~readOnly
    /\ phase' = "flush"
    /\ staged' = [table |-> table, body |-> body]
    /\ dropping' = drops
    /\ UNCHANGED <<medium, file, header, counter, body, readOnly, left, revoked>>

add_key(existing, new) ==
    /\ Unlocks(header, existing)
    /\ wraps < MaxWraps
    /\ wraps' = wraps + 1
    /\ \E free \in TableSlots :
          /\ free_slot(header, free)
          /\ StartRewrite(Wrapped(header, free, new, wraps + 1), {})

rotate_key(old, new) ==
    /\ wraps < MaxWraps
    /\ wraps' = wraps + 1
    /\ \E idx, free \in TableSlots :
          /\ unlock(header, old, idx)
          /\ free_slot(header, free)
          /\ StartRewrite(Cleared(Wrapped(header, free, new, wraps + 1), idx),
                          {header[idx]})

\* (Mutant: the last credential may be removed.)
remove_key_any(key) ==
    /\ \E idx \in TableSlots :
          /\ unlock(header, key, idx)
          /\ StartRewrite(Cleared(header, idx), {header[idx]})
    /\ UNCHANGED wraps

remove_key(key) ==
    /\ ~AtMostOneActive(header)
    /\ \E idx \in TableSlots :
          /\ unlock(header, key, idx)
          /\ StartRewrite(Cleared(header, idx), {header[idx]})
    /\ UNCHANGED wraps

-----------------------------------------------------------------------------
(* rewrite_crypto_header_inner.                                            *)

\* The counter is taken, then the new superblock goes to slot counter % N.
WriteTarget ==
    /\ phase = "flush"
    /\ counter + 1 <= MaxTxnCounter
    /\ counter' = counter + 1
    /\ file' = [file EXCEPT ![TargetSlot] = Image(counter + 1, staged.table, staged.body)]
    /\ phase' = "barrier"
    /\ UNCHANGED <<medium, header, body, readOnly, callVars, wraps, revoked>>

\* (Mutant: no fsync between the target slot and the others.)
BarrierSkipped ==
    /\ phase = "barrier"
    /\ left' = SuperblockSlots \ {counter % N}
    /\ phase' = "scrub"
    /\ UNCHANGED <<medium, file, header, counter, body, readOnly, staged, dropping,
                   wraps, revoked>>

\* The fsync that decides the call.
Barrier ==
    /\ phase = "barrier"
    /\ medium' = file
    /\ left' = SuperblockSlots \ {counter % N}
    /\ phase' = "scrub"
    /\ UNCHANGED <<file, header, counter, body, readOnly, staged, dropping,
                   wraps, revoked>>

\* (Mutant: the scrub writes the table of the handle.)
overwrite_slot_table_stale(image) ==
    IF image.valid THEN [image EXCEPT !.table = header] ELSE image

\* The table alone is replaced, and only in an image that verifies.
overwrite_slot_table(image) ==
    IF image.valid THEN [image EXCEPT !.table = staged.table] ELSE image

IsNext(i) == i \in left /\ \A j \in left : i <= j

ScrubSlot(i) ==
    /\ phase = "scrub"
    /\ IsNext(i)
    /\ file' = [file EXCEPT ![i] = overwrite_slot_table(@)]
    /\ left' = left \ {i}
    /\ UNCHANGED <<medium, handleVars, staged, wraps, dropping, revoked>>

\* The last fsync; then the handle takes the new table and the call returns.
FinishRewrite ==
    /\ phase = "scrub"
    /\ left = {}
    /\ medium' = file
    /\ header' = staged.table
    /\ revoked' = revoked \cup dropping
    /\ phase' = "idle"
    /\ UNCHANGED <<file, counter, body, readOnly, callVars, wraps>>

-----------------------------------------------------------------------------
(* Transactions, as far as superblocks go (CommitProtocol has the rest).   *)

Begin ==
    /\ phase = "idle"
    /\ ~readOnly
    /\ phase' = "active"
    /\ UNCHANGED <<medium, file, header, counter, body, readOnly, callVars, wraps, revoked>>

Rollback ==
    /\ phase = "active"
    /\ phase' = "idle"
    /\ UNCHANGED <<medium, file, header, counter, body, readOnly, callVars, wraps, revoked>>

CommitPages ==
    /\ phase = "active"
    /\ body < MaxBody
    /\ phase' = "committing"
    /\ staged' = [table |-> header, body |-> body + 1]
    /\ dropping' = {}
    /\ UNCHANGED <<medium, file, header, counter, body, readOnly, left, wraps, revoked>>

CommitSuperblock ==
    /\ phase = "committing"
    /\ counter + 1 <= MaxTxnCounter
    /\ counter' = counter + 1
    /\ file' = [file EXCEPT ![TargetSlot] = Image(counter + 1, staged.table, staged.body)]
    /\ phase' = "synching"
    /\ UNCHANGED <<medium, header, body, readOnly, callVars, wraps, revoked>>

CommitSync ==
    /\ phase = "synching"
    /\ medium' = file
    /\ body' = staged.body
    /\ phase' = "idle"
    /\ UNCHANGED <<file, header, counter, readOnly, callVars, wraps, revoked>>

-----------------------------------------------------------------------------
(* Failures, the end of a handle, and open.                                *)

\* Any error past the guards poisons: a flush, an fsync, the counter's bound.
Fails ==
    /\ phase \in RewritePhases \cup CommitPhases
    /\ phase' = "poisoned"
    /\ UNCHANGED <<medium, file, header, counter, body, readOnly, callVars, wraps, revoked>>

\* ... or a write that fails part way, of the superblock or of a scrub.
WriteFails(i) ==
    /\ \/ phase \in {"flush", "committing"} /\ i = TargetSlot
                /\ counter + 1 <= MaxTxnCounter /\ counter' = counter + 1
       \/ phase = "scrub" /\ IsNext(i) /\ UNCHANGED counter
    /\ file' = [file EXCEPT ![i] = Torn]
    /\ phase' = "poisoned"
    /\ UNCHANGED <<medium, header, body, readOnly, callVars, wraps, revoked>>

\* The client drops the handle with nothing in flight.
Close ==
    /\ phase \in {"idle", "active", "poisoned"}
    /\ file = medium
    /\ phase' = "closed"
    /\ UNCHANGED <<medium, file, header, counter, body, readOnly, callVars, wraps, revoked>>

Pending == {i \in SuperblockSlots : file[i] # medium[i]}

\* Of the slots written since the last fsync some are whole on the medium,
\* some torn, and the others as they were.
PowerLoss(whole, torn) ==
    /\ medium' = [i \in SuperblockSlots |->
                    IF i \in whole THEN file[i] ELSE IF i \in torn THEN Torn ELSE medium[i]]
    /\ file' = medium'
    /\ phase' = "closed"
    /\ UNCHANGED <<header, counter, body, readOnly, callVars, wraps, revoked>>

\* open_existing: the winner's table must open under the credential given, and
\* its body under the data key.
Opens(key, i) ==
    /\ IsWinner(Candidates(file), i)
    /\ Unlocks(file[i].table, key)
    /\ decrypt_body(file[i])

Open(key, i, ro) ==
    /\ phase = "closed"
    /\ Opens(key, i)
    /\ header' = file[i].table
    /\ counter' = file[i].counter
    /\ body' = load_body(file[i])
    /\ readOnly' = ro
    /\ phase' = "idle"
    /\ UNCHANGED <<medium, file, callVars, wraps, revoked>>

-----------------------------------------------------------------------------
(* rekey: a second file under a new data key takes the place of the first. *)
(* Files is the model of the scratch file and the rename; here the change  *)
(* of files is one step.                                                   *)

\* The superblock counters descend from the winner's, in rotation order.
build_rotated_file(winner, table) ==
    [i \in SuperblockSlots |->
        LET k == (winner.counter + N - i) % N
        IN  Image(IF k <= winner.counter THEN winner.counter - k ELSE 0, table, load_body(winner))]

\* The winner is read again through the handle: the slot the last commit
\* writes, then the others in order.
Current(i, c) == file[i].valid /\ file[i].counter = c /\ decrypt_body(file[i])
current_superblock(i, c) ==
    /\ Current(i, c)
    /\ i # c % N => ~Current(c % N, c) /\ \A j \in SuperblockSlots : j < i => ~Current(j, c)

\* One credential is left, the one given: the others cannot be wrapped anew.
rekey(key) ==
    /\ phase = "closed"
    /\ wraps < MaxWraps
    /\ wraps' = wraps + 1
    /\ \E w, i \in SuperblockSlots :
          /\ Opens(key, w)
          /\ current_superblock(i, file[w].counter)
          /\ file' = build_rotated_file(file[i], Wrapped(EmptyTable, 1, key, wraps + 1))
    /\ medium' = file'
    /\ revoked' = revoked \cup UNION {WrapsOf(file[i].table) : i \in SuperblockSlots}
    /\ UNCHANGED <<handleVars, callVars>>

-----------------------------------------------------------------------------
KeyCall ==
    \/ \E existing, new \in Keys : add_key(existing, new)
    \/ \E old, new \in Keys : rotate_key(old, new)
    \/ \E key \in Keys : remove_key(key)
    \/ \E key \in Keys : rekey(key)

Rewrite == WriteTarget \/ Barrier \/ (\E i \in SuperblockSlots : ScrubSlot(i)) \/ FinishRewrite

Transaction == Begin \/ Rollback \/ CommitPages \/ CommitSuperblock \/ CommitSync

Failure == Fails \/ (\E i \in SuperblockSlots : WriteFails(i))

CrashAndOpen ==
    \/ Close
    \/ \E whole \in SUBSET Pending : \E torn \in SUBSET (Pending \ whole) : PowerLoss(whole, torn)
    \/ \E key \in Keys, i \in SuperblockSlots, ro \in BOOLEAN : Open(key, i, ro)

Next == KeyCall \/ Rewrite \/ Transaction \/ Failure \/ CrashAndOpen

Spec == Init /\ [][Next]_vars

-----------------------------------------------------------------------------
(* Properties.                                                             *)

\* Whatever is in flight, the superblock an open would pick from the medium
\* exists, is found even when slot 0 is torn, holds a credential and has a body
\* that opens (keys.rs: "there is never a window with zero working
\* credentials"; "never an unopenable file").
CredentialLeft ==
    \E i \in SuperblockSlots :
        /\ IsWinner(Candidates(medium), i)
        /\ Active(medium[i].table) # {}
        /\ decrypt_body(medium[i])

\* A handle between calls holds the table, the roots and the counter of the
\* durable winner, so the next call edits what is on the medium.
HandleOnWinner ==
    phase \in {"idle", "active"} =>
        \E i \in SuperblockSlots :
            IsWinner(medium, i) /\ medium[i] = Image(counter, header, body)

\* A wrap that remove_key, rotate_key or rekey has taken out, once the call has
\* returned Ok, is in no superblock that verifies, durable or not, and no
\* later crash, error or open brings it back (keys.rs, the scrub).
RevokedGone ==
    /\ phase # "closed" => revoked \cap WrapsOf(header) = {}
    /\ \A i \in SuperblockSlots : \A image \in {file[i], medium[i]} :
          image.valid => revoked \cap WrapsOf(image.table) = {}

\* A crash leaves the table and the roots from before the running call or
\* those it writes; once its barrier has returned, only the latter
\* (rotate_key: "a crash leaves either the pre-rotation header (old works) or
\* the post-rotation header (new works)").
CrashLeavesOldOrNew ==
    [][ phase # "closed" /\ phase' = "closed" =>
          \E i \in SuperblockSlots :
              /\ IsWinner(medium', i)
              /\ \/ medium'[i].table = header /\ load_body(medium'[i]) = body /\ phase # "scrub"
                 \/ medium'[i].table = staged.table /\ load_body(medium'[i]) = staged.body ]_vars
=============================================================================
