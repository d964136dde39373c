---------------------------- MODULE PieceUploads ----------------------------
(***************************************************************************)
(* One file sent in pieces (api/uploads.rs): a upload, the tag of each piece  *)
(* the store took, and the store's multipart upload, which requests of the *)
(* same person, and the sweep, may reach in any order.  Beside it, the     *)
(* writer a guest streams a file through (core/storage/s3.rs), which cuts  *)
(* what it is given into parts of the same kind of upload.                 *)
(***************************************************************************)
EXTENDS Integers, Sequences, FiniteSets, FiniteSetsExt, SequencesExt

CONSTANTS FileSize,    \* the size said when the upload began
          PIECE_BYTES, \* every piece but the last, and a writer's part
          Lens,        \* sizes of bodies sent, and of chunks written
          MaxTags,     \* bodies the store takes
          MaxWritten,  \* bytes written through the writer
          Callers, Budget

PieceAssumption ==
    FileSize \in Nat \ {0} /\ PIECE_BYTES \in Nat \ {0} /\ Lens \subseteq Nat /\ MaxTags \in Nat

VARIABLES upload,   \* the upload's row: its state, whether its day has passed
          tags,     \* upload_parts: the tag of each piece, 0 for none
          store,    \* the store's upload: whether it exists, its pieces
          file,     \* the object at the path: the lengths it was joined from
          callers,  \* the requests under way
          landings, \* times the file was told of as landed
          made,     \* tags given out
          sweeper,  \* uploads the sweep is dropping the pieces of
          writer,   \* the guest's writer
          left

vars == <<upload, tags, store, file, callers, landings, made, sweeper, writer, left>>

\* pieces: size.div_ceil(PIECE_BYTES).
pieces(size) == (size + PIECE_BYTES - 1) \div PIECE_BYTES
Numbers == 1..pieces(FileSize)

\* piece_len: every piece the same but the last, which is what remains.
piece_len(size, n) ==
    IF n < pieces(size) THEN PIECE_BYTES ELSE size - PIECE_BYTES * (pieces(size) - 1)

Idle == [pc |-> "none", n |-> 0, tag |-> 0, len |-> 0, seen |-> [n \in Numbers |-> 0]]
NoPart == [tag |-> 0, len |-> 0]
Init ==
    /\ upload = [state |-> "open", expired |-> FALSE]
    /\ tags = [n \in Numbers |-> 0]
    /\ store = [open |-> TRUE, parts |-> [n \in Numbers |-> NoPart]]
    /\ file = <<>>
    /\ callers = [c \in Callers |-> Idle]
    /\ landings = 0 /\ made = 0 /\ sweeper = "idle"
    /\ writer = [state |-> "open", buf |-> 0, parts |-> <<>>, upload |-> FALSE, size |-> 0]
    /\ left = Budget

Spend(f) == left[f] > 0 /\ left' = [left EXCEPT ![f] = @ - 1]
At(c, pc) == callers[c].pc = pc
Go(c, pc) == callers' = [callers EXCEPT ![c].pc = pc]
End(c) == callers' = [callers EXCEPT ![c] = Idle]
still_open == upload.state = "open" /\ ~upload.expired

-----------------------------------------------------------------------------
(* piece: the upload, the store, the tag.                                     *)

piece(c, n, len) ==
    /\ At(c, "none") /\ still_open /\ len = piece_len(FileSize, n) /\ made < MaxTags
    /\ callers' = [callers EXCEPT ![c] = [Idle EXCEPT !.pc = "put", !.n = n, !.len = len]]
    /\ UNCHANGED <<upload, tags, store, file, landings, made, sweeper, writer, left>>

\* put_upload_part: a piece sent again replaces the one before.
put_upload_part(c) ==
    /\ At(c, "put")
    /\ IF store.open
       THEN /\ made' = made + 1
            /\ store' = [store EXCEPT !.parts[callers[c].n] = [tag |-> made + 1, len |-> callers[c].len]]
            /\ callers' = [callers EXCEPT ![c].pc = "tag", ![c].tag = made + 1]
       ELSE UNCHANGED <<made, store>> /\ End(c)
    /\ UNCHANGED <<upload, tags, file, landings, sweeper, writer, left>>

\* The tag is kept, unless the request's answer and its row are lost.
KeepTag(c) ==
    /\ At(c, "tag")
    /\ \/ tags' = [tags EXCEPT ![callers[c].n] = callers[c].tag] /\ UNCHANGED left
       \/ Spend("tag") /\ UNCHANGED tags
    /\ End(c)
    /\ UNCHANGED <<upload, store, file, landings, made, sweeper, writer>>

-----------------------------------------------------------------------------
(* complete                                                                *)

complete(c) ==
    /\ At(c, "none") /\ still_open
    /\ Go(c, "parts")
    /\ UNCHANGED <<upload, tags, store, file, landings, made, sweeper, writer, left>>

\* Mutant: nothing is asked about what is missing.
received_any(c) ==
    /\ At(c, "parts")
    /\ callers' = [callers EXCEPT ![c].pc = "claim", ![c].seen = tags]
    /\ UNCHANGED <<upload, tags, store, file, landings, made, sweeper, writer, left>>

\* received: every piece's tag must be there.
received(c) ==
    /\ At(c, "parts")
    /\ IF \E n \in Numbers : tags[n] = 0 THEN End(c)
       ELSE callers' = [callers EXCEPT ![c].pc = "claim", ![c].seen = tags]
    /\ UNCHANGED <<upload, tags, store, file, landings, made, sweeper, writer, left>>

\* Claimed before the store is asked.
Claim(c) ==
    /\ At(c, "claim")
    /\ IF upload.state = "open"
       THEN upload' = [upload EXCEPT !.state = "complete"] /\ Go(c, "join")
       ELSE UNCHANGED upload /\ End(c)
    /\ UNCHANGED <<tags, store, file, landings, made, sweeper, writer, left>>

\* The store joins the pieces whose tags it is given and still has, one at least.
Joins(c) == store.open /\ (\E n \in Numbers : callers[c].seen[n] # 0) /\ \A n \in Numbers : callers[c].seen[n] \in {0, store.parts[n].tag}
Joined(c) ==
    LET named == SetToSortSeq({n \in Numbers : callers[c].seen[n] # 0}, <)
    IN  [i \in 1..Len(named) |-> store.parts[named[i]].len]

\* complete_upload; where the store refuses, the row goes back to open.
complete_upload(c) ==
    /\ At(c, "join")
    /\ \/ /\ Joins(c) /\ file' = Joined(c)
          /\ store' = [open |-> FALSE, parts |-> [n \in Numbers |-> NoPart]]
          /\ Go(c, "landed") /\ UNCHANGED <<upload, left>>
       \/ /\ IF Joins(c) THEN Spend("join") ELSE UNCHANGED left
          /\ upload' = [upload EXCEPT !.state = "open"] /\ End(c)
          /\ UNCHANGED <<file, store>>
    /\ UNCHANGED <<tags, landings, made, sweeper, writer>>

\* Counted and told of as landed; a HEIC photo is not kept.
Landed(c) ==
    /\ At(c, "landed")
    /\ \/ landings' = landings + 1 /\ UNCHANGED <<file, left>>
       \/ Spend("heic") /\ file' = <<>> /\ UNCHANGED landings
    /\ End(c)
    /\ UNCHANGED <<upload, tags, store, made, sweeper, writer>>

-----------------------------------------------------------------------------
(* Giving up                                                               *)

Drop == store' = [open |-> FALSE, parts |-> [n \in Numbers |-> NoPart]]

abandon(c) ==
    /\ At(c, "none") /\ upload.state = "open" /\ Spend("abandon")
    /\ Go(c, "mark")
    /\ UNCHANGED <<upload, tags, store, file, landings, made, sweeper, writer>>

\* The upload, where it is still open, and then the pieces, where it is not too.
Mark(c) ==
    /\ At(c, "mark")
    /\ upload' = IF upload.state = "open" THEN [upload EXCEPT !.state = "abandoned"] ELSE upload
    /\ Go(c, "abort")
    /\ UNCHANGED <<tags, store, file, landings, made, sweeper, writer, left>>

abort_upload(c) ==
    /\ At(c, "abort") /\ Drop /\ End(c)
    /\ UNCHANGED <<upload, tags, file, landings, made, sweeper, writer, left>>

\* The day passes.
Expire ==
    /\ ~upload.expired /\ Spend("expire")
    /\ upload' = [upload EXCEPT !.expired = TRUE]
    /\ UNCHANGED <<tags, store, file, callers, landings, made, sweeper, writer>>

sweep_expired ==
    /\ \/ /\ sweeper = "idle" /\ upload.state = "open" /\ upload.expired
          /\ upload' = [upload EXCEPT !.state = "abandoned"] /\ sweeper' = "abort" /\ UNCHANGED store
       \/ sweeper = "abort" /\ Drop /\ sweeper' = "idle" /\ UNCHANGED upload
    /\ UNCHANGED <<tags, file, callers, landings, made, writer, left>>

-----------------------------------------------------------------------------
(* S3Writer                                                                *)

\* While a part's worth is held, it is sent.
cut(held) == [buf |-> held % PIECE_BYTES, parts |-> [i \in 1..(held \div PIECE_BYTES) |-> PIECE_BYTES]]

write(len) ==
    /\ writer.state = "open" /\ writer.size + len <= MaxWritten
    /\ LET now == cut(writer.buf + len)
       IN  writer' = [writer EXCEPT !.buf = now.buf, !.parts = @ \o now.parts,
                                    !.upload = @ \/ now.parts # <<>>, !.size = @ + len]
    /\ UNCHANGED <<upload, tags, store, file, callers, landings, made, sweeper, left>>

\* finish: what fits in one part goes up whole, otherwise as the last part.
finish ==
    /\ writer.state = "open"
    /\ writer' = [writer EXCEPT !.state = "stored", !.buf = 0,
                    !.parts = IF ~writer.upload \/ writer.buf > 0 THEN Append(@, writer.buf) ELSE @]
    /\ UNCHANGED <<upload, tags, store, file, callers, landings, made, sweeper, left>>

\* Dropped before it finished: the parts are aborted and no object exists.
drop ==
    /\ writer.state = "open"
    /\ writer' = [writer EXCEPT !.state = "dropped", !.parts = <<>>, !.buf = 0]
    /\ UNCHANGED <<upload, tags, store, file, callers, landings, made, sweeper, left>>

Next ==
    \/ \E c \in Callers :
         \/ \E n \in Numbers, len \in Lens : piece(c, n, len)
         \/ put_upload_part(c) \/ KeepTag(c) \/ complete(c) \/ received(c) \/ Claim(c)
         \/ complete_upload(c) \/ Landed(c) \/ abandon(c) \/ Mark(c) \/ abort_upload(c)
    \/ Expire \/ sweep_expired
    \/ \E len \in Lens : write(len)
    \/ finish \/ drop

Spec == Init /\ [][Next]_vars

-----------------------------------------------------------------------------
TypeOK ==
    /\ upload \in [state : {"open", "complete", "abandoned"}, expired : BOOLEAN]
    /\ tags \in [Numbers -> 0..made] /\ landings \in 0..1
    /\ \A n \in Numbers : store.parts[n].tag # 0 => store.parts[n].len \in 1..PIECE_BYTES

AtRest == sweeper = "idle" /\ \A c \in Callers : At(c, "none")
Total(s) == FoldLeft(+, 0, s)

\* What lands is the whole file: its lengths are those of its pieces in order
\* and sum to the size said, whatever was sent again, lost or completed twice.
LandsWhole == file # <<>> => Len(file) = pieces(FileSize) /\ Total(file) = FileSize

\* A file that landed is one whose row says so: nothing puts it back to open
\* for a second completion to find (Claim).
LandedIsComplete == AtRest /\ file # <<>> => upload.state = "complete"

\* A row that says complete is one whose file landed; a completion the store
\* refused is not taken for one (complete_upload).
CompleteIsThere == AtRest /\ upload.state = "complete" /\ left.heic = Budget.heic => file # <<>>

\* What a guest streams is stored whole, in parts of the store's size but for
\* the last, or not at all (S3Writer).
WriterWhole ==
    /\ writer.state = "stored" =>
         /\ Total(writer.parts) = writer.size
         /\ \A i \in 1..(Len(writer.parts) - 1) : writer.parts[i] = PIECE_BYTES
         /\ writer.parts[Len(writer.parts)] <= PIECE_BYTES
    /\ writer.state = "dropped" => writer.parts = <<>>
=============================================================================
