----------------------------- MODULE Documents -----------------------------
(***************************************************************************)
(* A workspace's files: the objects in the bucket, the text read out of    *)
(* each (core/extract.rs), the rows that count them against the storage    *)
(* quota (core/storage/stored.rs, api/quota.rs), the requests and turns    *)
(* that write and delete them (api/files.rs, runtime component/storage.rs, *)
(* worker/turn.rs), and the sweep that empties an idle conversation's and  *)
(* recounts a workspace (api/storage_sweep.rs).  The bucket and the        *)
(* database are two stores: every call to either is a step of its own.     *)
(* A document's contents are its version; a row holds the version whose    *)
(* bytes it counts.                                                        *)
(***************************************************************************)
EXTENDS Integers, FiniteSets, FiniteSetsExt

CONSTANTS Docs,        \* the keys of one conversation's documents
          MaxVersion,  \* how often a document may be written
          Size,        \* [1..MaxVersion -> Nat], bytes of a version
          Quota,       \* max_stored_bytes; 0 is no limit
          Tika,        \* whether extraction is configured
          Requests,    \* uploads, removals and guest calls under way at once
          Workers,     \* processes running the extraction loop
          JobIds, MaxAttempts,
          Kinds,       \* which requests are made
          Overlap,     \* "docs": two requests may be at one document,
                       \* "sweep": requests may arrive during a sweep
          Budget, None

DocumentsAssumption ==
    /\ MaxVersion \in Nat \ {0} /\ MaxAttempts \in Nat \ {0} /\ JobIds \subseteq Nat
    /\ Size \in [1..MaxVersion -> Nat] /\ IsFiniteSet(Docs) /\ None \notin Docs

VARIABLES obj, text, failed,  \* the bucket: document, text and failure marker
          rows,     \* stored_objects
          made,     \* versions written of each document so far
          reqs,     \* each request: what it does, to which document, where it is
          jobs,     \* extraction jobs
          work,     \* what each extraction worker is reading
          count,    \* the recount under way
          conv,     \* the conversation: its turn, its idleness, whether swept
          sweep,    \* the idle sweep under way
          lost,     \* documents whose count may be off until a recount: a change
                    \* nobody recorded, or two of them at once
          behind,   \* documents whose text may be behind them: a change nobody
                    \* queued, or a reading stored after its lease had lapsed
          left

vars == <<obj, text, failed, rows, made, reqs, jobs, work, count, conv, sweep, lost, behind, left>>
bucket == <<obj, text, failed>>
\* Observed by the properties only.
astray == <<lost, behind>>

Versions == 0..MaxVersion
Objects == Docs \X {"doc", "text", "failed"}
NoReq == [pc |-> "none", kind |-> None, d |-> None, v |-> 0, kept |-> None]
NoJob == [d |-> None, state |-> "none", attempts |-> 0, lease |-> None]
NoSweep == [pc |-> "idle", of |-> None, gone |-> {}, todo |-> {}]
NoWork == [pc |-> "idle", j |-> None, d |-> None, v |-> 0, n |-> 0]

Init ==
    /\ obj = [d \in Docs |-> 0] /\ text = [d \in Docs |-> 0] /\ failed = [d \in Docs |-> FALSE]
    /\ rows = [x \in Objects |-> 0]
    /\ made = [d \in Docs |-> 0]
    /\ reqs = [r \in Requests |-> NoReq]
    /\ jobs = [j \in JobIds |-> NoJob]
    /\ work = [w \in Workers |-> NoWork]
    /\ count = [pc |-> "idle", since |-> {}, forgot |-> {}, listed |-> {}, lost |-> {}]
    /\ conv = [turn |-> FALSE, room |-> 0, old |-> FALSE, swept |-> FALSE]
    /\ sweep = NoSweep
    /\ lost = {} /\ behind = {}
    /\ left = Budget

Spend(f) == left[f] > 0 /\ left' = [left EXCEPT ![f] = @ - 1]

-----------------------------------------------------------------------------
(* stored_objects                                                          *)

\* record: the row replaced, written now.
record(x, v) ==
    /\ rows' = [rows EXCEPT ![x] = v]
    /\ count' = IF count.pc = "idle" THEN count ELSE [count EXCEPT !.since = @ \cup {x}]

\* forget_keys: the rows go, and a listing under way is told.
forget_keys(xs) ==
    /\ rows' = [x \in Objects |-> IF x \in xs THEN 0 ELSE rows[x]]
    /\ count' = IF count.pc = "idle" THEN count
                ELSE [count EXCEPT !.forgot = @ \cup xs, !.since = @ \ xs]

\* forget: an object and what was read out of it.
forget(d) == forget_keys({d} \X {"doc", "text", "failed"})

Bytes(x) == IF rows[x] = 0 THEN 0 ELSE IF x[2] = "doc" THEN Size[rows[x]] ELSE 1
Held == MapThenSumSet(Bytes, Objects)

\* What the workspace may still write.
remaining == IF Quota > Held THEN Quota - Held ELSE 0

\* quota::check: what the keys hold now is given back first.
check(ds, bytes) ==
    Quota = 0 \/ bytes <= remaining + MapThenSumSet(LAMBDA d : Bytes(<<d, "doc">>), ds)

-----------------------------------------------------------------------------
(* Requests                                                                *)

At(r, pc) == reqs[r].pc = pc
Go(r, pc) == reqs' = [reqs EXCEPT ![r].pc = pc]
Done(r) == reqs' = [reqs EXCEPT ![r] = NoReq]
Named(r) == {reqs[r].d, reqs[r].kept} \ {None}
Free(d) == "docs" \in Overlap \/ \A r \in Requests : d \notin Named(r)
Welcome == "sweep" \in Overlap \/ sweep.pc = "idle"

\* Two changes of a document at once, or one during a sweep: the one that
\* reaches the bucket last need not be the one counted last.
Miscounted(ds) ==
    /\ lost' = lost \cup ds
    /\ count' = [count EXCEPT !.lost = @ \ ds]
Crossed(ds) == Miscounted({d \in ds : sweep.pc # "idle" \/ \E r \in Requests : d \in Named(r)})

\* upload: the quota is checked, then the file written.  A phone's photo is
\* two files, the picture and the original it was made from.
upload(r, d, kept) ==
    /\ "upload" \in Kinds /\ At(r, "none") /\ Free(d) /\ Welcome /\ kept # d
    /\ kept # None => Free(kept) /\ obj[d] = 0 /\ obj[kept] = 0 /\ made[kept] < MaxVersion
    /\ made[d] < MaxVersion
    /\ LET ds == {d, kept} \ {None}
       IN  check(ds, MapThenSumSet(LAMBDA e : Size[made[e] + 1], ds))
    /\ reqs' = [reqs EXCEPT ![r] = [pc |-> "write", kind |-> "upload", d |-> d,
                                    v |-> made[d] + 1, kept |-> kept]]
    /\ made' = [e \in Docs |-> IF e \in {d, kept} THEN made[e] + 1 ELSE made[e]]
    /\ IF kept = None THEN UNCHANGED left ELSE Spend("photo")
    /\ Crossed({d, kept} \ {None})
    /\ UNCHANGED <<bucket, rows, jobs, work, conv, sweep, behind>>

\* delete: a request to remove a file.
delete(r, d) ==
    /\ "delete" \in Kinds /\ At(r, "none") /\ Free(d) /\ Welcome /\ obj[d] # 0
    /\ reqs' = [reqs EXCEPT ![r] = [NoReq EXCEPT !.pc = "delete", !.kind = "delete", !.d = d]]
    /\ Crossed({d})
    /\ UNCHANGED <<bucket, rows, made, jobs, work, conv, sweep, behind, left>>

\* The turn's own writes, each charged to what it was handed at its start.
write_object(r, d) ==
    /\ "guest" \in Kinds /\ conv.turn /\ At(r, "none") /\ Free(d) /\ made[d] < MaxVersion
    /\ LET bytes == Size[made[d] + 1]
       IN  /\ Quota = 0 \/ bytes <= conv.room
           /\ conv' = [conv EXCEPT !.room = IF Quota = 0 THEN @ ELSE @ - bytes]
    /\ reqs' = [reqs EXCEPT ![r] = [NoReq EXCEPT !.pc = "write", !.kind = "guest", !.d = d,
                                                 !.v = made[d] + 1]]
    /\ made' = [made EXCEPT ![d] = @ + 1]
    /\ Crossed({d})
    /\ UNCHANGED <<bucket, rows, jobs, work, sweep, behind, left>>

delete_object(r, d) ==
    /\ "guest" \in Kinds /\ conv.turn /\ At(r, "none") /\ Free(d) /\ obj[d] # 0
    /\ reqs' = [reqs EXCEPT ![r] = [NoReq EXCEPT !.pc = "delete", !.kind = "guest", !.d = d]]
    /\ Crossed({d})
    /\ UNCHANGED <<bucket, rows, made, jobs, work, conv, sweep, behind, left>>

\* The bytes reach the bucket, or leave it.
Store(r) ==
    /\ \/ At(r, "write") /\ obj' = [obj EXCEPT ![reqs[r].d] = reqs[r].v]
       \/ At(r, "delete") /\ obj' = [obj EXCEPT ![reqs[r].d] = 0]
    /\ Go(r, "invalidate")
    /\ UNCHANGED <<text, failed, rows, made, jobs, work, count, conv, sweep, astray, left>>

\* The bucket refuses it, and whoever asked is told so.
Refused(r) ==
    /\ reqs[r].pc \in {"write", "delete"} /\ Spend("store") /\ Done(r)
    /\ UNCHANGED <<bucket, rows, made, jobs, work, count, conv, sweep, astray>>

\* The pod a request is handled in dies: what it had yet to do is not done.
Dies(r) ==
    /\ ~At(r, "none") /\ Spend("pod") /\ Done(r)
    /\ LET ds == IF reqs[r].pc \in {"write", "delete"} THEN {} ELSE Named(r)
       IN  Miscounted(ds) /\ behind' = behind \cup ds
    /\ UNCHANGED <<bucket, rows, made, jobs, work, conv, sweep>>

\* invalidate: what was read out of it is forgotten.
invalidate(r) ==
    /\ At(r, "invalidate")
    /\ text' = [text EXCEPT ![reqs[r].d] = 0]
    /\ failed' = [failed EXCEPT ![reqs[r].d] = FALSE]
    /\ Go(r, IF reqs[r].kind = "guest" THEN "report"
             ELSE IF reqs[r].kind = "upload" THEN "count" ELSE "forget")
    /\ UNCHANGED <<obj, rows, made, jobs, work, count, conv, sweep, astray, left>>

\* The report of a guest's call reaches the API.
Report(r) ==
    /\ At(r, "report")
    /\ Go(r, IF reqs[r].v = 0 THEN "forget" ELSE "enqueue")
    /\ UNCHANGED <<bucket, rows, made, jobs, work, count, conv, sweep, astray, left>>

\* counted; then the original of a photo, or what follows a landing.
counted(r) ==
    /\ At(r, "count")
    /\ record(<<reqs[r].d, "doc">>, reqs[r].v)
    /\ IF reqs[r].kind = "guest" THEN Done(r)
       ELSE Go(r, IF reqs[r].kept = None THEN "enqueue" ELSE "original")
    /\ UNCHANGED <<bucket, made, jobs, work, conv, sweep, astray, left>>

\* Mutant: an original that was not stored is logged, and the photo lands.
original_left(r) ==
    /\ At(r, "original")
    /\ \/ /\ obj' = [obj EXCEPT ![reqs[r].kept] = made[reqs[r].kept]]
          /\ Go(r, "kept") /\ UNCHANGED left
       \/ Spend("store") /\ UNCHANGED obj /\ Go(r, "enqueue")
    /\ UNCHANGED <<text, failed, rows, made, jobs, work, count, conv, sweep, astray>>

\* The original after the picture: a failure is undone by removing the one.
original(r) ==
    /\ At(r, "original")
    /\ \/ /\ obj' = [obj EXCEPT ![reqs[r].kept] = made[reqs[r].kept]]
          /\ Go(r, "kept") /\ UNCHANGED left
       \/ Spend("store") /\ UNCHANGED obj /\ Go(r, "undo")
    /\ UNCHANGED <<text, failed, rows, made, jobs, work, count, conv, sweep, astray>>

\* A removal the bucket refuses too is logged, and the picture stays as it is.
undo(r) ==
    /\ At(r, "undo")
    /\ \/ obj' = [obj EXCEPT ![reqs[r].d] = 0] /\ Go(r, "forget") /\ UNCHANGED left
       \/ Spend("store") /\ UNCHANGED obj /\ Done(r)
    /\ UNCHANGED <<text, failed, rows, made, jobs, work, count, conv, sweep, astray>>

\* What was read out of the original's name is forgotten, and it is counted.
KeptNew(r) ==
    /\ At(r, "kept")
    /\ text' = [text EXCEPT ![reqs[r].kept] = 0]
    /\ failed' = [failed EXCEPT ![reqs[r].kept] = FALSE]
    /\ Go(r, "countkept")
    /\ UNCHANGED <<obj, rows, made, jobs, work, count, conv, sweep, astray, left>>

Kept(r) ==
    /\ At(r, "countkept")
    /\ record(<<reqs[r].kept, "doc">>, made[reqs[r].kept])
    /\ Go(r, "enqueue")
    /\ UNCHANGED <<bucket, made, jobs, work, conv, sweep, astray, left>>

uncounted(r) ==
    /\ At(r, "forget")
    /\ forget(reqs[r].d)
    /\ IF reqs[r].kind = "guest" /\ reqs[r].v # 0 THEN Go(r, "count") ELSE Done(r)
    /\ UNCHANGED <<bucket, made, jobs, work, conv, sweep, astray, left>>

\* A job for the document, where there is something to read it.
Queue(d) ==
    IF ~Tika THEN UNCHANGED jobs
    ELSE \E j \in JobIds :
           /\ jobs[j].state = "none" /\ \A i \in JobIds : i < j => jobs[i].state # "none"
           /\ jobs' = [jobs EXCEPT ![j] = [NoJob EXCEPT !.d = d, !.state = "pending"]]

\* enqueue: best effort.  An upload has then landed and the conversation is in
\* use; a guest's write is uncounted and counted again.
enqueue(r) ==
    /\ At(r, "enqueue")
    /\ \/ Queue(reqs[r].d) /\ behind' = behind \ {reqs[r].d} /\ UNCHANGED left
       \/ Tika /\ Spend("enqueue") /\ UNCHANGED jobs /\ behind' = behind \cup {reqs[r].d}
    /\ IF reqs[r].kind = "guest" THEN Go(r, "forget") ELSE Go(r, "landed")
    /\ UNCHANGED <<bucket, rows, made, work, count, conv, sweep, lost>>

landed(r) ==
    /\ At(r, "landed")
    /\ conv' = [conv EXCEPT !.old = FALSE, !.swept = FALSE]
    /\ Done(r)
    /\ UNCHANGED <<bucket, rows, made, jobs, work, count, sweep, astray, left>>

\* backfill, beside a listing: a document nothing has ever read.
backfill(d) ==
    /\ Tika /\ obj[d] # 0 /\ text[d] = 0 /\ ~failed[d]
    /\ Spend("listing") /\ Queue(d) /\ behind' = behind \ {d}
    /\ UNCHANGED <<bucket, rows, made, reqs, work, count, conv, sweep, lost>>

\* read_object: what a reader naming the document is served, the version its
\* text came from; Unread where reading it failed, NotYet where nothing has.
Unread == -1
NotYet == 0
read_object(d) == IF text[d] # 0 THEN text[d] ELSE IF failed[d] THEN Unread ELSE NotYet

-----------------------------------------------------------------------------
(* Extraction                                                              *)

\* Mutant: jobs of one document are not kept apart.
Serial_none(j) == TRUE

\* Serialised on the key: no other job of this document is running.
Serial(j) == \A i \in JobIds : i # j /\ jobs[i].d = jobs[j].d => jobs[i].state # "running"

\* A worker claims a job and reads the document.
Claim(w, j) ==
    /\ work[w].pc = "idle" /\ jobs[j].state = "pending" /\ Serial(j)
    /\ jobs' = [jobs EXCEPT ![j].state = "running", ![j].attempts = @ + 1, ![j].lease = w]
    /\ work' = [work EXCEPT ![w] = [pc |-> IF obj[jobs[j].d] = 0 THEN "fail" ELSE "tika",
                                    j |-> j, d |-> jobs[j].d, v |-> obj[jobs[j].d],
                                    n |-> jobs[j].attempts + 1]]
    /\ UNCHANGED <<bucket, rows, made, reqs, count, conv, sweep, astray, left>>

\* run_one: Tika answers and the text is stored, whoever holds the job by then,
\* or the attempt has failed.
run_one(w) ==
    /\ work[w].pc = "tika"
    /\ \/ /\ text' = [text EXCEPT ![work[w].d] = work[w].v]
          /\ behind' = IF jobs[work[w].j].lease = w THEN behind ELSE behind \cup {work[w].d}
          /\ work' = [work EXCEPT ![w].pc = "count"] /\ UNCHANGED left
       \/ /\ Spend("tika") /\ UNCHANGED <<text, behind>>
          /\ work' = [work EXCEPT ![w].pc = "fail"]
    /\ UNCHANGED <<obj, failed, rows, made, reqs, jobs, count, conv, sweep, lost>>

CountText(w) ==
    /\ work[w].pc = "count"
    /\ record(<<work[w].d, "text">>, work[w].v)
    /\ work' = [work EXCEPT ![w].pc = "close"]
    /\ UNCHANGED <<bucket, made, reqs, jobs, conv, sweep, astray, left>>

\* complete: by the lease that holds it.
Complete(w) ==
    /\ work[w].pc = "close"
    /\ jobs' = IF jobs[work[w].j].lease = w
               THEN [jobs EXCEPT ![work[w].j] = NoJob] ELSE jobs
    /\ work' = [work EXCEPT ![w] = NoWork]
    /\ UNCHANGED <<bucket, rows, made, reqs, count, conv, sweep, astray, left>>

\* On the last attempt the failure is written where the text would be.
MarkFailed(w) ==
    /\ work[w].pc = "fail" /\ work[w].n >= MaxAttempts
    /\ failed' = [failed EXCEPT ![work[w].d] = TRUE]
    /\ record(<<work[w].d, "failed">>, 1)
    /\ work' = [work EXCEPT ![w].pc = "failed"]
    /\ UNCHANGED <<obj, text, made, reqs, jobs, conv, sweep, astray, left>>

\* fail: tried again while attempts remain.
Fail(w) ==
    /\ \/ work[w].pc = "fail" /\ work[w].n < MaxAttempts
       \/ work[w].pc = "failed"
    /\ jobs' = IF jobs[work[w].j].lease # w THEN jobs
               ELSE IF work[w].n >= MaxAttempts
                    THEN [jobs EXCEPT ![work[w].j] = NoJob]
                    ELSE [jobs EXCEPT ![work[w].j].state = "pending", ![work[w].j].lease = None]
    /\ work' = [work EXCEPT ![w] = NoWork]
    /\ UNCHANGED <<bucket, rows, made, reqs, count, conv, sweep, astray, left>>

\* A lease nobody renews lapses under a document that takes long to read.
Lapse(w) ==
    /\ work[w].pc = "tika" /\ jobs[work[w].j].lease = w
    /\ jobs[work[w].j].attempts < MaxAttempts /\ Spend("lapse")
    /\ jobs' = [jobs EXCEPT ![work[w].j].state = "pending", ![work[w].j].lease = None]
    /\ UNCHANGED <<bucket, rows, made, reqs, work, count, conv, sweep, astray>>

-----------------------------------------------------------------------------
(* The recount                                                             *)

\* began, and the two listings: documents, then the text beside them.
Began ==
    /\ count.pc = "idle" /\ Spend("recount")
    /\ count' = [pc |-> "docs", since |-> {}, forgot |-> {}, listed |-> {},
                 lost |-> {d \in lost : sweep.pc = "idle" /\ \A r \in Requests : d \notin Named(r)}]
    /\ UNCHANGED <<bucket, rows, made, reqs, jobs, work, conv, sweep, astray>>

ListDocs ==
    /\ count.pc = "docs"
    /\ count' = [count EXCEPT !.pc = "texts",
                   !.listed = {<<d, "doc", obj[d]>> : d \in {e \in Docs : obj[e] # 0}}]
    /\ UNCHANGED <<bucket, rows, made, reqs, jobs, work, conv, sweep, astray, left>>

ListTexts ==
    /\ count.pc = "texts"
    /\ count' = [count EXCEPT !.pc = "replace", !.listed = @ \cup
                   {<<d, "text", text[d]>> : d \in {e \in Docs : text[e] # 0}} \cup
                   {<<d, "failed", 1>> : d \in {e \in Docs : failed[e]}}]
    /\ UNCHANGED <<bucket, rows, made, reqs, jobs, work, conv, sweep, astray, left>>

\* recount_one's transaction: the old rows go, and what was listed comes in,
\* but for what was written or forgotten since the listing began.
recount_one ==
    /\ count.pc = "replace"
    /\ rows' = [x \in Objects |->
                  IF x \in count.since THEN rows[x]
                  ELSE IF x \in count.forgot THEN 0
                  ELSE LET seen == {l \in count.listed : l[1] = x[1] /\ l[2] = x[2]}
                       IN  IF seen = {} THEN 0 ELSE (CHOOSE l \in seen : TRUE)[3]]
    /\ lost' = lost \ count.lost
    /\ count' = [count EXCEPT !.pc = "idle", !.since = {}, !.forgot = {}, !.listed = {},
                              !.lost = {}]
    /\ UNCHANGED <<bucket, made, reqs, jobs, work, conv, sweep, behind, left>>

-----------------------------------------------------------------------------
(* The conversation and its sweep                                          *)

\* Somebody speaks: a turn, handed what the workspace may still write.
StartTurn ==
    /\ ~conv.turn /\ Welcome /\ Spend("turn")
    /\ conv' = [turn |-> TRUE, room |-> remaining, old |-> FALSE, swept |-> FALSE]
    /\ UNCHANGED <<bucket, rows, made, reqs, jobs, work, count, sweep, astray>>

EndTurn ==
    /\ conv.turn /\ \A r \in Requests : reqs[r].kind # "guest"
    /\ conv' = [conv EXCEPT !.turn = FALSE, !.room = 0]
    /\ UNCHANGED <<bucket, rows, made, reqs, jobs, work, count, sweep, astray, left>>

\* The window passes with nobody speaking.
GrowOld ==
    /\ "sweep" \in Kinds /\ ~conv.old /\ ~conv.turn
    /\ conv' = [conv EXCEPT !.old = TRUE]
    /\ UNCHANGED <<bucket, rows, made, reqs, jobs, work, count, sweep, astray, left>>

\* idle: past the window, not swept since it was last active, no work to come.
idle ==
    /\ "sweep" \in Kinds /\ sweep.pc = "idle" /\ conv.old /\ ~conv.swept /\ ~conv.turn
    /\ "sweep" \in Overlap \/ \A r \in Requests : At(r, "none")
    /\ sweep' = [NoSweep EXCEPT !.pc = "list", !.of = "doc"]
    /\ Miscounted({d \in Docs : \E r \in Requests : d \in Named(r)})
    /\ UNCHANGED <<bucket, rows, made, reqs, jobs, work, conv, behind, left>>

\* remove_under: the documents are listed, and then what was read out of them;
\* what a listing showed is deleted, one object after another.
Under == IF sweep.of = "doc" THEN {"doc"} ELSE {"text", "failed"}
There(x) == IF x[2] = "doc" THEN obj[x[1]] # 0 ELSE IF x[2] = "text" THEN text[x[1]] # 0 ELSE failed[x[1]]

list ==
    /\ sweep.pc = "list"
    /\ LET xs == {x \in Docs \X Under : There(x)}
       IN  sweep' = [sweep EXCEPT !.pc = "remove", !.gone = xs, !.todo = xs]
    /\ UNCHANGED <<bucket, rows, made, reqs, jobs, work, count, conv, astray, left>>

remove_under ==
    /\ sweep.pc = "remove"
    /\ \E x \in sweep.todo :
          /\ obj' = IF x[2] = "doc" THEN [obj EXCEPT ![x[1]] = 0] ELSE obj
          /\ text' = IF x[2] = "text" THEN [text EXCEPT ![x[1]] = 0] ELSE text
          /\ failed' = IF x[2] = "failed" THEN [failed EXCEPT ![x[1]] = FALSE] ELSE failed
          /\ sweep' = [sweep EXCEPT !.todo = @ \ {x}]
    /\ UNCHANGED <<rows, made, reqs, jobs, work, count, conv, astray, left>>

\* forget_under and forget_keys: every row under the prefix, and what went.
ForgetUnder ==
    /\ sweep.pc = "remove" /\ sweep.todo = {}
    /\ forget_keys({x \in Docs \X Under : rows[x] # 0} \cup sweep.gone)
    /\ sweep' = IF sweep.of = "doc" THEN [NoSweep EXCEPT !.pc = "list", !.of = "text"]
                ELSE [NoSweep EXCEPT !.pc = "mark"]
    /\ UNCHANGED <<bucket, made, reqs, jobs, work, conv, astray, left>>

Swept ==
    /\ sweep.pc = "mark"
    /\ conv' = [conv EXCEPT !.swept = TRUE]
    /\ sweep' = NoSweep
    /\ UNCHANGED <<bucket, rows, made, reqs, jobs, work, count, astray, left>>

Request == \E r \in Requests : \E d \in Docs :
    \/ \E kept \in Docs \cup {None} : upload(r, d, kept)
    \/ delete(r, d) \/ write_object(r, d) \/ delete_object(r, d)
Handle == \E r \in Requests :
    Store(r) \/ Refused(r) \/ invalidate(r) \/ Report(r) \/ counted(r) \/ original(r) \/ undo(r)
    \/ KeptNew(r) \/ Kept(r) \/ uncounted(r) \/ enqueue(r) \/ landed(r)
Extract == \E w \in Workers :
    \/ \E j \in JobIds : Claim(w, j)
    \/ run_one(w) \/ CountText(w) \/ Complete(w) \/ MarkFailed(w) \/ Fail(w)
Sweep == idle \/ list \/ remove_under \/ ForgetUnder \/ Swept

Next ==
    \/ Request \/ Handle \/ Extract \/ Sweep
    \/ \E d \in Docs : backfill(d)
    \/ \E w \in Workers : Lapse(w)
    \/ \E r \in Requests : Dies(r)
    \/ Began \/ ListDocs \/ ListTexts \/ recount_one
    \/ StartTurn \/ EndTurn \/ GrowOld

Spec == Init /\ [][Next]_vars

\* A request runs to its end, the workers and the sweep keep running, and time
\* passes.  Nobody has to ask for anything, and no fault has to happen.
FairSpec ==
    Spec /\ WF_vars(Handle) /\ WF_vars(Extract) /\ WF_vars(Sweep) /\ WF_vars(GrowOld) /\ WF_vars(EndTurn)

-----------------------------------------------------------------------------
TypeOK ==
    /\ obj \in [Docs -> Versions] /\ text \in [Docs -> Versions] /\ failed \in [Docs -> BOOLEAN]
    /\ rows \in [Objects -> Versions] /\ made \in [Docs -> Versions]
    /\ \A r \in Requests : reqs[r].pc # "none" => reqs[r].d \in Docs
    /\ \A j \in JobIds : jobs[j].state = "running" <=> jobs[j].lease # None
    /\ lost \cup behind \subseteq Docs

AtRest == /\ \A r \in Requests : At(r, "none")
          /\ count.pc = "idle" /\ sweep.pc = "idle"
Drained == (\A w \in Workers : work[w].pc = "idle") /\ \A j \in JobIds : jobs[j].state = "none"

\* What the quota counts for a document is what the bucket holds, whenever
\* nothing is under way: a recount neither drops a file written while it
\* listed nor counts one deleted meanwhile (recount_one), and what a sweep
\* removes is not counted on.  Two changes of one document at once, or one
\* while a sweep runs, may be counted in the other order (files.rs:321-324),
\* and a pod may die before it counts: those wait for a recount that began
\* with none of them under way.
CountKept == AtRest => \A d \in Docs \ lost : rows[<<d, "doc">>] = obj[d]

\* Uploads made one after another never take a workspace past its quota,
\* with removals, refusals of the bucket and recounts between them
\* (quota::check), where no pod died before it counted what it stored.
WithinQuota == Quota > 0 /\ left["pod"] = Budget["pod"] =>
    MapThenSumSet(LAMBDA d : IF obj[d] = 0 THEN 0 ELSE Size[obj[d]], Docs) <= Quota

\* A photo whose request ends without a failure at its end is stored with its
\* original or not at all (upload: "an upload either stores both or neither").
\* Half of one stays where the bucket refuses the original and then its undoing
\* (files.rs:340), or the pod dies between the two.
PhotoWhole == \A r \in Requests :
    reqs[r].kept # None /\ reqs'[r].pc = "none" /\ left' = left
    => (obj'[reqs[r].d] = 0) = (obj'[reqs[r].kept] = 0)

\* Once extraction has caught up, a document that was read says what it
\* says now: no text of an earlier version stands for it (invalidate and
\* the jobs of one key taken one at a time), unless reading it failed for
\* good.  run_one stores what it read without asking whether its lease still
\* holds (extract.rs:351), so a reading that outlived it may stand, as may one
\* of a change that was not queued, until the document is queued again.  Of a
\* document that is gone it says nothing.
TextCurrent == AtRest /\ Drained => \A d \in Docs \ behind :
    obj[d] # 0 /\ text[d] # 0 /\ ~failed[d] => text[d] = obj[d]
=============================================================================
