-------------------------------- MODULE Upload --------------------------------
(***************************************************************************)
(* The upload of the profile image: FIRStorageReference.putData, the task   *)
(* it makes, GTMSessionUploadFetcher (the resumable upload protocol) and    *)
(* the retries of GTMSessionFetcher.  Three queues take part: the storage   *)
(* queue, the session's delegate queue and the main queue, on which all     *)
(* callbacks run; a step of this model is one block of one of them, or the  *)
(* server's.  A request that timed out on the client may still reach the    *)
(* server, later than requests sent after it.                               *)
(*                                                                          *)
(* The app drops the task putData returns, so pause, resume and cancel are  *)
(* never called; stopFetching is called by the task's dealloc.  Progress    *)
(* callbacks and the Retry-After header are left out.                       *)
(***************************************************************************)
EXTENDS Integers, Sequences

CONSTANTS
    Images,         \* lengths of the image data
    DemandBuffer,   \* kGTMSessionUploadFetcherMaximumDemandBufferSize
    Granularity,    \* the server's X-Goog-Upload-Chunk-Granularity
    Leftover,       \* the 2500 bytes for which no extra request is made
    MinIntervals,   \* the random _minRetryInterval of the first fetch
    MaxInterval,    \* maxUploadRetryTime
    MaxUploadFaults \* bound: failures of the network and the server

VARIABLES
    up,       \* the task and the upload fetcher
    fetch,    \* the fetch begun last
    main,     \* blocks dispatched to the main queue
    wire,     \* requests under way to the server
    server,   \* upload sessions on the server, in the order of their creation
    answers,  \* calls of the completion block given to putData
    mishaps   \* failures so far

upVars == <<up, fetch, main, wire, server, answers, mishaps>>

Data == [i \in 1 .. up.length |-> i]

-----------------------------------------------------------------------------
(* Blocks of the main queue, replies of the server                          *)

Block(what, err, status, size) == [what |-> what, err |-> err, status |-> status, size |-> size]

Reply(err, status, size) == [err |-> err, status |-> status, size |-> size]
NoReply == Reply("pending", "unknown", 0)

Init ==
    /\ \E length \in Images, min \in MinIntervals :
           up = [task |-> "unknown", observed |-> FALSE, completion |-> FALSE, handler |-> FALSE,
                 callbacks |-> TRUE, location |-> 0, used |-> 0, currentOffset |-> 0, initiateQuery |-> FALSE,
                 length |-> length, min |-> min, lastRetryInterval |-> 0, timer |-> FALSE, waited |-> 0]
    /\ fetch = [what |-> "none", id |-> 0, length |-> 0, stage |-> "idle", reply |-> NoReply]
    /\ main = << >>
    /\ wire = {}
    /\ server = << >>
    /\ answers = << >>
    /\ mishaps = 0

-----------------------------------------------------------------------------
(* putData, enqueue, the token                                              *)

\* observeStatus: for success and for failure, then enqueue
putData ==
    /\ up.task = "unknown" /\ ~up.observed
    /\ up' = [up EXCEPT !.observed = TRUE]
    /\ UNCHANGED <<fetch, main, wire, server, answers, mishaps>>

\* on the storage queue: beginFetch asks for a token first
enqueue ==
    /\ up.task = "unknown" /\ up.observed
    /\ up' = [up EXCEPT !.task = "running", !.completion = TRUE, !.handler = TRUE]
    /\ fetch' = [fetch EXCEPT !.what = "start", !.stage = "authorizing"]
    /\ UNCHANGED <<main, wire, server, answers, mishaps>>

\* getTokenForcingRefresh calls back
authorizeRequest ==
    /\ fetch.stage = "authorizing"
    /\ \E err \in {"none"} \cup (IF mishaps < MaxUploadFaults THEN {"token"} ELSE {}) :
           /\ main' = Append(main, Block("authorizer", err, "unknown", 0))
           /\ mishaps' = IF err = "none" THEN mishaps ELSE mishaps + 1
    /\ fetch' = [fetch EXCEPT !.stage = "authorized"]
    /\ UNCHANGED <<up, wire, server, answers>>

-----------------------------------------------------------------------------
(* Fetches                                                                  *)

\* the request of a fetch: at and bytes of a chunk, whether it finalizes
Request(what, id, at, bytes, finalize) ==
    [what |-> what, id |-> id, session |-> up.location, at |-> at, bytes |-> bytes, finalize |-> finalize]

BeginFetch(what, at, bytes, finalize) ==
    /\ fetch' = [what |-> what, id |-> fetch.id + 1, length |-> Len(bytes), stage |-> "waiting", reply |-> NoReply]
    /\ wire' = wire \cup { Request(what, fetch.id + 1, at, bytes, finalize) }

\* updateChunkFetcher:forChunkAtOffset:
ChunkSize ==
    IF Granularity = 0 THEN DemandBuffer
    ELSE IF DemandBuffer < Granularity THEN Granularity
    ELSE DemandBuffer - (DemandBuffer % Granularity)

Aligned(offset) == IF Granularity = 0 THEN offset ELSE offset - (offset % Granularity)

isFinalChunk(offset) ==
    \/ ChunkSize >= up.length - Aligned(offset)
    \/ up.length - Aligned(offset) - Leftover < ChunkSize

thisChunkSizeShort(offset) ==
    IF ChunkSize > up.length - Aligned(offset) THEN up.length - Aligned(offset) ELSE ChunkSize

thisChunkSize(offset) == IF isFinalChunk(offset) THEN up.length - Aligned(offset) ELSE ChunkSize

\* uploadNextChunkWithOffset: ends with a block that begins the fetch
NextChunk(offset) == Block("chunk", "none", "unknown", offset)

\* generateChunkSubdataWithOffset:length:response:
RangeValid(offset) == offset + thisChunkSize(offset) <= up.length

Subdata(offset) == SubSeq(Data, offset + 1, offset + thisChunkSize(offset))

-----------------------------------------------------------------------------
(* The end of an upload                                                     *)

\* the block goes to the queue and the handler kept for this end, which an
\* authorization failure has not released
FinalBlockOnBase(err) == IF up.handler /\ up.callbacks THEN <<Block("final", err, "unknown", 0)>> ELSE << >>

FinalBlock(err) == IF up.handler THEN <<Block("final", err, "unknown", 0)>> ELSE << >>

InvalidatedAlways(u, invalidate) == [u EXCEPT !.location = 0]

Invalidated(u, invalidate) == IF invalidate THEN [u EXCEPT !.location = 0] ELSE u

\* invokeFinalCallbackWithData:error:shouldInvalidateLocation:
invokeFinalCallback(err, invalidate, queue) ==
    /\ up' = [Invalidated(up, invalidate) EXCEPT !.handler = FALSE, !.callbacks = FALSE]
    /\ main' = queue \o FinalBlock(err)

-----------------------------------------------------------------------------
(* Retries of GTMSessionFetcher                                             *)

isRetryError(err) == err = "timeout"

nextRetryInterval(last) ==
    LET doubled == IF 2 * last > MaxInterval THEN MaxInterval ELSE 2 * last
    IN  IF doubled < up.min THEN up.min ELSE doubled

CanRetryOnce(last) == nextRetryInterval(last) <= MaxInterval

CanRetry(last) == nextRetryInterval(last) < MaxInterval

\* _retryWhenOffline of FIRStorage
retryWhenOffline(err) == isRetryError(err) \/ err = "offline"

\* a chunk or query fetcher is a new fetcher and has not waited yet
LastInterval == IF fetch.what = "start" THEN up.lastRetryInterval ELSE 0

\* URLSession:task:didCompleteWithError: and shouldRetryNowForStatus: on the
\* delegate queue.  late: more than three times maxRetryInterval has passed
Completed(err, status, size, late) ==
    /\ fetch' = [fetch EXCEPT !.stage = "completed", !.reply = NoReply]
    /\ main' = Append(main, Block(IF err # "none" /\ CanRetry(LastInterval) /\ ~late THEN "retryBlock" ELSE "completion",
                                  err, status, size))

\* (the app has set no cancellation handler, to which the cancel's end goes)
didComplete ==
    /\ fetch.stage = "waiting" /\ fetch.reply.err # "pending" /\ fetch.what # "cancel"
    /\ \E late \in BOOLEAN : Completed(fetch.reply.err, fetch.reply.status, fetch.reply.size, late)
    /\ UNCHANGED <<up, wire, server, answers, mishaps>>

\* the retry blocks answer; the first fetch waits, the others end and may
\* ask the server where to go on
retryBlock ==
    /\ main # << >> /\ Head(main).what = "retryBlock"
    /\ LET b == Head(main)
           ended == [b EXCEPT !.what = "completion"]
           again == retryWhenOffline(b.err)
           wait == nextRetryInterval(up.lastRetryInterval)
       IN  IF fetch.what = "start" /\ again
           THEN /\ up' = [up EXCEPT !.timer = TRUE, !.lastRetryInterval = wait, !.waited = @ + wait]
                /\ main' = Tail(main)
           ELSE /\ up' = IF fetch.what # "start" /\ again
                         THEN [up EXCEPT !.initiateQuery = fetch.what = "chunk", !.currentOffset = 0] ELSE up
                /\ main' = Append(Tail(main), ended)
    /\ UNCHANGED <<fetch, wire, server, answers, mishaps>>

retryTimerFired ==
    /\ up.timer
    /\ up' = [up EXCEPT !.timer = FALSE]
    /\ BeginFetch("start", 0, << >>, FALSE)
    /\ UNCHANGED <<main, server, answers, mishaps>>

-----------------------------------------------------------------------------
(* Blocks of the main queue                                                 *)

\* failToBeginFetchWithError: releases the fetcher's own callbacks
authorizerFinished ==
    /\ main # << >> /\ Head(main).what = "authorizer"
    /\ IF Head(main).err = "none"
       THEN /\ BeginFetch("start", 0, << >>, FALSE)
            /\ main' = Tail(main)
            /\ up' = up
       ELSE /\ fetch' = [fetch EXCEPT !.stage = "completed"]
            /\ main' = Append(Tail(main), Block("completion", "token", "unknown", 0))
            /\ up' = [up EXCEPT !.callbacks = FALSE]
            /\ wire' = wire
    /\ UNCHANGED <<server, answers, mishaps>>

\* the first fetch has ended: beginChunkFetches.  size is the new session
startFinished ==
    /\ main # << >> /\ Head(main).what = "completion" /\ fetch.what = "start"
    /\ LET b == Head(main)
       IN  IF b.err # "none" THEN invokeFinalCallback(b.err, TRUE, Tail(main))
           ELSE IF b.status # "active" \/ b.size = 0 THEN invokeFinalCallback("premature", TRUE, Tail(main))
           ELSE /\ up' = [up EXCEPT !.location = b.size, !.used = b.size]
                /\ main' = Append(Tail(main), NextChunk(0))
    /\ UNCHANGED <<fetch, wire, server, answers, mishaps>>

beginChunkFetcher ==
    /\ main # << >> /\ Head(main).what = "chunk"
    /\ LET offset == Head(main).size
       IN  IF RangeValid(offset)
           THEN /\ up' = [up EXCEPT !.currentOffset = offset]
                /\ BeginFetch("chunk", Aligned(offset), Subdata(offset), isFinalChunk(offset))
                /\ main' = Tail(main)
           ELSE /\ invokeFinalCallback("unavailable", TRUE, Tail(main))
                /\ UNCHANGED <<fetch, wire>>
    /\ UNCHANGED <<server, answers, mishaps>>

\* chunkFetcher:finishedWithData:error: when the chunk failed
BadOffset(b) == b.err = "offset" /\ b.status = "active" /\ fetch.length > 0

ChunkFailed(b) ==
    IF up.initiateQuery \/ BadOffset(b)
    THEN /\ up' = [up EXCEPT !.initiateQuery = FALSE]
         /\ BeginFetch("query", 0, << >>, FALSE)
         /\ main' = Tail(main)
    ELSE /\ invokeFinalCallback(b.err, FALSE, Tail(main))
         /\ UNCHANGED <<fetch, wire>>

\* and when it did not
ChunkUploaded(b, length) ==
    /\ IF b.status \in {"final", "cancelled"}
       THEN invokeFinalCallback(IF b.status = "cancelled" THEN "premature" ELSE "none", TRUE, Tail(main))
       ELSE /\ up' = [up EXCEPT !.currentOffset = @ + length]
            /\ main' = Append(Tail(main), NextChunk(up.currentOffset + length))
    /\ UNCHANGED <<fetch, wire>>

chunkFinished ==
    /\ main # << >> /\ Head(main).what = "completion" /\ fetch.what = "chunk"
    /\ IF Head(main).err # "none" THEN ChunkFailed(Head(main)) ELSE ChunkUploaded(Head(main), fetch.length)
    /\ UNCHANGED <<server, answers, mishaps>>

\* queryFetcher:finishedWithData:error:
queryFinished ==
    /\ main # << >> /\ Head(main).what = "completion" /\ fetch.what = "query"
    /\ LET b == Head(main)
       IN  IF b.err # "none" THEN ChunkFailed(b)
           ELSE IF b.status = "cancelled" THEN ChunkFailed([b EXCEPT !.err = "premature"])
           ELSE IF b.status = "final" \/ b.size >= up.length THEN ChunkUploaded(b, 0)
           ELSE /\ main' = Append(Tail(main), NextChunk(b.size))
                /\ UNCHANGED <<up, fetch, wire>>
    /\ UNCHANGED <<server, answers, mishaps>>

-----------------------------------------------------------------------------
(* The task hears of the end and tells its observers                        *)

FinishedAnyway(err) == "success"

FinishedOf(err) == IF err = "none" THEN "success" ELSE "failed"

\* _fetcherCompletion: state, handlers of that status, removeAllObservers
fetcherCompletion ==
    /\ main # << >> /\ Head(main).what = "final"
    /\ LET finished == FinishedOf(Head(main).err)
       IN  IF up.completion
           THEN /\ up' = [up EXCEPT !.task = finished, !.observed = FALSE, !.completion = FALSE]
                /\ main' = Tail(main) \o
                       IF up.observed THEN <<Block("handler", finished, "unknown", 0)>> ELSE << >>
           ELSE up' = up /\ main' = Tail(main)
    /\ UNCHANGED <<fetch, wire, server, answers, mishaps>>

\* the observer dispatches putData's completion block
observer ==
    /\ main # << >> /\ Head(main).what = "handler"
    /\ main' = Append(Tail(main), [Head(main) EXCEPT !.what = "answer"])
    /\ UNCHANGED <<up, fetch, wire, server, answers, mishaps>>

answer ==
    /\ main # << >> /\ Head(main).what = "answer"
    /\ answers' = Append(answers, Head(main).err)
    /\ main' = Tail(main)
    /\ UNCHANGED <<up, fetch, wire, server, mishaps>>

\* nothing refers to the task any more: stopFetching
dealloc ==
    /\ up.task \in {"success", "failed"} /\ main = << >>
    /\ up' = [up EXCEPT !.task = "gone", !.location = 0]
    /\ IF up.location # 0 THEN BeginFetch("cancel", 0, << >>, FALSE) ELSE UNCHANGED <<fetch, wire>>
    /\ UNCHANGED <<main, server, answers, mishaps>>

-----------------------------------------------------------------------------
(* The server and the network                                               *)

\* what becomes of the sessions, and the reply, when request r is served
Accepts(r) == server[r.session].status = "active" /\ r.at = Len(server[r.session].got)

Served(r) ==
    CASE r.what = "start" -> Append(server, [status |-> "active", got |-> << >>])
      [] r.what = "chunk" /\ Accepts(r) ->
             [server EXCEPT ![r.session] = [status |-> IF r.finalize THEN "final" ELSE "active", got |-> @.got \o r.bytes]]
      [] r.what = "cancel" /\ server[r.session].status = "active" -> [server EXCEPT ![r.session].status = "cancelled"]
      [] OTHER -> server

ReplyTo(r) ==
    CASE r.what = "start" -> Reply("none", "active", Len(server) + 1)
      [] r.what = "chunk" /\ Accepts(r) -> Reply("none", Served(r)[r.session].status, 0)
      [] r.what = "chunk" /\ ~Accepts(r) -> Reply("offset", server[r.session].status, 0)
      [] OTHER -> Reply("none", server[r.session].status, Len(server[r.session].got))

Replied(r, reply) == IF fetch.id = r.id /\ fetch.stage = "waiting" THEN [fetch EXCEPT !.reply = reply] ELSE fetch

Serve ==
    /\ \E r \in wire :
           /\ wire' = wire \ {r}
           /\ server' = Served(r)
           /\ fetch' = Replied(r, ReplyTo(r))
    /\ UNCHANGED <<up, main, answers, mishaps>>

\* the server refuses: 503 is retried, other codes are not; a first answer may lack a location
Refuse ==
    /\ mishaps < MaxUploadFaults
    /\ mishaps' = mishaps + 1
    /\ \E r \in wire :
           /\ r.id = fetch.id /\ r.what # "cancel"
           /\ wire' = wire \ {r}
           /\ \E reply \in {Reply("timeout", "unknown", 0), Reply("refused", "unknown", 0)}
                             \cup (IF r.what = "start" THEN {Reply("none", "active", 0)} ELSE {}) :
                  fetch' = Replied(r, reply)
    /\ UNCHANGED <<up, main, server, answers>>

\* the fetch fails on the client.  The request was never sent, or the server
\* has kept part of it, or it is on its way, or its answer is lost
Kept(r, n) == [server EXCEPT ![r.session].got = @ \o SubSeq(r.bytes, 1, n)]

Cut(r) == { n \in 1 .. Len(r.bytes) - 1 : Granularity > 0 /\ n % Granularity = 0 }

Fail ==
    /\ mishaps < MaxUploadFaults
    /\ mishaps' = mishaps + 1
    /\ fetch.stage = "waiting" /\ fetch.what # "cancel"
    /\ \E late \in BOOLEAN :
           \/ /\ Completed("timeout", "unknown", 0, late)
              /\ UNCHANGED <<wire, server>>
           \/ \E r \in wire :
                  /\ r.id = fetch.id
                  /\ wire' = wire \ {r}
                  /\ \/ Completed("offline", "unknown", 0, late) /\ UNCHANGED server
                     \/ /\ r.what = "chunk" /\ Accepts(r)
                        /\ \E n \in Cut(r) : server' = Kept(r, n)
                        /\ Completed("timeout", "unknown", 0, late)
    /\ UNCHANGED <<up, answers>>

-----------------------------------------------------------------------------

\* no block, timer or request is left, and no fetch is waited for
Still ==
    /\ main = << >> /\ ~up.timer /\ wire = {}
    /\ fetch.stage = "completed" \/ fetch.what = "cancel"

Next ==
    \/ putData \/ enqueue \/ authorizeRequest \/ authorizerFinished
    \/ didComplete \/ retryBlock \/ retryTimerFired
    \/ startFinished \/ beginChunkFetcher \/ chunkFinished \/ queryFinished
    \/ fetcherCompletion \/ observer \/ answer \/ dealloc
    \/ Serve \/ Refuse \/ Fail

Spec == Init /\ [][Next]_upVars

-----------------------------------------------------------------------------

Errors == {"none", "pending", "timeout", "offline", "refused", "offset", "token", "premature", "unavailable"}
Statuses == {"unknown", "active", "final", "cancelled"}

\* FIRStorageTask: the state of the task, whether it has observers, and whether its fetcher may still call it.
IsStorageTask(u) ==
    /\ u.task \in {"unknown", "running", "success", "failed", "gone"}
    /\ {u.observed, u.completion, u.handler, u.callbacks} \subseteq BOOLEAN
    /\ u.task = "unknown" => ~u.completion

\* GTMSessionUploadFetcher: the session on the server, the offset, the query to make, the retry timer.
IsUploadFetcher(u) ==
    /\ u.location \in 0 .. Len(server) /\ u.used \in 0 .. Len(server)
    /\ u.currentOffset \in 0 .. u.length
    /\ u.initiateQuery \in BOOLEAN /\ u.timer \in BOOLEAN
    /\ u.lastRetryInterval \in 0 .. MaxInterval

\* What the completion block of putData is called with.
Completions == {"success", "failed"}

\* The types of the state: task states, sessions, blocks and requests.
TypeOK ==
    /\ IsStorageTask(up) /\ IsUploadFetcher(up)
    /\ fetch.what \in {"none", "start", "chunk", "query", "cancel"}
    /\ fetch.reply.err \in Errors /\ fetch.reply.status \in Statuses
    /\ \A i \in 1 .. Len(main) : main[i].err \in Errors \cup Completions
    /\ \A i \in 1 .. Len(server) : server[i].status \in Statuses /\ server[i].got \in Seq(1 .. up.length)
    /\ answers \in Seq(Completions) /\ mishaps \in 0 .. MaxUploadFaults

\* The completion block of putData is called with no error only when the
\* server holds the whole image, whatever was lost, cut or delayed
\* (fetcherCompletion of FIRStorageUploadTask after queries and resends).
SuccessStored ==
    \A i \in 1 .. Len(answers) :
        answers[i] = "success" => \E s \in 1 .. Len(server) : server[s].status = "final" /\ server[s].got = Data

\* No session is ever finalized with less, more or other bytes than the
\* image's: updateChunkFetcher finalizes exactly with the chunk that ends it.
FinalizedWhole == \A s \in 1 .. Len(server) : server[s].status = "final" => server[s].got = Data

\* When nothing is left to do, the app has heard of its upload, once: also
\* when no token could be had, which releases the fetcher's callbacks before
\* the final one is called.
ToldOnce == Len(answers) <= 1 /\ (Still => Len(answers) = 1)

\* Backoffs of the first request end, and add up to "roughly twice" the
\* longest interval, as shouldRetryNowForStatus expects.
WaitsShort == up.waited <= 2 * MaxInterval

\* An upload given up does not leave the session open that it was using: the
\* error path keeps the location, by which dealloc cancels the upload (the
\* cancel request itself is not lost here).
NoneLeftOpen == Still /\ up.task = "gone" /\ up.used # 0 => server[up.used].status # "active"
===============================================================================
