------------------------------ MODULE Readers ------------------------------
(***************************************************************************)
(* What one memory says, and what it says it read: ProcessingService with  *)
(* the extractors, the video, slide, voice and picture readers and the     *)
(* enrichment behind it.                                                   *)
(*                                                                         *)
(* One memory is followed through every run it gets: its first, Celery's   *)
(* retries of one that raised, a message delivered again after a worker    *)
(* died, the finalize of a scraper run, its owner's "try again" and what   *)
(* its owner writes over it.  Text is a sequence of pieces, each known by  *)
(* where it was read.  A run works on its own copy of the row and commits  *)
(* it once, at its end; one worker at a time runs (CapturePipeline has     *)
(* two, and leaves the text out), and the owner acts between two runs.     *)
(***************************************************************************)
EXTENDS Naturals, Sequences, FiniteSets, SequencesExt

CONSTANTS
  SlideMax,        \* INSTAGRAM_SLIDE_MAX: the most slides a post has here
  VisionMax,       \* INSTAGRAM_SLIDE_VISION_MAX
  Concurrency,     \* INSTAGRAM_SLIDE_READ_CONCURRENCY
  MaxRetries,      \* max_retries of process_item
  MaxMore          \* bound: the owner's edits and retries, and the workers that die

ASSUME ReadersAssumption ==
  /\ {SlideMax, VisionMax, MaxRetries, MaxMore} \subseteq Nat
  /\ Concurrency \in Nat \ {0}

VARIABLES
  source,    \* what the memory was saved from; it does not change
  row,       \* the committed vault_items row, with its chunk
  item,      \* the copy the running task holds
  attempt,   \* which attempt of process_item it is
  pc,        \* where that task is: "idle" when there is none
  by,        \* which task it is: process_item or finalize_run
  slides,    \* the slide readers of _read_slides, by position
  late,      \* the deadline of _read_slides has passed
  queue,     \* the attempts of process_item in the broker
  scraper,   \* the provider's run for a deferred link
  more       \* the owner's edits and retries, and the deaths, so far

vars == <<source, row, item, attempt, pc, by, slides, late, queue, scraper, more>>

Least(a, b) == IF a < b THEN a ELSE b

\* The members of a set of numbers, in order.
InOrder(S) ==
  CHOOSE s \in [1..Cardinality(S) -> S] : \A m, n \in DOMAIN s : m < n => s[m] < s[n]

\* What a sequence has at some of its places, in order.
Picked(s, places) == LET at == InOrder(places) IN [n \in DOMAIN at |-> s[at[n]]]

-----------------------------------------------------------------------------
(* Text                                                                    *)

\* A stretch of text: where it was read, the number it is given in the text,
\* and for a slide which picture of the post it is.
Piece(from, label, of) == [from |-> from, label |-> label, of |-> of]

Caption     == Piece("caption", 0, 0)
Speech      == Piece("speech", 0, 0)
Frames      == Piece("frames", 0, 0)
Transcript  == Piece("transcript", 0, 0)
Description == Piece("description", 0, 0)
Document    == Piece("document", 0, 0)
Title       == Piece("title", 0, 0)
Note        == Piece("note", 0, 0)
Edited      == Piece("edited", 0, 0)
Slide(label, of) == Piece("slide", label, of)

IsVideo(p) == p.from \in {"speech", "frames"}
IsSlide(p) == p.from = "slide"

Pieces == {Caption, Speech, Frames, Transcript, Description, Document, Title, Note, Edited} \cup
            {Slide(l, o) : l \in 1..SlideMax, o \in 1..SlideMax}

\* What a memory can be saved from: something typed or uploaded, or a link one of
\* the extractors claims.  The deferred ones are read through a scraper's run.
Uploads  == {"note", "voice", "image", "document"}
Deferred == {"instagram", "facebookRun"}
Sites    == Deferred \cup {"instagramLink", "facebook", "youtube", "article"}

\* A link as it is written, and whether it is one a reader may be shown
\* (normalise_link): a bare host is taken for https unless it looks like a
\* file's name, and a host must be a plain ASCII domain.
Writings == [scheme   : {"none", "web", "other"},
             userinfo : BOOLEAN,
             host     : {"domain", "likeAFile", "noDomain", "unicode", "punycode"}]

SafeHost(host) == host \in {"domain", "likeAFile"}

Renders(w) == /\ w.scheme # "other"
              /\ ~w.userinfo
              /\ SafeHost(w.host)
              /\ w.scheme = "none" => w.host # "likeAFile"

\* Whether a text that writes these names a site: what can not be shown is passed over.
Names(written) == \E w \in written : Renders(w)
Naming == {Names({w}) : w \in Writings}

\* A document's text: its pages', each of which may be blank, or broken, which
\* does not lose the rest; none of a file that is locked or no PDF at all.
PdfText(opens, pages) == opens /\ "text" \in pages
DocumentTexts == {PdfText(opens, pages) :
                    opens \in BOOLEAN, pages \in SUBSET {"text", "blank", "broken"}}

\* The slides of a post: a carousel's pictures, each once, as many as may be.
Carousel(kind, pictures) == IF kind # "sidecar" THEN 0 ELSE Least(SlideMax, Cardinality(pictures))
Carousels == {Carousel(kind, 1..(SlideMax + 1)) : kind \in {"image", "video", "sidecar"}}

\* Whether there is a text to read (a caption, a page, a document's text), a
\* title for it (an article may have none), a video_url, whether that text
\* names a site where a video may name it too, how many slides, and for a
\* voice note whether the bucket took the recording.
Sources ==
  {s \in [from   : Uploads \cup Sites,
          text   : BOOLEAN,
          titled : BOOLEAN,
          video  : BOOLEAN,
          link   : Naming,
          slides : Carousels,
          audio  : BOOLEAN] :
     /\ s.from \in {"voice", "image", "instagramLink"} => ~s.text
     /\ s.from = "note"     => s.text
     /\ s.from = "document" => s.text \in DocumentTexts
     /\ s.audio             => s.from = "voice"
     /\ s.from # "article" => s.titled
     /\ s.video      => s.from \in {"instagram", "facebook", "facebookRun"}
     /\ s.link       => s.text /\ (s.video \/ s.from = "youtube")
     /\ s.slides > 0 => s.from = "instagram" /\ s.text /\ ~s.video}

-----------------------------------------------------------------------------
(* The row                                                                 *)

\* item_metadata, as far as a run writes it: whether the video was read
\* (None until a run has tried), the document made of it, where the site is
\* named, the slides kept in the bucket (0 for one that could not be copied);
\* and editor_doc, the document its owner wrote in its place.
NoMeta == [videoRead |-> "None", doc |-> <<>>, link |-> "none", keys |-> <<>>, editor |-> <<>>]

\* A recording is saved with its words, or refused: nothing else of it is lost
\* by its saving.
Recorded == <<Transcript>>

\* How a memory is saved: a note with what was typed, a voice note with the
\* transcript its upload was answered with, a document with the text found in it.
\* A document without any is skipped at once, as a picture is that can not be described.
Saved(s, readable) ==
  [status     |-> IF readable THEN "pending" ELSE "skipped",
   content    |-> CASE s.from = "voice"              -> Recorded
                    [] s.from = "note"               -> <<Note>>
                    [] s.from = "document" /\ s.text -> <<Document>>
                    [] OTHER                          -> <<>>,
   meta       |-> NoMeta,
   card       |-> <<>>,         \* the text summary, tags, category, label were drawn from
   highlights |-> {},
   indexed    |-> <<>>,         \* the text of the chunk
   cause      |-> "none"]       \* processing_error

Readable(s) == IF s.from = "document" THEN {s.text}
               ELSE IF s.from = "image" THEN BOOLEAN ELSE {TRUE}

NoItem == [status |-> "none"]

Init ==
  /\ source \in Sources
  /\ \E readable \in Readable(source) : row = Saved(source, readable)
  /\ item = NoItem /\ attempt = 0 /\ pc = "idle" /\ by = "none"
  /\ slides = <<>> /\ late = FALSE
  /\ queue = IF row.status = "pending" THEN <<0>> ELSE <<>>
  /\ scraper = "none"
  /\ more = 0

-----------------------------------------------------------------------------
(* The end of a run                                                        *)

Drop == /\ item' = NoItem /\ attempt' = 0 /\ pc' = "idle" /\ by' = "none"
        /\ slides' = <<>> /\ late' = FALSE

\* The task commits what it holds and returns.
Commit(i) == /\ row' = i
             /\ Drop

\* A finalize marks its run succeeded however it ends, so its own retry finds
\* the run terminal and returns.
Ended == scraper' = IF by = "finalize" THEN "done" ELSE scraper

Done(i) == Commit(i) /\ Ended /\ UNCHANGED queue

\* _fail, committed; process raises for Celery to retry unless the error is
\* permanent, and the attempt is queued again while there is one left.
Fail(i, cause, permanent) ==
  /\ Commit([i EXCEPT !.status = "failed", !.cause = cause])
  /\ Ended
  /\ queue' = IF by = "process" /\ ~permanent /\ attempt < MaxRetries
                THEN Append(queue, attempt + 1) ELSE queue

\* _skip: nothing to read, and nothing went wrong.
Skip(i) == Done([i EXCEPT !.status = "skipped"])

-----------------------------------------------------------------------------
(* A message is taken up                                                   *)

\* ProcessingService.process: any message is run, whatever the row says.
Take ==
  /\ pc = "idle" /\ queue # <<>>
  /\ item' = [row EXCEPT !.status = "processing", !.cause = "none"]
  /\ attempt' = Head(queue)
  /\ queue' = Tail(queue)
  /\ by' = "process"
  /\ pc' = CASE source.from \in Sites                        -> "extract"
             [] source.from = "voice" /\ row.content = <<>>   -> "transcribe"
             [] source.from = "image" /\ row.content = <<>>   -> "describe"
             [] OTHER                                         -> "enrich"
  /\ UNCHANGED <<source, row, slides, late, scraper, more>>

\* The scraper's run has ended, and the webhook or the sweep takes its result
\* up: a run that failed fails the memory; a completed memory is left alone.
Finalize ==
  /\ pc = "idle" /\ scraper = "running"
  /\ \/ /\ scraper' = "done"
        /\ row' = IF row.status = "completed" THEN row
                  ELSE [row EXCEPT !.status = "failed", !.cause = "scrape"]
        /\ UNCHANGED <<item, pc, by>>
     \/ /\ row.status = "completed"
        /\ scraper' = "done"
        /\ UNCHANGED <<row, item, pc, by>>
     \/ /\ row.status # "completed"
        /\ item' = row /\ by' = "finalize" /\ pc' = "extract"
        /\ UNCHANGED <<row, scraper>>
  /\ UNCHANGED <<source, attempt, slides, late, queue, more>>

-----------------------------------------------------------------------------
(* Extraction                                                              *)

\* How reading a source ends: for good, with an error worth a retry, or with
\* something.  A page that shows nothing, a refused one, a redirect loop; the
\* error rows a scraper returns, of which Instagram's may pass.
FacebookPage == {"gone", "fault", "read"}
FacebookRun  == {"gone", "read"}
InstagramRun == {"gone", "fault", "read"}
YouTubePage  == {"fault", "read"}
ArticlePage  == {"fault", "read"}
Reads(site) == CASE site = "facebook"      -> FacebookPage
                 [] site = "facebookRun"   -> FacebookRun
                 [] site = "instagram"     -> InstagramRun
                 [] site = "youtube"       -> YouTubePage
                 [] site = "article"       -> ArticlePage
                 [] site = "instagramLink" -> {"read"}

\* Starting a scraper's run: no token, a refused one or no credit are for good.
Starts == {"gone", "fault", "started"}

\* The text of an extraction.  YouTube's subtitles are asked for apart, and are
\* left out when they do not come.
Extracted(subtitles) ==
  (IF source.text THEN <<Caption>> ELSE <<>>) \o
  (IF source.from = "youtube" /\ subtitles THEN <<Transcript>> ELSE <<>>)

\* collect_links: a site named more than once is listed once, under the most
\* trusted of its sources.
Collect(written, seen, spoken) ==
  IF written THEN "caption" ELSE IF seen THEN "video" ELSE IF spoken THEN "speech" ELSE "none"

\* Mutant: an extraction is added to the text that is there.
ApplyOver(i, text) == [i EXCEPT !.content = text \o @]

\* _apply: the extraction replaces the text.  Metadata is merged over what an
\* earlier run left, so a key this extraction does not write stays; YouTube's
\* writes the links of its description and its subtitles.
Apply(i, text) == [i EXCEPT !.content = text]
WithLink(i, link) == IF source.from = "youtube" THEN [i EXCEPT !.meta.link = link] ELSE i

\* mirror_slides, given whether the scrape signed the pictures anew and which
\* of them could be copied.  A gap is kept, but none at the end.
Trimmed(keys) ==
  LET last == {k \in DOMAIN keys : keys[k] # 0} IN
  IF last = {} THEN <<>>
  ELSE SubSeq(keys, 1, CHOOSE k \in last : \A l \in last : l <= k)

KeepSlides(i, signedAnew, copied) ==
  IF source.slides = 0 \/ (~signedAnew /\ i.meta.keys # <<>>) \/ copied = {} THEN i
  ELSE [i EXCEPT !.meta.keys =
          Trimmed([k \in 1..source.slides |-> IF k \in copied THEN k ELSE 0])]

\* The scraper's run is started, and the task hands the memory over to it.
Start ==
  /\ pc = "extract" /\ by = "process" /\ source.from \in Deferred
  /\ \E end \in Starts :
       IF end = "started" THEN Commit(item) /\ scraper' = "running" /\ UNCHANGED queue
       ELSE Fail(item, "scrape", end = "gone")
  /\ UNCHANGED <<source, more>>

\* The page, or the payload of the run, is read.  A post that may not be
\* scraped is kept as a link, and is not enriched.
Extract ==
  /\ pc = "extract" /\ (source.from \in Deferred => by = "finalize")
  /\ \E end \in Reads(source.from) :
       \/ end # "read" /\ Fail(item, "scrape", end = "gone")
       \/ end = "read" /\ source.from = "instagramLink" /\ Skip(Apply(item, <<>>))
       \/ /\ end = "read" /\ source.from # "instagramLink"
          /\ \E signedAnew, subtitles \in BOOLEAN, named \in Naming,
                copied \in SUBSET (1..source.slides) :
               item' = KeepSlides(WithLink(Apply(item, Extracted(subtitles)),
                                           Collect(source.link, FALSE, subtitles /\ named)),
                                  signedAnew, copied)
          /\ pc' = "video"
          /\ UNCHANGED <<row, attempt, by, slides, late, queue, scraper>>
  /\ UNCHANGED <<source, more>>

-----------------------------------------------------------------------------
(* The video                                                               *)

\* fetch_video: the bytes; a refusal of the link (too large, expired, empty,
\* redirected too often, an unsafe address); or the network's own error.
Downloads == {"bytes", "refused", "network"}

\* sample_frames: a file that is no video, or too long; one no frame of which
\* decodes; or frames.
Samples == {"unreadable", "noFrames", "frames"}

\* read_frames, after the retries of the call: text, nothing, or a fault.
Sights == {"text", "nothing", "fault"}

\* read_video of the downloaded bytes: the pieces that were read, and how it
\* ended.  The speech is transcribed first and never fails; frames that cannot
\* be read are survived, and a provider's fault is not.
ReadVideo(sample, heard, sight) ==
  IF sample = "unreadable" THEN [end |-> "refused", text |-> <<>>]
  ELSE IF sample = "frames" /\ sight = "fault" THEN [end |-> "fault", text |-> <<>>]
  ELSE [end  |-> "read",
        text |-> (IF heard THEN <<Speech>> ELSE <<>>) \o
                 (IF sample = "frames" /\ sight = "text" THEN <<Frames>> ELSE <<>>)]

Readings ==
  {[end |-> "refused", text |-> <<>>], [end |-> "network", text |-> <<>>]} \cup
  {ReadVideo(sample, heard, sight) :
     sample \in Samples, heard \in BOOLEAN, sight \in Sights}

\* The document the reading view shows: the caption, what was said, what was
\* seen (video_doc.build); the sanitiser may refuse it.
VideoDoc(content) == Picked(content, {n \in DOMAIN content : ~IsSlide(content[n])})

\* Mutant: only a reading that succeeded writes what it found.
WithVideoKept(i, text, link, accepted) ==
  LET content == i.content \o text
      read    == [i EXCEPT !.content = content, !.meta.videoRead = "yes", !.meta.link = link] IN
  IF text = <<>> THEN i
  ELSE IF accepted THEN [read EXCEPT !.meta.doc = VideoDoc(content)] ELSE read

\* _read_video's bookkeeping, whether or not anything was read.
WithVideo(i, text, link, accepted) ==
  LET content == i.content \o text
      read    == [i EXCEPT !.content = content, !.meta.videoRead = "yes", !.meta.link = link] IN
  IF text = <<>> THEN [i EXCEPT !.meta.videoRead = "no", !.meta.link = link]
  ELSE IF accepted THEN [read EXCEPT !.meta.doc = VideoDoc(content)] ELSE read

\* _read_video: an answer that there is nothing to read leaves the caption; a
\* provider's fault degrades when there is one and is raised when there is
\* not; the network's error is not caught.
Watch ==
  /\ pc = "video"
  /\ \/ /\ ~source.video
        /\ item' = item /\ pc' = "keys"
        /\ UNCHANGED <<row, attempt, by, slides, late, queue, scraper>>
     \/ /\ source.video
        /\ \E r \in Readings :
             IF \/ r.end = "network"
                \/ r.end = "fault" /\ item.content = <<>>
             THEN Fail(item, "video", FALSE)
             ELSE /\ \E accepted \in BOOLEAN, named \in Naming :
                       LET seen   == named /\ Frames \in ToSet(r.text)
                           spoken == named /\ Speech \in ToSet(r.text)
                       IN  item' = WithVideo(item, r.text, Collect(source.link, seen, spoken),
                                             accepted)
                  /\ pc' = "keys"
                  /\ UNCHANGED <<row, attempt, by, slides, late, queue, scraper>>
  /\ UNCHANGED <<source, more>>

-----------------------------------------------------------------------------
(* The slides                                                              *)

\* The pictures that are in the bucket, in order: a slide is numbered by its
\* place among them.
Kept(i) == Picked(i.meta.keys, {k \in DOMAIN i.meta.keys : i.meta.keys[k] # 0})

\* One reader for each, up to the budget.
OpenSlides ==
  /\ pc = "keys"
  /\ LET n == Least(VisionMax, Len(Kept(item))) IN
     /\ slides' = [k \in 1..n |-> "waiting"]
     /\ pc' = IF n = 0 THEN "enrich" ELSE "slides"
  /\ UNCHANGED <<source, row, item, attempt, by, late, queue, scraper, more>>

Waiting == {k \in DOMAIN slides : slides[k] = "waiting"}
Reading == {k \in DOMAIN slides : slides[k] = "reading"}

\* The semaphore lets the readers in in the order they came.  One that is let
\* in after the deadline reads nothing.
Enter(k) ==
  /\ pc = "slides"
  /\ k \in Waiting /\ \A l \in Waiting : k <= l
  /\ Cardinality(Reading) < Concurrency
  /\ slides' = [slides EXCEPT ![k] = IF late THEN "dropped" ELSE "reading"]
  /\ UNCHANGED <<source, row, item, attempt, pc, by, late, queue, scraper, more>>

\* Mutant: a slide reader that gets no answer waits for one.
WaitForever(k) ==
  /\ pc = "slides" /\ k \in Reading /\ ~late
  /\ \E answer \in {"read", "dropped"} : slides' = [slides EXCEPT ![k] = answer]
  /\ UNCHANGED <<source, row, item, attempt, pc, by, late, queue, scraper, more>>

\* A slide is read, or dropped: no text on it, a provider's fault, a picture
\* missing from the bucket.
Answer(k) ==
  /\ pc = "slides" /\ k \in Reading
  /\ \E answer \in {"read", "dropped"} : slides' = [slides EXCEPT ![k] = answer]
  /\ UNCHANGED <<source, row, item, attempt, pc, by, late, queue, scraper, more>>

Deadline ==
  /\ pc = "slides" /\ ~late
  /\ late' = TRUE
  /\ UNCHANGED <<source, row, item, attempt, pc, by, slides, queue, scraper, more>>

\* What the readers bring back, in the order of the slides.
SlideTexts(i) ==
  Picked([k \in DOMAIN slides |-> Slide(k, Kept(i)[k])],
         {k \in DOMAIN slides : slides[k] = "read"})

WithSlides(i, texts) ==
  IF texts = <<>> THEN i
  ELSE [i EXCEPT !.content = @ \o texts]

CloseSlides ==
  /\ pc = "slides" /\ Waiting \cup Reading = {}
  /\ item' = WithSlides(item, SlideTexts(item))
  /\ pc' = "enrich" /\ slides' = <<>> /\ late' = FALSE
  /\ UNCHANGED <<source, row, attempt, by, queue, scraper, more>>

-----------------------------------------------------------------------------
(* The other readers                                                       *)

\* How a recording is answered: its words; none, or no recording at all; or a
\* fault, after the retries of the call.  The same of a picture.
Heard  == {"text", "nothing", "fault"}
Looked == {"text", "nothing", "fault"}

\* Nothing to hear or see is not a failure, nor is a reader that is not
\* configured; a provider's fault, or the bucket's, is.
Upload(cause, answers, piece) ==
  /\ \E answer \in answers :
       \/ answer = "nothing" /\ Skip(item)
       \/ answer = "fault" /\ Fail(item, cause, FALSE)
       \/ /\ answer = "text"
          /\ item' = [item EXCEPT !.content = <<piece>>]
          /\ pc' = "enrich"
          /\ UNCHANGED <<row, attempt, by, slides, late, queue, scraper>>
  /\ UNCHANGED <<source, more>>

Transcribe == pc = "transcribe" /\ Upload("speech", Heard, Transcript)
Describe   == pc = "describe" /\ Upload("vision", Looked, Description)

-----------------------------------------------------------------------------
(* Enrichment                                                              *)

\* The text is the content, or the title where there is none.
TextOf(i) == IF i.content = <<>> /\ source.titled THEN <<Title>> ELSE i.content

\* enrich: one call for the whole card, when it is configured.  The answer must
\* be an object with a summary; its tags and its category are made to fit.
CombinedAnswers == {"fault", "nothing", "notJson", "noSummary", "card"}
Combined(available, answer) == available /\ answer = "card"

\* The four questions asked apart, each up to three times: whatever text is
\* answered is taken, and made to fit.
Questions == {"summary", "tags", "category", "label"}
Separate(faults) == faults = {}

\* _card_fields: the combined call; when it answers nothing usable, the four
\* separate ones; the error of any of these is the run's.
CardFields == {Combined(available, answer) \/ Separate(faults) :
                 available \in BOOLEAN, answer \in CombinedAnswers, faults \in SUBSET Questions}

\* Mutant: quotes are not checked against the text.
KeepAll(spans, content) == spans

\* keep_verbatim: of the spans the model quotes, those that are in the text.
\* A span is a piece it was taken from; one it made up is in none.
KeepVerbatim(spans, content) == spans \cap ToSet(content)

\* What the model quotes, whatever it can think of, most of it in no text at all:
\* a list, or what stands in quotes in its prose, or nothing to be made out.
Spans == {Pieces, {}}

\* What an embedding input says: title and summary, and the text.  The vector
\* is made as wide as the column, unless the call faults three times.
EmbedInput(i) == TextOf(i)
Embeddings == {"vector", "fault"}

Enrich ==
  /\ pc = "enrich"
  /\ \E card \in CardFields, answered \in BOOLEAN, spans \in Spans, embedding \in Embeddings :
       LET quoted == IF item.content = <<>> THEN {} ELSE KeepVerbatim(spans, item.content)
           i == [item EXCEPT !.card = TextOf(item), !.highlights = quoted]
       IN  IF TextOf(item) = <<>> THEN Fail(item, "empty", FALSE)
           ELSE IF ~card \/ (item.content # <<>> /\ ~answered)
             THEN Fail(item, "model", FALSE)
           ELSE IF embedding = "fault" THEN Fail(i, "model", FALSE)
           ELSE Done([i EXCEPT !.status = "completed", !.indexed = EmbedInput(i)])
  /\ UNCHANGED <<source, more>>

-----------------------------------------------------------------------------
(* Its owner, and the workers that die                                     *)

\* A block the editor sends, of a kind it may be and with something in it or
\* not; a rule has nothing in it, and is a line of the text all the same.
Blocks == {"written", "rule", "blank", "unknownKind"}
CleanBlock(block) == block \in {"written", "rule"}

\* sanitize: the document and its plain text are what is left of the blocks,
\* which must be something and not too much.  Of the words that were there the
\* owner keeps all or none.
Sanitized(blocks, fits, kept) ==
  IF fits /\ \E block \in blocks : CleanBlock(block) THEN Append(kept, Edited) ELSE <<>>

\* update_content: the text is replaced, and the quotes checked against it
\* again.  The card and the index stay as they were.
Edit ==
  /\ more < MaxMore /\ pc = "idle"
  /\ \E blocks \in SUBSET Blocks, fits \in BOOLEAN, kept \in {<<>>, row.content} :
       LET text == Sanitized(blocks, fits, kept) IN
       /\ text # <<>>
       /\ row' = [row EXCEPT !.content = text, !.meta.editor = text,
                             !.highlights = KeepVerbatim(@, text)]
  /\ more' = more + 1
  /\ UNCHANGED <<source, item, attempt, pc, by, slides, late, queue, scraper>>

\* VaultService.reprocess: a finished memory is taken up again only when it is
\* a voice note with its recording, or a video whose reading did not succeed;
\* a voice note loses its words first, which the audio is there to give back.
Retranscribable == source.from = "voice" /\ source.audio
Revideoable(r) == source.video /\ r.meta.videoRead # "yes"
Reprocess ==
  /\ more < MaxMore
  /\ row.status \notin {"pending", "processing"}
  /\ row.status = "completed" => Retranscribable \/ Revideoable(row)
  /\ pc = "idle"
  /\ more' = more + 1
  /\ row' = [row EXCEPT !.status = "pending", !.cause = "none",
                        !.content = IF Retranscribable THEN <<>> ELSE @]
  /\ queue' = Append(queue, 0)
  /\ UNCHANGED <<source, item, attempt, pc, by, slides, late, scraper>>

\* The worker is killed: its transaction is lost.  A process_item message goes
\* back to the queue; a finalize's run is still marked running.
Crash ==
  /\ pc # "idle" /\ more < MaxMore
  /\ more' = more + 1
  /\ queue' = IF by = "process" THEN Append(queue, attempt) ELSE queue
  /\ Drop
  /\ UNCHANGED <<source, row, scraper>>

\* It is killed after its commit and before the message is acknowledged.
Redelivered ==
  /\ pc = "idle" /\ more < MaxMore
  /\ row.status \in {"completed", "skipped", "failed"} /\ queue = <<>>
  /\ more' = more + 1
  /\ queue' = <<0>>
  /\ UNCHANGED <<source, row, item, attempt, pc, by, slides, late, scraper>>

ReadSlides == OpenSlides \/ (\E k \in DOMAIN slides : Enter(k) \/ Answer(k)) \/ CloseSlides

Work == \/ Take \/ Finalize \/ Start \/ Extract \/ Watch \/ ReadSlides
        \/ Transcribe \/ Describe \/ Enrich

Next == Work \/ Deadline \/ Edit \/ Reprocess \/ Crash \/ Redelivered

Spec == Init /\ [][Next]_vars

\* A worker takes what is queued and its calls return, with an answer or a
\* client's timeout.
FairSpec == Spec /\ WF_vars(Work)

-----------------------------------------------------------------------------
(* Properties                                                              *)

Metas == [videoRead : {"None", "yes", "no"}, doc : Seq(Pieces),
          link : {"none", "caption", "video", "speech"},
          keys : Seq(0..SlideMax), editor : Seq(Pieces)]

Rows == [status     : {"pending", "processing", "completed", "skipped", "failed"},
         content    : Seq(Pieces),
         meta       : Metas,
         card       : Seq(Pieces),
         highlights : SUBSET Pieces,
         indexed    : Seq(Pieces),
         cause      : {"none", "scrape", "video", "speech", "vision", "empty", "model"}]

\* Every variable has its type; no more slide readers are at work than the
\* semaphore admits, and none is left behind by a run that is over.
TypeOK ==
  /\ source \in Sources
  /\ row \in Rows
  /\ pc = "idle" <=> item = NoItem
  /\ pc # "idle" => item \in Rows
  /\ attempt \in 0..MaxRetries
  /\ pc \in {"idle", "extract", "video", "keys", "slides", "transcribe", "describe", "enrich"}
  /\ by \in {"none", "process", "finalize"}
  /\ slides \in Seq({"waiting", "reading", "read", "dropped"}) /\ Len(slides) <= VisionMax
  /\ Cardinality(Reading) <= Concurrency
  /\ pc # "slides" => slides = <<>> /\ ~late
  /\ queue \in Seq(0..MaxRetries)
  /\ scraper \in {"none", "running", "done"}
  /\ more \in 0..MaxMore

Completed == row.status = "completed"
Unedited  == row.meta.editor = <<>>

\* Whose turn it is in the text of a link that was read.
Turn(p) == CASE p = Caption                -> 1
             [] p \in {Speech, Transcript} -> 2
             [] p = Frames                 -> 3
             [] IsSlide(p)                 -> 4
             [] OTHER                      -> 0

\* Whatever failed to be read, and however many runs it took, a finished
\* memory still opens with what its author wrote, once; a machine's account
\* of it follows: what was heard, what was seen, then the slides, in the order
\* of the post and no more of them than the budget (_read_video, "appends
\* rather than replaces"; _read_slides, "never substituted").
AuthorSpeaksFirst ==
  Completed /\ Unedited /\ source.from \in Sites =>
    LET text == row.content IN
    /\ source.text <=> Caption \in ToSet(text)
    /\ IsInjective(text)
    /\ \A p \in ToSet(text) : Turn(p) # 0
    /\ \A a, b \in DOMAIN text : a < b =>
         /\ Turn(text[a]) <= Turn(text[b])
         /\ IsSlide(text[a]) => text[a].of < text[b].of
    /\ Cardinality({a \in DOMAIN text : IsSlide(text[a])}) <= VisionMax

\* A finished memory quotes no words that are not in it, also when its owner has
\* written over them since (update_content); and unless its owner has, its card
\* and its index were drawn from the very text it holds, never from what an
\* earlier run read or from what was there before the video and the slides.
DrawnFromWhatItSays ==
  Completed => /\ row.highlights \subseteq ToSet(row.content)
               /\ row.indexed = row.card
               /\ Unedited => row.card = TextOf(row)

\* What a finished memory says of its reading is true of the text it holds,
\* after any number of runs: its video was read if and only if the reading is
\* there (the flag decides whether its owner may ask for another); a site is
\* its author's if the author named it, and otherwise some machine's whose
\* account is there (collect_links, "ordered by trust").
SaysWhatItRead ==
  Completed /\ Unedited /\ source.from \in Sites =>
    LET text == ToSet(row.content) IN
    /\ row.meta.videoRead = "yes" <=> \E p \in text : IsVideo(p)
    /\ source.link => row.meta.link = "caption"
    /\ row.meta.link = "video"  => Frames \in text
    /\ row.meta.link = "speech" => {Speech, Transcript} \cap text # {}

\* A memory that is waiting or being read is one day finished, skipped or
\* failed, although slides never answer in time and workers die.
RunsSettle ==
  [](row.status \in {"pending", "processing"} =>
       <>(row.status \in {"completed", "skipped", "failed"}))

\* What the docs of editor_doc and of UpdateContentRequest say: the text of a
\* memory its owner has written over is that of the document the reader shows.
OneBody ==
  ~Unedited => row.content = row.meta.editor

\* What the doc of mirror_slides and its test say: a slide is called by its
\* number in the post, although others could not be copied.
NumberedAsPosted ==
  Completed => \A p \in ToSet(row.content) : IsSlide(p) => p.label = p.of

\* What the doc of _read_video says: where there is a caption, a fault of the
\* provider or of the network while its video is read does not fail the memory.
CaptionOutlivesTheVideo ==
  row.status = "failed" /\ source.text => row.cause # "video"

=============================================================================
