------------------------------ MODULE RagIndex ------------------------------
(***************************************************************************)
(* The documentation index of the agent: extract_docs.py turns docstrings   *)
(* and dbt descriptions into docs_data.json, ingest.py deletes the          *)
(* collection and fills it anew from that file and the README, and          *)
(* retrieve_context looks the collection up and queries it, while people    *)
(* edit what is documented.                                                 *)
(*                                                                          *)
(* The two scripts are run by hand, each by one person at a time; either    *)
(* may end at any point.  A text is a sequence of the bodies it is made of. *)
(***************************************************************************)
EXTENDS Naturals, SequencesExt

CONSTANTS
    Files,          \* in the order of rglob, sorted: name, source, excluded
    Documented,     \* of a file: the names with a docstring, in order
    Texts,          \* what a file's documentation may say
    Readmes,        \* states of the README: sequences of headers with level, title, body
    BatchSize,      \* BATCH_SIZE: 100
    NResults,       \* N_RESULTS: 6
    Readers         \* threads in retrieve_context

Blank == "blank"            \* a body of spaces
Malformed == "malformed"    \* does not parse

FileNames == {Files[k].name : k \in 1 .. Len(Files)}

IsSequence(s) == s \in Seq(ToSet(s))

ASSUME BoundsAssumption == BatchSize \in Nat \ {0} /\ NResults \in Nat \ {0}
ASSUME SequencesAssumption ==
    /\ IsSequence(Files) /\ \A f \in FileNames : IsSequence(Documented[f])
    /\ \A h \in Readmes : IsSequence(h) /\ \A i \in 1 .. Len(h) : h[i].level \in Nat

VARIABLES
    sources,    \* what each file says
    readme,
    docsData,   \* docs_data.json: absent, cut short, or documents
    extractor,  \* extract_docs.py: its step and the documents it has in memory
    ingester,   \* ingest.py: its step, all_chunks, and where the batch starts
    collection, \* the collection project_docs: is it there, and its chunks
    reader,     \* retrieve_context: step, its collection, what it returned
    fresh,      \* history: is docs_data.json, is the index up to date?
    settled     \* history: has the index been left alone since the last good ingest?

indexVars == <<sources, readme, docsData, extractor, ingester, collection, reader,
               fresh, settled>>

Document(source, file, name, text) ==
    [source |-> source, file |-> file, name |-> name, text |-> text]
-----------------------------------------------------------------------------
\* extract_docs.py

\* The docstrings of a module that parses, the descriptions of a schema.yml.
DocsOfFile(f) ==
    IF f.excluded \/ sources[f.name] = Malformed
    THEN <<>>
    ELSE [k \in 1 .. Len(Documented[f.name]) |->
             Document(f.source, f.name, Documented[f.name][k], <<sources[f.name]>>)]

ExtractDocs == FlattenSeq([k \in 1 .. Len(Files) |-> DocsOfFile(Files[k])])

\* A schema.yml that does not parse raises; a module is skipped.  A file that cannot be
\* read at all raises too, before anything is written, like an extraction that is not made.
ExtractRaises ==
    \E k \in 1 .. Len(Files) :
        /\ Files[k].source = "dbt" /\ ~Files[k].excluded
        /\ sources[Files[k].name] = Malformed
-----------------------------------------------------------------------------
\* ingest.chunk_readme

\* The last header before the next one of the same or a shallower level.
SectionEnd(h, i) ==
    CHOOSE j \in i .. Len(h) :
        /\ \A k \in i + 1 .. j : h[k].level > h[i].level
        /\ j = Len(h) \/ h[j + 1].level <= h[i].level

Chunk(h, i, j) ==
    Document("readme", "README.md", h[i].title, [k \in 1 .. j - i + 1 |-> h[i + k - 1].body])

\* Mutant: what stands between a section and its first sub-section is left out.
ChunkOfChildren(h, i) ==
    IF h[i].level = 2 /\ SectionEnd(h, i) > i THEN <<>> ELSE <<Chunk(h, i, SectionEnd(h, i))>>

\* What a header yields: a ## section with sub-sections its introduction, if any; others
\* the whole span.
ChunkOfHeader(h, i) ==
    IF h[i].level = 2 /\ SectionEnd(h, i) > i
    THEN IF h[i].body = Blank THEN <<>> ELSE <<Chunk(h, i, i)>>
    ELSE <<Chunk(h, i, SectionEnd(h, i))>>

ChunkReadme(h) == FlattenSeq([i \in 1 .. Len(h) |-> ChunkOfHeader(h, i)])
-----------------------------------------------------------------------------
NoReader == [step |-> "idle", handle |-> "none", result |-> {}, calm |-> TRUE]
NoIngest == [step |-> "idle", chunks |-> <<>>, start |-> 0]
NoExtract == [step |-> "idle", docs |-> <<>>]
NoIndex == [there |-> FALSE, chunks |-> {}]

IndexInit ==
    /\ sources \in [FileNames -> Texts]
    /\ readme \in Readmes
    /\ docsData = [state |-> "absent", docs |-> <<>>]
    /\ extractor = NoExtract
    /\ ingester = NoIngest
    /\ collection = NoIndex
    /\ reader = [q \in Readers |-> NoReader]
    /\ fresh = [json |-> FALSE, reading |-> FALSE, filling |-> FALSE, index |-> FALSE]
    /\ settled = FALSE

\* Somebody edits a documented file, or the README.
EditSource ==
    /\ \E f \in FileNames, t \in Texts \cup {Malformed} :
           /\ sources[f] # t
           /\ sources' = [sources EXCEPT ![f] = t]
    /\ fresh' = [json |-> FALSE, reading |-> FALSE, filling |-> FALSE, index |-> FALSE]
    /\ UNCHANGED <<readme, docsData, extractor, ingester, collection, reader, settled>>

EditReadme ==
    /\ \E h \in Readmes : h # readme /\ readme' = h
    /\ fresh' = [fresh EXCEPT !.filling = FALSE, !.index = FALSE]
    /\ UNCHANGED <<sources, docsData, extractor, ingester, collection, reader, settled>>
-----------------------------------------------------------------------------
\* extract_docs.main: documents in memory, then write_text, which opens the file
\* before it fills it.
Extract ==
    /\ extractor.step = "idle"
    /\ ~ExtractRaises
    /\ extractor' = [step |-> "open", docs |-> ExtractDocs]
    /\ fresh' = [fresh EXCEPT !.reading = TRUE]
    /\ UNCHANGED <<sources, readme, docsData, ingester, collection, reader, settled>>

OpenDocsData ==
    /\ extractor.step = "open"
    /\ extractor' = [extractor EXCEPT !.step = "write"]
    /\ docsData' = [state |-> "torn", docs |-> <<>>]
    /\ fresh' = [fresh EXCEPT !.json = FALSE]
    /\ UNCHANGED <<sources, readme, ingester, collection, reader, settled>>

WriteDocsData ==
    /\ extractor.step = "write"
    /\ docsData' = [state |-> "whole", docs |-> extractor.docs]
    /\ extractor' = NoExtract
    /\ fresh' = [fresh EXCEPT !.json = fresh.reading]
    /\ UNCHANGED <<sources, readme, ingester, collection, reader, settled>>

ExtractBreaks ==
    /\ extractor.step # "idle"
    /\ extractor' = NoExtract
    /\ UNCHANGED <<sources, readme, docsData, ingester, collection, reader, fresh, settled>>
-----------------------------------------------------------------------------
\* ingest.ingest

Disturb(r) == [q \in Readers |-> [r[q] EXCEPT !.calm = FALSE]]

\* Mutant: the collection is kept, and written over.
KeepCollection ==
    /\ ingester.step = "idle"
    /\ ingester' = [NoIngest EXCEPT !.step = "create"]
    /\ reader' = Disturb(reader)
    /\ settled' = FALSE
    /\ fresh' = [fresh EXCEPT !.index = FALSE]
    /\ UNCHANGED <<sources, readme, docsData, extractor, collection>>

\* What others have looked up is gone with the collection.
DeleteCollection ==
    /\ ingester.step = "idle"
    /\ ingester' = [NoIngest EXCEPT !.step = "create"]
    /\ collection' = NoIndex
    /\ reader' = [q \in Readers |->
                     [Disturb(reader)[q] EXCEPT !.handle = IF @ = "live" THEN "dead" ELSE @]]
    /\ settled' = FALSE
    /\ fresh' = [fresh EXCEPT !.index = FALSE]
    /\ UNCHANGED <<sources, readme, docsData, extractor>>

CreateCollection ==
    /\ ingester.step = "create"
    /\ ingester' = [ingester EXCEPT !.step = "read"]
    /\ collection' = [collection EXCEPT !.there = TRUE]
    /\ UNCHANGED <<sources, readme, docsData, extractor, reader, fresh, settled>>

\* A file that is not there, or not whole, raises: the collection is empty by then.
ReadChunks ==
    /\ ingester.step = "read"
    /\ IF docsData.state = "whole"
       THEN ingester' = [step |-> "fill", chunks |-> docsData.docs \o ChunkReadme(readme),
                         start |-> 0]
       ELSE ingester' = NoIngest
    /\ fresh' = [fresh EXCEPT !.filling = fresh.json]
    /\ UNCHANGED <<sources, readme, docsData, extractor, collection, reader, settled>>

MakeId(doc, index) == <<doc.source, doc.file, doc.name, index>>

UpsertBatch ==
    LET all == ingester.chunks
        batch == ingester.start + 1 ..
                     (IF ingester.start + BatchSize < Len(all)
                      THEN ingester.start + BatchSize ELSE Len(all))
        new == {[id |-> MakeId(all[k], k), doc |-> all[k]] : k \in batch}
    IN  /\ ingester.step = "fill"
        /\ ingester.start < Len(all)
        /\ collection' = [collection EXCEPT !.chunks =
               {c \in @ : \A n \in new : n.id # c.id} \cup new]
        /\ ingester' = [ingester EXCEPT !.start = @ + BatchSize]
        /\ UNCHANGED <<sources, readme, docsData, extractor, reader, fresh, settled>>

IngestEnds ==
    /\ ingester.step = "fill"
    /\ ingester.start >= Len(ingester.chunks)
    /\ ingester' = NoIngest
    /\ fresh' = [fresh EXCEPT !.index = fresh.filling]
    /\ settled' = TRUE
    /\ UNCHANGED <<sources, readme, docsData, extractor, collection, reader>>

\* At any point, also where the README is missing or cannot be read.
IngestBreaks ==
    /\ ingester.step # "idle"
    /\ ingester' = NoIngest
    /\ UNCHANGED <<sources, readme, docsData, extractor, collection, reader, fresh, settled>>
-----------------------------------------------------------------------------
\* retrieval.retrieve_context, for a request to the agent

GetCollection(q) ==
    /\ reader[q].step = "idle"
    /\ reader' = [reader EXCEPT ![q] =
           [step |-> IF collection.there THEN "query" ELSE "raised",
            handle |-> IF collection.there THEN "live" ELSE "none",
            result |-> {}, calm |-> settled]]
    /\ UNCHANGED <<sources, readme, docsData, extractor, ingester, collection, fresh, settled>>

\* The nearest chunks: any, as far as there are enough.
Query(q) ==
    /\ reader[q].step = "query"
    /\ IF reader[q].handle = "dead"
       THEN reader' = [reader EXCEPT ![q].step = "raised"]
       ELSE \E found \in SUBSET collection.chunks :
                /\ Cardinality(found) = IF Cardinality(collection.chunks) < NResults
                                        THEN Cardinality(collection.chunks) ELSE NResults
                /\ reader' = [reader EXCEPT ![q].step = "answered", ![q].result = found]
    /\ UNCHANGED <<sources, readme, docsData, extractor, ingester, collection, fresh, settled>>

\* Mutant: the collection that was looked up is kept for the next request.
KeepHandle(q) ==
    /\ reader[q].step \in {"answered", "raised"}
    /\ reader' = [reader EXCEPT ![q] = [NoReader EXCEPT
           !.step = IF reader[q].handle = "none" THEN "idle" ELSE "query",
           !.handle = reader[q].handle, !.calm = settled]]
    /\ UNCHANGED <<sources, readme, docsData, extractor, ingester, collection, fresh, settled>>

Return(q) ==
    /\ reader[q].step \in {"answered", "raised"}
    /\ reader' = [reader EXCEPT ![q] = NoReader]
    /\ UNCHANGED <<sources, readme, docsData, extractor, ingester, collection, fresh, settled>>

IndexNext ==
    \/ EditSource \/ EditReadme
    \/ Extract \/ OpenDocsData \/ WriteDocsData \/ ExtractBreaks
    \/ DeleteCollection \/ CreateCollection \/ ReadChunks \/ UpsertBatch
    \/ IngestEnds \/ IngestBreaks
    \/ \E q \in Readers : GetCollection(q) \/ Query(q) \/ Return(q)

IndexSpec == IndexInit /\ [][IndexNext]_indexVars
-----------------------------------------------------------------------------
Indexed == {c.doc : c \in collection.chunks}
Count(docs, doc) == Cardinality({k \in 1 .. Len(docs) : docs[k] = doc})

\* An index whose sources have not been edited since they were read holds what they
\* say, each document as often as it occurs, and nothing of an earlier ingest: although
\* it takes two scripts, either of which may have broken off before, and documents of a
\* file may share their name (_make_id).
IndexIsFaithful ==
    fresh.index =>
        LET all == ExtractDocs \o ChunkReadme(readme)
        IN  /\ Indexed = ToSet(all)
            /\ \A doc \in Indexed :
                   Cardinality({c \in collection.chunks : c.doc = doc}) = Count(all, doc)

\* Everything the README says under its headers is in a chunk, under the header it
\* stands below or one above it in the same section (chunk_readme).
ReadmeIsCovered ==
    \A i \in 1 .. Len(readme) :
        readme[i].body # Blank =>
            \E k \in 1 .. i :
                /\ \A m \in k + 1 .. i : readme[m].level > readme[k].level
                /\ \E chunk \in ToSet(ChunkReadme(readme)) :
                       /\ chunk.name = readme[k].title
                       /\ readme[i].body \in ToSet(chunk.text)

\* A request that no ingest overlaps, after one that ended well, is answered, with as
\* many chunks as it asks for if the index has them (retrieve_context).
QuietReadsAreWhole ==
    \A q \in Readers :
        reader[q].calm =>
            /\ reader[q].step # "raised"
            /\ reader[q].step = "answered" =>
                   /\ reader[q].result \subseteq collection.chunks
                   /\ Cardinality(reader[q].result) < NResults
                          => reader[q].result = collection.chunks
=============================================================================
