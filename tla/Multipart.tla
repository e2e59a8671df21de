----------------------------- MODULE Multipart ------------------------------
(* A multipart form on its way from MultipartEncoder                        *)
(* (vibora/multipart/containers.py) through chunks of any size into         *)
(* MultipartParser and SmartFile (vibora/multipart/parser.pyx), and the     *)
(* reading of an uploaded file.  An action after Feed is a part of the loop *)
(* of feed(), which runs until it returns.                                  *)
EXTENDS Integers, Sequences, SequencesExt, FiniteSetsExt

CONSTANTS
    Bytes,          \* what values and the boundary are made of
    Names,          \* what parts are called
    Forms,          \* what is posted: sequences of [name, content]
    Boundary,       \* the boundary with its two leading dashes
    FlushFactor,    \* 40 in the code: when a long value is flushed
    InMemoryLimit,  \* in_memory_limit of a SmartFile
    MaxChunk,       \* bound on the chunks of the body
    Counts          \* how much a handler reads of a file at once, 0 for all

VARIABLES
    Parts,      \* the form of this body
    fed,        \* bytes of the body that feed() was given
    data,       \* pending_data
    status,     \* EXPECTING_BOUNDARY, ..._CONTENT_HEADERS or ..._BUFFER
    values,     \* what was written for each name
    current,    \* the part whose buffer is current_buffer, 0 for None
    pc,         \* where feed() is: "top" of its loop, "body", or "idle"
    failed,     \* feed() raised
    torn,       \* history: a flush parted the CR of a delimiter from its LF
    pointer,    \* of the MemoryFile that is read
    got         \* what was read of it

vars == <<Parts, fed, data, status, values, current, pc, failed, torn, pointer, got>>

CRLF == <<"CR", "LF">>
BoundaryLength == Len(Boundary)
EndBoundary == Boundary \o <<"-", "-">> \o CRLF

(* find() of a bytearray, and a slice up to k, which may be negative. *)
Occurrences(s, t) == {p \in 0 .. Len(s) - Len(t) : SubSeq(s, p + 1, p + Len(t)) = t}
Found(s, t) == Occurrences(s, t) # {}
Find(s, t) == Min(Occurrences(s, t))
Upto(s, k) == SubSeq(s, 1, IF k >= 0 THEN k ELSE Len(s) + k)
From(s, k) == SubSeq(s, k + 1, Len(s))

(* The boundary is made of hexadecimal digits at random. *)
ASSUME BoundaryAssumption ==
    Boundary # <<>> /\ Boundary \in Seq(Bytes \ {"CR", "LF"})

(* A form is a dictionary: its names are distinct. *)
ASSUME FormsAssumption ==
    /\ Names \cap {"CR", "LF"} = {}
    /\ \A form \in Forms :
          /\ form # <<>> /\ form \in Seq([name : Names, content : Seq(Bytes)])
          /\ \A i \in 1 .. Len(form) : ~Found(form[i].content, Boundary)
          /\ \A i, j \in 1 .. Len(form) : form[i].name = form[j].name => i = j

ASSUME LimitsAssumption ==
    /\ FlushFactor \in Nat \ {0} /\ InMemoryLimit \in Nat
    /\ MaxChunk \in Nat /\ Counts \subseteq Nat

(* The header of a part is one symbol, its name. *)
CreateHeaders(part) == <<part.name>>

Section(part) ==
    Boundary \o CRLF \o CreateHeaders(part) \o CRLF \o CRLF \o part.content \o CRLF

(* The sections of the first n parts. *)
Sections(form) ==
    LET before[n \in 0 .. Len(form)] ==
            IF n = 0 THEN <<>> ELSE before[n - 1] \o Section(form[n])
    IN before

(* MultipartEncoder.__iter__: no CRLF after the last delimiter. *)
Encode(form) == Sections(form)[Len(form)] \o (Boundary \o <<"-", "-">>)
Encoded == Encode(Parts)

Init ==
    /\ Parts \in Forms
    /\ fed = 0
    /\ data = <<>>
    /\ status = "boundary"
    /\ values = <<>>
    /\ current = 0
    /\ pc = "idle"
    /\ failed = FALSE
    /\ torn = FALSE
    /\ pointer = 0
    /\ got = <<>>

kept == <<Parts, pointer, got>>

-----------------------------------------------------------------------------
Feed(n) ==
    /\ pc = "idle" /\ ~failed /\ fed + n <= Len(Encoded)
    /\ fed' = fed + n
    /\ data' = data \o SubSeq(Encoded, fed + 1, fed + n)
    /\ pc' = "top"
    /\ UNCHANGED <<status, values, current, failed, torn, kept>>

Top ==
    /\ pc = "top"
    /\ pc' = IF data = <<>> \/ data = EndBoundary THEN "idle" ELSE "body"
    /\ UNCHANGED <<fed, data, status, values, current, failed, torn, kept>>

Return ==
    /\ pc' = "idle"
    /\ UNCHANGED <<data, status, values, current, failed, torn>>

ExpectingBoundary ==
    /\ pc = "body" /\ status = "boundary"
    /\ CASE Len(data) < BoundaryLength -> Return
         [] Len(data) >= BoundaryLength /\ Found(data, Boundary) ->
                /\ data' = From(data, Find(data, Boundary) + BoundaryLength)
                /\ status' = "headers"
                /\ UNCHANGED <<values, current, pc, failed, torn>>
         [] OTHER ->
                /\ failed' = TRUE /\ pc' = "idle"
                /\ UNCHANGED <<data, status, values, current, torn>>
    /\ UNCHANGED <<fed, kept>>

(* parse_header: a new SmartFile under the name of the part. *)
ParseHeader(header) ==
    LET i == CHOOSE i \in 1 .. Len(Parts) : Contains(header, Parts[i].name)
    IN /\ current' = i
       /\ values' = [n \in DOMAIN values \cup {Parts[i].name} |->
                        IF n = Parts[i].name THEN <<>> ELSE values[n]]

ExpectingHeaders ==
    /\ pc = "body" /\ status = "headers"
    /\ IF Found(data, CRLF \o CRLF)
       THEN LET pos == Find(data, CRLF \o CRLF)
            IN /\ ParseHeader(Upto(data, pos))
               /\ data' = From(data, pos + 4)
               /\ status' = "buffer"
               /\ UNCHANGED <<pc, failed, torn>>
       ELSE Return
    /\ UNCHANGED <<fed, kept>>

(* SmartFile.write.  Over the limit it turns to a DiskFile and raises: that *)
(* class has no place for its attributes, and takes no bytearray.           *)
Write(chunk) ==
    LET name == Parts[current].name
        fits == Len(values[name]) + Len(chunk) <= InMemoryLimit
    IN /\ failed' = ~fits
       /\ values' = IF fits THEN [values EXCEPT ![name] = @ \o chunk] ELSE values

(* Mutant: the CRLF before a delimiter is taken for the value. *)
TakePartWhole ==
    /\ pc = "body" /\ status = "buffer" /\ Found(data, Boundary)
    /\ Write(Upto(data, Find(data, Boundary)))
    /\ data' = From(data, Find(data, Boundary))
    /\ pc' = "top" /\ status' = "boundary" /\ current' = 0
    /\ UNCHANGED <<fed, torn, kept>>

(* Mutant: the parser stays with the part it has read. *)
TakePartAgain ==
    /\ pc = "body" /\ status = "buffer" /\ Found(data, Boundary)
    /\ Write(Upto(data, Find(data, Boundary) - 2))
    /\ data' = From(data, Find(data, Boundary))
    /\ pc' = "top"
    /\ UNCHANGED <<fed, status, current, torn, kept>>

(* The delimiter was found: the value ends two bytes before it. *)
TakePart ==
    /\ pc = "body" /\ status = "buffer" /\ Found(data, Boundary)
    /\ LET pos == Find(data, Boundary)
       IN /\ Write(Upto(data, pos - 2))
          /\ IF failed' THEN pc' = "idle" /\ UNCHANGED <<data, status, current>>
             ELSE /\ data' = From(data, pos)
                  /\ pc' = "top" /\ status' = "boundary" /\ current' = 0
    /\ UNCHANGED <<fed, torn, kept>>

(* A long value is written but for its last bytes, as many as the boundary  *)
(* has: too few for a delimiter of which only the last byte is missing.     *)
Flush ==
    /\ pc = "body" /\ status = "buffer" /\ ~Found(data, Boundary)
    /\ Len(data) >= BoundaryLength * FlushFactor
    /\ Write(Upto(data, Len(data) - BoundaryLength))
    /\ data' = IF failed' THEN data ELSE From(data, Len(data) - BoundaryLength)
    /\ torn' = (torn \/ IsPrefix(<<"LF">> \o Boundary, From(Encoded, fed - BoundaryLength)))
    /\ pc' = "idle"
    /\ UNCHANGED <<fed, status, current, kept>>

Wait ==
    /\ pc = "body" /\ status = "buffer" /\ ~Found(data, Boundary)
    /\ Len(data) < BoundaryLength * FlushFactor
    /\ Return
    /\ UNCHANGED <<fed, kept>>

Loop == Top \/ ExpectingBoundary \/ ExpectingHeaders \/ TakePart \/ Flush \/ Wait

-----------------------------------------------------------------------------
(* consume(), and MemoryFile.read of the last part. *)

Uploaded == values[Last(Parts).name]

Read(count) ==
    /\ fed = Len(Encoded) /\ pc = "idle" /\ ~failed
    /\ Len(got) < Len(Uploaded)
    /\ IF count = 0
       THEN /\ got' = got \o From(Uploaded, pointer)
            /\ pointer' = Len(Uploaded)
       ELSE /\ got' = got \o SubSeq(Uploaded, pointer + 1,
                                    Min({pointer + count, Len(Uploaded)}))
            /\ pointer' = pointer + count
    /\ UNCHANGED <<Parts, fed, data, status, values, current, pc, failed, torn>>

Next ==
    \/ \E n \in 1 .. MaxChunk : Feed(n)
    \/ Loop
    \/ \E count \in Counts : Read(count)

Spec == Init /\ [][Next]_vars

(* feed() is not suspended: its buffers are in memory. *)
FairSpec == Spec /\ WF_vars(Loop)

-----------------------------------------------------------------------------
(* The type of the parser and of what it was given. *)
TypeOK ==
    /\ fed \in 0 .. Len(Encoded)
    /\ status \in {"boundary", "headers", "buffer"}
    /\ current \in 0 .. Len(Parts)
    /\ status = "buffer" <=> current # 0
    /\ pc \in {"idle", "top", "body"}
    /\ failed \in BOOLEAN /\ torn \in BOOLEAN
    /\ DOMAIN values \subseteq {Parts[i].name : i \in 1 .. Len(Parts)}
    /\ pointer \in Nat

Written(part) == IF part.name \in DOMAIN values THEN values[part.name] ELSE <<>>

(* Wherever the chunks cut headers, values and delimiters, what was written *)
(* of a part is a beginning of its content, it is all of it once the whole  *)
(* body was fed, feed() only fails for a part over the memory limit, and    *)
(* reads of the file, counted or whole, get it from its start without a     *)
(* gap; unless a flush parted CR and LF of a delimiter (parser.pyx:233-284, *)
(* 55-67).                                                                  *)
Parses ==
    ~torn =>
        /\ \A i \in 1 .. Len(Parts) : IsPrefix(Written(Parts[i]), Parts[i].content)
        /\ fed = Len(Encoded) /\ pc = "idle" /\ ~failed =>
               \A i \in 1 .. Len(Parts) : Written(Parts[i]) = Parts[i].content
        /\ IsPrefix(got, Last(Parts).content)
        /\ failed => \E i \in 1 .. Len(Parts) : Len(Parts[i].content) > InMemoryLimit

(* feed() returns: no chunk makes its loop run for ever. *)
FeedReturns == pc # "idle" ~> pc = "idle"

=============================================================================
