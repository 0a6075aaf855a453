---------------------------- MODULE RenderLibrary ----------------------------
(***************************************************************************)
(* The library image-render's scenes use: its assets are fetched once, at  *)
(* installation (assets.py), then indexed with the POV-Ray manual and read *)
(* page by page (library.py).  The catalog here is one photographic map    *)
(* with its details and one model of several files; the installation       *)
(* before this one may have left any of them, as it was or not.            *)
(***************************************************************************)
EXTENDS Integers, Sequences, SequencesExt

CONSTANTS
    MaxText,    \* bound: characters of a text that is read
    MaxEvents   \* bound: tags and texts of a manual page

VARIABLES
    previous,   \* previous[f]: what the installation before holds of file f
    at,         \* the file being fetched, or the step after
    holds,      \* holds[f]: the file in the new directory; a model's are in its staging directory
    partial,    \* the download under way has left a .part file
    listed,     \* what the manifest lists
    missing,    \* what it reports as missing
    read        \* what is asked of the library

assetVars == <<previous, at, holds, partial, listed, missing>>
vars == <<assetVars, read>>

Details == {"disp", "rough"}
Parts   == {"gltf", "bin", "image"}
Order   == <<"wood", "disp", "rough", "gltf", "bin", "image">>
Files   == Range(Order)

\* The files in the catalog's order, each step after the one before.
After(f) == IF f = Last(Order) THEN "convert"
            ELSE Order[1 + CHOOSE n \in DOMAIN Order : Order[n] = f]
\* A failed map is skipped with its details, a detail alone, a model with all its files.
Skipping(f) ==
    CASE f = "wood" -> "gltf" [] f \in Details -> After(f) [] OTHER -> "built"

-----------------------------------------------------------------------------
Init ==
    /\ previous = [f \in Files |-> "other"] /\ holds = [f \in Files |-> "none"]
    /\ at = "start" /\ partial = FALSE
    /\ listed = {} /\ missing = {}
    /\ read = [op |-> "none"]

\* An old file whose hash is not the catalog's is as good as none ("other" stands for both).
Begin ==
    /\ at = "start" /\ read.op = "none"
    /\ previous' \in [Files -> {"good", "other"}]
    /\ at' = Head(Order)
    /\ UNCHANGED <<holds, partial, listed, missing, read>>

\* _fetch_file: the hash decides whether the old file is copied or the file downloaded.
\* Either may fail half way, a download also because it is longer than pinned; what comes
\* may be something else.
Copy ==
    /\ at \in Files /\ holds[at] = "none" /\ previous[at] = "good"
    /\ holds' \in {[holds EXCEPT ![at] = q] : q \in {"good", "other"}}
    /\ UNCHANGED <<previous, at, partial, listed, missing, read>>

Download ==
    /\ at \in Files /\ holds[at] = "none" /\ previous[at] # "good" /\ ~partial
    /\ \/ holds' \in {[holds EXCEPT ![at] = q] : q \in {"good", "other"}} /\ UNCHANGED partial
       \/ partial' = TRUE /\ UNCHANGED holds
    /\ UNCHANGED <<previous, at, listed, missing, read>>

\* The except clause removes the target and its .part, and the item is reported.
Fail ==
    /\ holds' = [f \in Files |-> IF f = at \/ (at \in Parts /\ f \in Parts) THEN "none" ELSE holds[f]]
    /\ partial' = FALSE
    /\ missing' = missing \cup {IF at \in Parts THEN "chair" ELSE at}
    /\ at' = Skipping(at)
    /\ UNCHANGED <<previous, listed, read>>

\* The hash of what is there now; a verified map is listed once its details are through.
Verify ==
    /\ at \in Files
    /\ \/ /\ holds[at] = "good"
          /\ at' = After(at)
          /\ listed' = listed \cup {f \in {"wood"} \cup Details : at \notin Parts /\ f = at}
          /\ UNCHANGED <<previous, holds, partial, missing, read>>
       \/ (holds[at] = "other" \/ partial) /\ Fail

\* gltf_mesh2.convert() of the staged files: images are moved out, then the include file is
\* written, and the staging directory goes whatever happens.  When writing fails the images
\* and what there is of the include file stay.
Convert ==
    /\ at = "convert"
    /\ \/ /\ holds' = [holds EXCEPT !["gltf"] = "include", !["bin"] = "none"]
          /\ listed' = listed \cup {"chair"} /\ UNCHANGED missing
       \/ /\ holds' \in {[f \in Files |-> IF f \in Parts THEN "none" ELSE holds[f]],
                         [holds EXCEPT !["gltf"] = "torn", !["bin"] = "none"]}
          /\ missing' = missing \cup {"chair"} /\ UNCHANGED listed
    /\ at' = "built"
    /\ UNCHANGED <<previous, partial, read>>

\* generate_include: the declarations of an asset name its own files.
Named == UNION {IF e = "chair" THEN {"gltf"} ELSE {e} : e \in listed}

\* build_index: the manifest's entries, and every include file of a pack's directory.
Indexed == listed \cup {f \in {"gltf"} : holds[f] \in {"include", "torn"}}

-----------------------------------------------------------------------------
(* Reading.                                                                *)

\* A page of a text, and where the next one begins.
Slice(text, offset, maximum) ==
    LET chunk == SubSeq(text, offset + 1, Min({offset + maximum, Len(text)}))
        end == offset + Len(chunk)
    IN  [text |-> chunk, next |-> IF end < Len(text) THEN end ELSE -1]

RECURSIVE Pages(_, _, _)
Pages(text, offset, maximum) ==
    LET page == Slice(text, offset, maximum)
    IN  IF page.next = -1 THEN page.text ELSE page.text \o Pages(text, page.next, maximum)

\* ManualParser: what of a page is kept.  A navigation panel is a div; script, style, head
\* and title are ignored; closing tags without an open one are passed over.
Kept(events) ==
    FoldLeft(LAMBDA s, e :
                 CASE e = "div"     -> [s EXCEPT !.divs = Append(@, FALSE)]
                   [] e = "nav"     -> [s EXCEPT !.divs = Append(@, TRUE), !.skipping = @ + 1]
                   [] e = "/div"    -> IF s.divs = <<>> THEN s
                                       ELSE [s EXCEPT !.divs = Front(@),
                                                      !.skipping = IF Last(s.divs) THEN @ - 1 ELSE @]
                   [] e = "script"  -> [s EXCEPT !.ignoring = @ + 1]
                   [] e = "/script" -> [s EXCEPT !.ignoring = IF @ = 0 THEN 0 ELSE @ - 1]
                   [] OTHER -> IF s.skipping = 0 /\ s.ignoring = 0 THEN [s EXCEPT !.kept = Append(@, e)] ELSE s,
             [divs |-> <<>>, skipping |-> 0, ignoring |-> 0, kept |-> <<>>], events).kept

\* Sections by number; docs_read's subsections and docs_toc to a depth.
Children(ids, id) == {i \in ids : Len(i) = Len(id) + 1 /\ IsPrefix(id, i)}
Toc(ids, depth) ==
    IF ids = {} THEN {}
    ELSE LET base == Min({Len(i) : i \in ids}) IN {i \in ids : Len(i) < base + depth}

Numbers == UNION {[1..n -> 1..2] : n \in 1..3}
Ask(r) == read.op = "none" /\ at = "start" /\ read' = r /\ UNCHANGED assetVars
AskText ==
    \E n \in 0..MaxText, maximum \in 1..MaxText : Ask([op |-> "read", text |-> [i \in 1..n |-> i], maximum |-> maximum])
AskPage ==
    \E n \in 0..MaxEvents :
        \E events \in [1..n -> {"div", "nav", "/div", "script", "/script", "text"}] : Ask([op |-> "page", events |-> events])
AskManual == \E ids \in SUBSET {i \in Numbers : Len(i) < 3 \/ i[1] = 1} : Ask([op |-> "manual", ids |-> ids])

Next == Begin \/ Copy \/ Download \/ Verify \/ Convert \/ AskText \/ AskPage \/ AskManual

Spec == Init /\ [][Next]_vars

-----------------------------------------------------------------------------
(* Properties.                                                             *)

\* When everything is fetched, what the manifest and the generated include file name is
\* there and is what the catalog pins, wherever it came from and whichever downloads failed;
\* every asset is listed or reported; no source of a model and no partial download stays.
\* (An include file torn by a write that failed is indexed although it is not listed.)
ListedIsVerified ==
    at = "built" =>
        /\ \A f \in Named : holds[f] \in {"good", "include"}
        /\ "chair" \in listed => holds["image"] = "good"
        /\ \A e \in {"wood", "chair"} : e \in listed \/ e \in missing
        /\ listed \cap Details # {} => "wood" \in listed
        /\ holds["bin"] = "none" /\ holds["gltf"] # "good" /\ ~partial
        /\ holds["gltf"] # "torn" => Indexed \ {"gltf"} \subseteq listed \cap (Files \cup {"chair"})

\* Whether position i lies in a navigation panel or an ignored element, told by what is open.
Opens(events, i, tags, close) ==
    {k \in 1..(i - 1) : events[k] \in tags /\
        ~\E j \in (k + 1)..(i - 1) :
            /\ events[j] = close
            /\ Cardinality({m \in (k + 1)..(j - 1) : events[m] \in tags})
                 = Cardinality({m \in (k + 1)..(j - 1) : events[m] = close})}
Hidden(events, i) ==
    \/ \E k \in Opens(events, i, {"div", "nav"}, "/div") : events[k] = "nav"
    \/ Opens(events, i, {"script"}, "/script") # {}

RECURSIVE Reached(_, _)
Reached(ids, from) == from \cup UNION {Reached(ids, Children(ids, i)) : i \in from}

\* Who follows nextOffset reads the whole text; a page keeps the text outside navigation
\* panels and ignored elements; from a table of contents of any depth the subsections lead
\* to every section whose ancestors below it are there.
LibraryIsReadable ==
    /\ read.op = "read" => Pages(read.text, 0, read.maximum) = read.text
    /\ read.op = "page" =>
           Len(Kept(read.events)) =
               Cardinality({i \in DOMAIN read.events : read.events[i] = "text" /\ ~Hidden(read.events, i)})
    /\ read.op = "manual" /\ read.ids # {} =>
           LET base == Min({Len(i) : i \in read.ids})
           IN  \A depth \in 1..3 :
                   Reached(read.ids, Toc(read.ids, depth)) =
                       {i \in read.ids : \A n \in (base + depth - 1)..Len(i) : SubSeq(i, 1, n) \in read.ids}
=============================================================================
