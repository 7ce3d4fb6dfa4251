------------------------ MODULE TranscriptLifecycle ------------------------
(***************************************************************************)
(* The reducer that turns recognition results into transcript events       *)
(* (openasr-core, realtime/transcript): partials, one final, and explicit  *)
(* revisions after it.  A segment is its revision and whether it is final; *)
(* texts, speakers, languages and event ids are left out, except whether   *)
(* an update has the text the segment has.                                 *)
(***************************************************************************)
EXTENDS Integers

CONSTANT None

Segment(revision, finalized) == [finalized |-> finalized, revision |-> revision]
Applied(event, segment) == [event |-> event, segment |-> segment]

\* reject_out_of_order_or_stable_same_revision.
OutOfOrder(segment, revision, final) ==
  \/ revision < segment.revision
  \/ revision = segment.revision /\ ~(final /\ ~segment.finalized)

\* apply, for one segment.
Apply(segment, revision, final, sameText) ==
  IF segment = None
  THEN Applied(IF final THEN "Final" ELSE "Partial", Segment(revision, final))
  ELSE IF \/ OutOfOrder(segment, revision, final)
          \/ segment.finalized /\ sameText
       THEN Applied("Ignored", segment)
  ELSE IF segment.finalized THEN Applied("Revision", Segment(revision, TRUE))
  ELSE Applied(IF final THEN "Final" ELSE "Partial", Segment(revision, final))
=============================================================================
