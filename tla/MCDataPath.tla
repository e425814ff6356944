----------------------------- MODULE MCDataPath ----------------------------
(* Two participants A and B whose writers have the same EntityId and both  *)
(* write a/b to a reader of R.  A keeps its samples on disk and has a      *)
(* TransientLocal reader of a/b.                                           *)
EXTENDS DataPath

CONSTANTS A, B, R, wa, wb, rx, ry

MCNodeOf == wa :> A @@ wb :> B @@ rx :> R @@ ry :> A
MCEntityOf == wa :> entity_id_for_writer(1) @@ wb :> entity_id_for_writer(1)
MCTopicOf == wa :> <<"a", "/", "b">> @@ wb :> <<"a", "/", "b">>
             @@ rx :> <<"a", "/", "b">> @@ ry :> <<"a", "/", "b">>
MCMatched == rx :> {wa, wb} @@ ry :> {}
MCPayloads == wa :> {<<>>, <<1, 0, 0, 0, 7>>} @@ wb :> {<<1, 2, 3>>}
=============================================================================
