-------------------------- MODULE MCStatsPipeline --------------------------
(* Small instances of StatsPipeline for TLC. *)
EXTENDS StatsPipelineProperties

CONSTANTS tag_key, value1, value2

\* One tag key with two values: a view without columns merges the two rows.
TwoTagMaps == {(tag_key :> value1), (tag_key :> value2)}
OneTagMap  == {(tag_key :> value1)}
NoColumns  == {{}}
AllColumns == {{}, {tag_key}}
KeyColumn  == {{tag_key}}

HandleSymmetry == Permutations(Handles)
=============================================================================
