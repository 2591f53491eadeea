----------------------------- MODULE MCPlugins ------------------------------
(***************************************************************************)
(* Two built-in drivers of the UNI-T analyzers, and plugins that claim the *)
(* same instruments in every way a manifest can.                           *)
(***************************************************************************)
EXTENDS Plugins

MCBuiltIn ==
  << [id |-> "unitrend.fscan", origin |-> Empty, vendor |-> "UNI-T",
      patterns |-> <<[family |-> FALSE, models |-> {"UTS3032T"}]>>],
     [id |-> "unitrend.uts", origin |-> Empty, vendor |-> "UNI-T",
      patterns |-> <<[family |-> TRUE, models |-> {"UTS3032T", "UTS3015T"}]>>] >>

MCIdentities ==
  { [manufacturer |-> "UNI-T", model |-> m] : m \in {"UTS3032T", "UTS3015T"} }
    \cup { [manufacturer |-> "Other", model |-> "X1"] }

Manifest(name, vendor, models) ==
  [name |-> name, vendor |-> vendor, compatible |-> TRUE, models |-> models]

Literal(model) == [literal |-> TRUE, found |-> {model}, whole |-> {model}]
Regular(found) == [literal |-> FALSE, found |-> found, whole |-> found]

\* One driver in two versions, another file that registers the same name, a file of
\* two drivers of which one is invalid, one that raises.
MCCode ==
  [a1 |-> [registers |-> << Manifest("python.a", "UNI-T", <<Regular({"UTS3032T", "X1"})>>) >>,
           raises |-> FALSE],
   a2 |-> [registers |-> << Manifest("python.a", "UNI-T", <<Literal("UTS3015T"), Literal("UTS3032T")>>),
                            Manifest("python.b", Empty, <<Literal("X1")>>) >>,
           raises |-> FALSE],
   any |-> [registers |-> << Manifest("python.a", Empty, <<Regular({"UTS3032T", "UTS3015T", "X1", Empty})>>) >>,
            raises |-> FALSE],
   bad |-> [registers |-> << Manifest("python.b", "UNI-T", <<Literal("X1")>>),
                             Manifest("python.c", "UNI-T", <<>>) >>,
            raises |-> FALSE],
   broken |-> [registers |-> << Manifest("python.b", "UNI-T", <<Literal("X1")>>) >>, raises |-> TRUE]]
=============================================================================
