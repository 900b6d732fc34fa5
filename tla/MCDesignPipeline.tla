-------------------------- MODULE MCDesignPipeline --------------------------
(* DesignPipeline on two features, the second built on the first. *)
EXTENDS DesignPipeline, TLC

MCFeatures == 1..2
Chain      == (1 :> {}) @@ (2 :> {1})
Nothing    == {}
Apart      == {{k} : k \in Kinds}
WithCrash  == Apart \union {{"fault", "crash"}}
=============================================================================
