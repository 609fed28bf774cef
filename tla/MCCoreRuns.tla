----------------------------- MODULE MCCoreRuns -----------------------------
(***************************************************************************)
(* Small instances of CoreRuns: the default taint lists restricted to a    *)
(* tool of each kind, with a policy file that allows writing.              *)
(***************************************************************************)
EXTENDS CoreRuns, TLC

CONSTANTS api1, api2, telegram

MCKindOf == api1 :> "api:" @@ api2 :> "api:" @@ telegram :> "telegram:"

\* write_file is allowed by a rule of its own, fetch_url by the default.
MCRules == << [tools |-> {"write_file"}, tainted |-> "any", effect |-> "allow"] >>

\* write_file always asks.
MCAskRules ==
  << [tools |-> {"write_file"}, tainted |-> "any", effect |-> "require_approval"] >>
=============================================================================
