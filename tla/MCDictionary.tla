---------------------------- MODULE MCDictionary ----------------------------
EXTENDS Dictionary, TLC

CONSTANTS json, first, second

\* A built-in dictionary and two custom ones, one of them as long as it.
MCBuiltins == {json}
MCCustoms == {first, second}
MCId == json :> 1 @@ first :> 3 @@ second :> 4
MCLength == json :> 9 @@ first :> 9 @@ second :> 7

\* Levels that disagree about the hash bits, which none do at present: the
\* encoder's key has them for the day they do.
MCHashBits == {15, 17}
=============================================================================
