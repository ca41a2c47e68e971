------------------------------- MODULE MCRotation -------------------------------
(* An instance of ProviderRotation: a provider with one key, and one with two *)
(* models whose unknown failures are permanent.                               *)
EXTENDS ProviderRotation, TLC

CONSTANTS k1, k2, k3, gemini, groq1, groq2

MCChain == << <<gemini>>, <<groq1, groq2>> >>
MCCalls == {k1, k2, k3}
MCDecommissioned == {groq1, groq2}
MCSymmetry == Permutations(MCCalls)
=============================================================================
