-------------------------- MODULE MCPhantomSession --------------------------
EXTENDS PhantomSession, TLC

CONSTANTS s1, s2, d1, d2

OwnDevice == (s1 :> d1) @@ (s2 :> d2)
OneSession == (s1 :> d1)
NoneForeign == {}
LastForeign == {NumChannels - 1}
Quiet == {{}}
Leftover == {{}, {"enable_iso"}}
=============================================================================
