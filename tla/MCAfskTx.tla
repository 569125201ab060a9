------------------------------ MODULE MCAfskTx ------------------------------
EXTENDS AfskTx

MCFrames == {<<"plain">>, <<"special">>, <<"special", "plain">>, <<"plain", "special">>}
=============================================================================
