---------------------------- MODULE MCTranscript ----------------------------
\* Instances of Transcript for TLC.
EXTENDS Transcript
MCUses == {<<"Bash", "a">>, <<"Bash", "b">>, <<"Bash", "c">>,
           <<"Read", "a">>, <<"Write", "plan">>, <<"Task", "look">>}
=============================================================================
