-------------------------------- MODULE MCSmf --------------------------------
\* The small instance of Smf that TLC checks; its constants are in MCSmf.cfg.
EXTENDS Smf
=============================================================================
