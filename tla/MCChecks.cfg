\* Six groups of checks, each with the messages and the configurations that
\* tell its answers apart; two recipients.
CONSTANTS
  r1 = r1  r2 = r2
  Rcpt <- MCRcpt
  Setup <- MCSetup
SPECIFICATION ChecksFairSpec
INVARIANTS  DmarcDecides
PROPERTIES MilterDialogue EveryStageAnswered
CHECK_DEADLOCK FALSE
