----------------------------- MODULE MCTelegram -----------------------------
EXTENDS Telegram
MCSteps == <<"SELECT_PEER", "ENTER_OBJECTIVE", "SELECT_ROLE_A">>
=============================================================================
