----------------------------- MODULE MCTransfer -----------------------------
EXTENDS TransferInv
=============================================================================
