------------------------------ MODULE MCControl ------------------------------
EXTENDS Control
=============================================================================
