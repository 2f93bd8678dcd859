---------------------------- MODULE MCHashTable ----------------------------
EXTENDS HashTable
============================================================================
